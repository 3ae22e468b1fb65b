----------------------------- MODULE MCSession -----------------------------
(* Two turns.  MCSession.cfg lets them overlap, with one round each and one *)
(* tool call under an id that both models choose; MCSessionSerial.cfg runs  *)
(* them one after the other, the first with tools, two rounds of up to two  *)
(* unnamed calls and an event of another component anywhere, so that a      *)
(* round follows another and a turn can use up its rounds;                  *)
(* MCSessionOverlap.cfg is the test of two overlapping requests that call   *)
(* no tools.                                                                *)
EXTENDS Session
=============================================================================
