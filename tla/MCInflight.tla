----------------------------- MODULE MCInflight -----------------------------
(* Four callers over two fingerprints: two leaders of one key in a row with *)
(* a follower each, or three followers on one call.                         *)
EXTENDS Inflight
=============================================================================
