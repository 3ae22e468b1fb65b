---------------------------- MODULE MCPreprocess ----------------------------
(* Four turns submit to two workers over a channel of one: the channel runs *)
(* full while both workers are busy, and Stop meets a full channel.         *)
EXTENDS PreprocessDaemon
=============================================================================
