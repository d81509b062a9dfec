----------------------------- MODULE MCStreamBuf -----------------------------
(* StreamBuf on a ring of four slots with two distinguishable words and two *)
(* producers that take turns.                                              *)
EXTENDS StreamBuf
=============================================================================
