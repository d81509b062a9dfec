----------------------------- MODULE MCHtStream ------------------------------
(* HtStream, with the environments of the runs. *)
EXTENDS HtStream

GoodAndBad == {{}, {"slow"}, {"timeout"}, {"slow", "timeout"}, {"error"}}
=============================================================================
