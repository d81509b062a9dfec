----------------------------- MODULE MCBufferAB ------------------------------
(* BufferAB with a client that finds both buffers full. *)
EXTENDS BufferAB

Slow == {{"slow"}}
=============================================================================
