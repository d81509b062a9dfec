---------------------------- MODULE MCRchBridge ------------------------------
(* RchBridge, with the environments of the runs. *)
EXTENDS RchBridge

Usual == {"close", "read_signal"}
Calm == {Usual \cup {"late"}, Usual \cup {"late", "error_reply"}}

\* AB use and troubles, on pools that have lost an entry each.  Handlers that
\* empty or unsent writes keep are missed until an allocation times out, and a
\* release that was not sent ends with a signal only: so these come together.
Rough == {{"ab", "leaked"},
          Usual \cup {"leaked", "alloc_timeout"},
          Usual \cup {"leaked", "zero_write", "alloc_timeout"},
          Usual \cup {"leaked", "no_frame", "close_signal", "error_reply", "alloc_timeout"}}

\* The tasklet on a processor of its own: beside reads and writes, with reads that
\* signals end, and with releases.
TwoProcessors == {{"smp"}, {"smp", "read_signal"}, {"smp", "close", "leaked"}}

All == Calm \cup Rough \cup TwoProcessors
=============================================================================
