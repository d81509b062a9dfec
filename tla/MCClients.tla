------------------------------ MODULE MCClients ------------------------------
(* Clients, with the environments and the minors of the run. *)
EXTENDS Clients

CONSTANTS a1, a2, f1

\* bufA, bufB and another device.
WithAB(m) == [p \in Paths |-> IF p = a1 THEN 124 ELSE IF p = a2 THEN 125 ELSE m]

\* Undisturbed: a channel, a file, the registers, the host buffer, the buffer of
\* llhost, and a device of no special kind.  Disturbed: a file.  After a failed
\* copy everybody may wait for the semaphore until a signal comes.
CalmAndRough ==
    {[minor |-> WithAB(m), env |-> {}] : m \in {1, 128, 193, 195, 203, 240}}
    \cup {[minor |-> WithAB(128), env |-> e] : e \in {{"together"}, {"signal"}, {"fault", "signal"}}}
=============================================================================
