------------------------------ MODULE StreamBuf ------------------------------
(***************************************************************************)
(* streambuf.h: struct GenericIntBuf, the ring of 32-bit words that hands  *)
(* message frame addresses (MFAs) from the producers (the interrupt        *)
(* handler and the backstop thread) to the consumer (the tasklet).         *)
(*                                                                         *)
(* genericIntBufPut takes no lock: it is three steps here, the test for    *)
(* full, the store of the word and the store of the new index, and any     *)
(* step of another actor may come between them.  genericIntBufGet tests    *)
(* for empty before it takes the lock: two steps.                          *)
(***************************************************************************)
EXTENDS Naturals, Sequences

CONSTANTS N,          \* number of slots (NSTREAMBUF, a power of two)
          Data,       \* the words that can be queued
          Invalid,    \* STREAM_MFA_INVALID
          Producers,  \* the callers of streamPut
          Overlap     \* whether two producers may be inside streamPut at once

ASSUME NAssumption == N \in Nat /\ N >= 2 /\ \E k \in 1..N : N = 2^k
ASSUME InvalidAssumption == Invalid \notin Data
ASSUME OverlapAssumption == Overlap \in BOOLEAN

VARIABLES buffers,    \* buf->buffers
          iput,       \* buf->iput: the next slot to write
          iget,       \* buf->iget: the next slot to read
          iputback,   \* buf->iputback: the slot read last
          pput,       \* producer -> its place in genericIntBufPut and locals
          pget        \* the consumer's place in genericIntBufGet and its result

ring == <<buffers, iput, iget, iputback>>
vars == <<buffers, iput, iget, iputback, pput, pget>>

Slots == 0 .. N - 1

Put0(pc, d, i) == [pc |-> pc, data |-> d, i |-> i]
Get0(pc, d) == [pc |-> pc, data |-> d]

(***************************************************************************)
(* Definitions on the indices.  A definition named X_Y, here and in the    *)
(* other modules, is X with the plausible mistake Y; no specification uses *)
(* it, and the properties are checked to tell it from X.                   *)
(***************************************************************************)
Inc(ii) == (ii + 1) % N                      \* (ii+1) & buffer_mask

IsFull_AgainstGet == Inc(iput) = iget
IsFull == Inc(iput) = iputback
IsEmpty == iget = iput

\* The number of steps of Inc from slot a to slot b: NumEntries is
\* Dist(iget, iput).
Dist(a, b) == IF a <= b THEN b - a ELSE b + N - a
NumEntries == Dist(iget, iput)

\* The words in the slots from a up to, not including, b.
Wrap(x) == IF x < N THEN x ELSE x - N
Contents(a, b) == [k \in 1 .. Dist(a, b) |-> buffers[Wrap(a + k - 1)]]

TypeOK ==
    /\ buffers \in [Slots -> Data \cup {Invalid}]
    /\ iput \in Slots /\ iget \in Slots /\ iputback \in Slots
    /\ pput \in [Producers -> [pc : {"idle", "store", "advance", "refused", "done"},
                               data : Data \cup {Invalid}, i : Slots]]
    /\ pget \in [pc : {"idle", "take", "done"}, data : Data \cup {Invalid}]

-----------------------------------------------------------------------------
Init ==
    /\ buffers = [i \in Slots |-> Invalid]
    /\ iput = 0 /\ iget = 0 /\ iputback = 0
    /\ pput = [p \in Producers |-> Put0("idle", Invalid, 0)]
    /\ pget = Get0("idle", Invalid)

Inside(p) == pput[p].pc \in {"store", "advance"}

\* genericIntBufPut: the test, which also loads the index.
PutCheck(p, d) ==
    /\ pput[p].pc = "idle"
    /\ Overlap \/ \A o \in Producers : ~ Inside(o)
    /\ pput' = [pput EXCEPT ![p] = Put0(IF IsFull THEN "refused" ELSE "store", d, iput)]
    /\ UNCHANGED <<buffers, iput, iget, iputback, pget>>

\* buf->buffers[buf->iput] = data
PutStore(p) ==
    /\ pput[p].pc = "store"
    /\ buffers' = [buffers EXCEPT ![pput[p].i] = pput[p].data]
    /\ pput' = [pput EXCEPT ![p].pc = "advance"]
    /\ UNCHANGED <<iput, iget, iputback, pget>>

\* buf->iput = genericIntBufInc(buf, buf->iput)
PutAdvance(p) ==
    /\ pput[p].pc = "advance"
    /\ iput' = Inc(pput[p].i)
    /\ pput' = [pput EXCEPT ![p].pc = "done"]
    /\ UNCHANGED <<buffers, iget, iputback, pget>>

\* The return of 0 ("done") or -1 ("refused") to the caller.
PutReturn(p) ==
    /\ pput[p].pc \in {"done", "refused"}
    /\ pput' = [pput EXCEPT ![p] = Put0("idle", Invalid, 0)]
    /\ UNCHANGED <<buffers, iput, iget, iputback, pget>>

\* genericIntBufGet: the test outside the lock.
GetCheck_NoTest ==
    /\ pget.pc = "idle"
    /\ pget' = Get0("take", Invalid)
    /\ UNCHANGED <<buffers, iput, iget, iputback, pput>>
GetCheck ==
    /\ pget.pc = "idle"
    /\ pget' = IF IsEmpty THEN Get0("done", Invalid) ELSE Get0("take", Invalid)
    /\ UNCHANGED <<buffers, iput, iget, iputback, pput>>

\* genericIntBufGet: the locked part.
GetTake_KeepsPutback ==
    /\ pget.pc = "take"
    /\ pget' = Get0("done", buffers[iget])
    /\ iget' = Inc(iget)
    /\ UNCHANGED <<buffers, iput, iputback, pput>>
GetTake ==
    /\ pget.pc = "take"
    /\ pget' = Get0("done", buffers[iget])
    /\ iputback' = iget
    /\ iget' = Inc(iget)
    /\ UNCHANGED <<buffers, iput, pput>>

GetReturn ==
    /\ pget.pc = "done"
    /\ pget' = Get0("idle", Invalid)
    /\ UNCHANGED <<buffers, iput, iget, iputback, pput>>

\* genericIntBufPutBack, called by the consumer between two reads.
PutBack ==
    /\ pget.pc = "idle"
    /\ iget' = iputback
    /\ UNCHANGED <<buffers, iput, iputback, pput, pget>>

Put(p) == (\E d \in Data : PutCheck(p, d)) \/ PutStore(p) \/ PutAdvance(p) \/ PutReturn(p)
Get == GetCheck \/ GetTake \/ GetReturn

Next == (\E p \in Producers : Put(p)) \/ Get \/ PutBack

Spec == Init /\ [][Next]_vars

-----------------------------------------------------------------------------
(***************************************************************************)
(* Correctness, for producers that do not overlap.                         *)
(***************************************************************************)

\* The indices stay in order around the ring: at most the one slot that was
\* read last lies between iputback and iget, and everything from iput on up
\* to iputback is free (streambuf.h:58-60, 94-95, 103-107: a put must leave
\* the slot genericIntBufPutBack returns to alone).
PutBackSlotKept ==
    /\ Dist(iputback, iget) <= 1
    /\ Dist(iputback, iget) + Dist(iget, iput) = Dist(iputback, iput)

\* A put is refused, and the caller discards the message, only when all but
\* two slots hold unread words (streambuf.h:58-60: the test is against
\* iputback and not against iget, so that a place is given up for putting back).
RefusedOnlyWhenFull ==
    [][\A p \in Producers : pput'[p].pc = "refused" /\ pput[p].pc # "refused"
           => NumEntries >= N - 2]_vars

\* The consumer never returns a word nobody put: genericIntBufGet tests for
\* empty before it takes the lock, and the test must still hold inside
\* (streambuf.h:84-96).
TakesQueuedWord == pget.pc = "take" => ~ IsEmpty

\* What keeps the properties above true from step to step: one producer at a
\* time is inside genericIntBufPut, the slot it loaded is still the free slot
\* at iput, the test it made has not become false, and the words of the ring
\* from iputback up to iput are words that were put.
Claim(p) ==
    Inside(p) =>
        /\ pput[p].i = iput
        /\ pput[p].data \in Data
        /\ ~ IsFull
        /\ pput[p].pc = "advance" => buffers[iput] = pput[p].data
OneInside == \A p, o \in Producers : Inside(p) /\ Inside(o) => p = o
RingInv ==
    /\ TypeOK
    /\ PutBackSlotKept
    /\ TakesQueuedWord
    /\ OneInside
    /\ \A p \in Producers : Claim(p)

\* The ring implements the bounded FIFO queue: words come out once, in the
\* order they were put, and putting back returns exactly the word read last.
Fifo == INSTANCE BoundedFifo WITH
            Capacity <- N - 1,
            q <- Contents(iget, iput),
            held <- Contents(iputback, iget)
FifoSpec == Fifo!Spec
=============================================================================
