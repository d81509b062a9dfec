----------------------------- MODULE I2oInbound ------------------------------
(***************************************************************************)
(* The inbound half of the I2O message path: how a message frame (MFA) the *)
(* card posts on its outbound queue travels through the interrupt handler  *)
(* or the backstop thread (acq200.c), the stream buffer (streambuf.h) and  *)
(* the bottom-half tasklet (acq200_i2o.c) back to the card.                *)
(*                                                                         *)
(* Interrupts may be lost: the backstop thread exists for that             *)
(* (i2o_missed_int_checker, "backstop handled lost irq").  What the        *)
(* tasklet does with the message of a frame is the subject of RchBridge.   *)
(***************************************************************************)
EXTENDS Naturals, Sequences, FiniteSets

CONSTANTS MFAs,             \* the message frames of the card
          NoMfa,            \* STREAM_MFA_INVALID, 0 and 0xffffffff
          N,                \* slots of the stream buffer
          Overlap,          \* whether streamPut calls may overlap
          BadMfaThreshold,  \* BAD_MFA_THRESHOLD
          Glitches          \* whether OPQI can be seen with an empty queue

ASSUME MfaAssumption == IsFiniteSet(MFAs) /\ NoMfa \notin MFAs
ASSUME RingAssumption == N \in Nat /\ N >= 2 /\ (\E k \in 1 .. N : N = 2^k) /\ Overlap \in BOOLEAN
ASSUME ThresholdAssumption == BadMfaThreshold \in Nat /\ Glitches \in BOOLEAN

VARIABLES cardFree,   \* frames the card owns
          outq,       \* the outbound post queue of the card (read at OQP)
          masked,     \* OPQI is masked in OIMR
          bad,        \* m_dpd.bad_mfa_count
          pc,         \* producer -> its place in the handler
          hand,       \* producer -> the frame it read from OQP
          sched,      \* the tasklet is scheduled
          tpc,        \* the place of the tasklet
          thand,      \* the frame the tasklet is working on
          buffers, iput, iget, iputback, pput, pget   \* device->streambuf

Producers == {"isr", "backstop"}

streambuf == <<buffers, iput, iget, iputback, pput, pget>>
card == <<cardFree, outq>>
tasklet == <<sched, tpc, thand>>
vars == <<cardFree, outq, masked, bad, pc, hand, sched, tpc, thand,
          buffers, iput, iget, iputback, pput, pget>>

S == INSTANCE StreamBuf WITH Data <- MFAs, Invalid <- NoMfa

TypeOK ==
    /\ S!TypeOK
    /\ cardFree \subseteq MFAs
    /\ outq \in Seq(MFAs)
    /\ masked \in BOOLEAN
    /\ bad \in 0 .. BadMfaThreshold + 1
    /\ pc \in [Producers -> {"idle", "read", "consume", "putting"}]
    /\ hand \in [Producers -> MFAs \cup {NoMfa}]
    /\ sched \in BOOLEAN
    /\ tpc \in {"idle", "get", "getting", "dispatch"}
    /\ thand \in MFAs \cup {NoMfa}

Init ==
    /\ S!Init
    /\ cardFree = MFAs /\ outq = <<>>
    /\ masked = FALSE /\ bad = 0
    /\ pc = [p \in Producers |-> "idle"]
    /\ hand = [p \in Producers |-> NoMfa]
    /\ sched = FALSE /\ tpc = "idle" /\ thand = NoMfa

-----------------------------------------------------------------------------
(***************************************************************************)
(* The card.                                                               *)
(***************************************************************************)

CardPost(m) ==
    /\ m \in cardFree
    /\ cardFree' = cardFree \ {m}
    /\ outq' = Append(outq, m)
    /\ UNCHANGED <<masked, bad, pc, hand, tasklet, streambuf>>

\* acq200_isr reads OISR and finds OPQI.
IsrEnter ==
    /\ pc["isr"] = "idle"
    /\ ~ masked
    /\ outq # <<>> \/ Glitches
    /\ pc' = [pc EXCEPT !["isr"] = "read"]
    /\ UNCHANGED <<card, masked, bad, hand, tasklet, streambuf>>

\* The read of OQP returns 0xffffffff: acq200_incoming_message_isr masks the
\* interrupt once more than BAD_MFA_THRESHOLD reads in a row were bad.
IsrBadMfa_Consumes ==
    /\ pc["isr"] = "read"
    /\ outq = <<>>
    /\ bad' = IF bad > BadMfaThreshold THEN bad ELSE bad + 1
    /\ masked' = (masked \/ bad >= BadMfaThreshold)
    /\ pc' = [pc EXCEPT !["isr"] = "consume"]
    /\ UNCHANGED <<card, hand, tasklet, streambuf>>
IsrBadMfa ==
    /\ pc["isr"] = "read"
    /\ outq = <<>>
    /\ bad' = IF bad > BadMfaThreshold THEN bad ELSE bad + 1
    /\ masked' = (masked \/ bad >= BadMfaThreshold)
    /\ pc' = [pc EXCEPT !["isr"] = "idle"]
    /\ UNCHANGED <<card, hand, tasklet, streambuf>>

\* The read of OQP removes a frame from the queue, in the interrupt handler
\* or in acq200_handle_incoming_message called by the backstop thread.
ReadMfa(p, from) ==
    /\ pc[p] = from
    /\ outq # <<>>
    /\ hand' = [hand EXCEPT ![p] = Head(outq)]
    /\ outq' = Tail(outq)
    /\ bad' = 0
    /\ pc' = [pc EXCEPT ![p] = "consume"]
    /\ UNCHANGED <<cardFree, masked, tasklet, streambuf>>

IsrRead == ReadMfa("isr", "read")

\* The backstop's timeout expired; a read of an empty queue has no effect.
BackstopRead == ReadMfa("backstop", "idle")

-----------------------------------------------------------------------------
(***************************************************************************)
(* acq200_consume_i2o: queue the frame for the tasklet, or give it back.   *)
(***************************************************************************)

Consume(p) ==
    /\ pc[p] = "consume"
    /\ S!PutCheck(p, hand[p])
    /\ pc' = [pc EXCEPT ![p] = "putting"]
    /\ UNCHANGED <<card, masked, bad, hand, tasklet>>

ConsumePut(p) ==
    /\ pc[p] = "putting"
    /\ S!PutStore(p) \/ S!PutAdvance(p)
    /\ UNCHANGED <<card, masked, bad, pc, hand, tasklet>>

\* streamPut failed: i2o_return_message, the message is discarded.
ConsumeDiscard_Drop(p) ==
    /\ pc[p] = "putting" /\ pput[p].pc = "refused"
    /\ S!PutReturn(p)
    /\ pc' = [pc EXCEPT ![p] = "idle"]
    /\ hand' = [hand EXCEPT ![p] = NoMfa]
    /\ UNCHANGED <<card, masked, bad, tasklet>>
ConsumeDiscard(p) ==
    /\ pc[p] = "putting" /\ pput[p].pc = "refused"
    /\ S!PutReturn(p)
    /\ cardFree' = cardFree \cup {hand[p]}
    /\ pc' = [pc EXCEPT ![p] = "idle"]
    /\ hand' = [hand EXCEPT ![p] = NoMfa]
    /\ UNCHANGED <<outq, masked, bad, tasklet>>

\* tasklet_schedule: the tasklet runs, once more if it is running now.
ConsumeSchedule_NotIfRunning(p) ==
    /\ pc[p] = "putting" /\ pput[p].pc = "done"
    /\ S!PutReturn(p)
    /\ sched' = (sched \/ tpc = "idle")
    /\ pc' = [pc EXCEPT ![p] = "idle"]
    /\ hand' = [hand EXCEPT ![p] = NoMfa]
    /\ UNCHANGED <<card, masked, bad, tpc, thand>>
ConsumeSchedule(p) ==
    /\ pc[p] = "putting" /\ pput[p].pc = "done"
    /\ S!PutReturn(p)
    /\ sched' = TRUE
    /\ pc' = [pc EXCEPT ![p] = "idle"]
    /\ hand' = [hand EXCEPT ![p] = NoMfa]
    /\ UNCHANGED <<card, masked, bad, tpc, thand>>

-----------------------------------------------------------------------------
(***************************************************************************)
(* acq200_streaming_isr_bh, the tasklet.                                   *)
(***************************************************************************)

\* The kernel clears the scheduled bit before it calls the tasklet.
TaskletRun ==
    /\ sched /\ tpc = "idle"
    /\ sched' = FALSE
    /\ tpc' = "get"
    /\ UNCHANGED <<card, masked, bad, pc, hand, thand, streambuf>>

TaskletGet ==
    /\ \/ tpc = "get" /\ S!GetCheck /\ tpc' = "getting"
       \/ tpc = "getting" /\ S!GetTake /\ UNCHANGED tpc
    /\ UNCHANGED <<card, masked, bad, pc, hand, sched, thand>>

\* streamGet returned STREAM_MFA_INVALID: the loop ends; else dispatch.
TaskletGot ==
    /\ tpc = "getting" /\ S!GetReturn
    /\ thand' = pget.data
    /\ tpc' = IF pget.data = NoMfa THEN "idle" ELSE "dispatch"
    /\ UNCHANGED <<card, masked, bad, pc, hand, sched>>

\* The message is handled, or discarded (default:); either way
\* i2o_return_message gives the frame back.
TaskletReturn_Once ==
    /\ tpc = "dispatch"
    /\ cardFree' = cardFree \cup {thand}
    /\ thand' = NoMfa
    /\ tpc' = "idle"
    /\ UNCHANGED <<outq, masked, bad, pc, hand, sched, streambuf>>
TaskletReturn ==
    /\ tpc = "dispatch"
    /\ cardFree' = cardFree \cup {thand}
    /\ thand' = NoMfa
    /\ tpc' = "get"
    /\ UNCHANGED <<outq, masked, bad, pc, hand, sched, streambuf>>

-----------------------------------------------------------------------------
Producer(p) == Consume(p) \/ ConsumePut(p) \/ ConsumeDiscard(p) \/ ConsumeSchedule(p)
Isr == IsrBadMfa \/ IsrRead \/ Producer("isr")
Backstop == BackstopRead \/ Producer("backstop")
Tasklet == TaskletRun \/ TaskletGet \/ TaskletGot \/ TaskletReturn

Next == (\E m \in MFAs : CardPost(m)) \/ IsrEnter \/ Isr \/ Backstop \/ Tasklet

Spec == Init /\ [][Next]_vars

(***************************************************************************)
(* Fairness: an interrupt handler that was entered and a scheduled tasklet *)
(* run to their end, and the backstop's timeout expires again and again    *)
(* (wait_event_interruptible_timeout).  Nothing says that the handler is   *)
(* ever entered: interrupts may be lost or masked.  Where calls of         *)
(* streamPut do not overlap, a producer that waits for its turn gets it:   *)
(* the strong fairness of Consume.                                         *)
(***************************************************************************)
FairSpec == Spec /\ WF_vars(Isr) /\ WF_vars(Backstop) /\ WF_vars(Tasklet)
                 /\ \A p \in Producers : SF_vars(Consume(p))

-----------------------------------------------------------------------------
\* In how many places frame m is: with the card, in its queue, with a producer
\* that has not yet published it, in the unread part of the ring, with the
\* tasklet.
Copies(m) ==
      Cardinality({m} \cap cardFree)
    + Cardinality({i \in DOMAIN outq : outq[i] = m})
    + Cardinality({p \in Producers : hand[p] = m /\ pput[p].pc # "done"})
    + Cardinality({k \in 1 .. S!NumEntries : S!Contents(iget, iput)[k] = m})
    + Cardinality({m} \cap {pget.data})
    + Cardinality({m} \cap {thand})

\* No frame is lost and none is given to two places: the card gets back each
\* frame it posted, once (acq200.c:833-872, acq200_i2o.c:348-445).
MfaConserved == \A m \in MFAs : Copies(m) = 1

\* A frame in the ring has somebody who will come for it: the tasklet is
\* scheduled or looping, or the producer that put it has not yet reached
\* tasklet_schedule (acq200_i2o.c:359, 440).
NoLostWakeup ==
    S!NumEntries > 0 => \/ sched
                        \/ tpc # "idle" /\ ~ (pget.pc = "done" /\ pget.data = NoMfa)
                        \/ \E p \in Producers : pput[p].pc = "done"

\* The handlers call the stream buffer the way its specification requires.
RingUse == S!Spec

\* Every frame the card posts is given back, even when interrupts are lost
\* or have been masked after bad reads, as long as the backstop thread runs
\* (acq200_i2o.c:709-737).
PostedIsReturned == \A m \in MFAs : (m \notin cardFree) ~> (m \in cardFree)
=============================================================================
