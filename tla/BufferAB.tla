------------------------------- MODULE BufferAB ------------------------------
(***************************************************************************)
(* The swinging buffers: the ACQ200_BUFFER_AB_IOWR ioctl of the driver     *)
(* (acq200_bufferABaction and what it calls, acq200_i2o.c) and its client, *)
(* the loop of htstream.c.  The card fills one buffer per request, in the  *)
(* order of the requests, each with the next block of the acquisition      *)
(* (HRD_READ_NEXT), and ends with a reply of length zero.                  *)
(***************************************************************************)
EXTENDS Naturals, Sequences

CONSTANTS MaxBlocks,    \* blocks of the acquisition
          IdMod,        \* message ids come round after IdMod requests
          MaxTO,        \* MAXTO: timeouts htstream accepts in a row
          MaxWaiting,   \* bound on the requests that wait at the card when ioctls fail
          Environments  \* what may happen in the behaviours that are looked at

Happenings ==
    {"slow",      \* the card fills both buffers while the client works
     "timeout",   \* an ioctl times out once data flows
     "error"}     \* an ioctl fails otherwise: it is interrupted

ASSUME BoundsAssumption ==
    MaxBlocks \in Nat /\ MaxTO \in Nat /\ IdMod \in Nat \ {0, 1} /\ MaxWaiting \in Nat
ASSUME EnvironmentAssumption == Environments \subseteq SUBSET Happenings

VARIABLES rchAB,    \* path->rchAB: buffer -> its request, or none
          abNext,   \* path->ab_next
          lastId,   \* m_dpd.i2o_last_id_out
          reqs,     \* requests at the card, the oldest first
          block,    \* blocks the card has sent
          mem,      \* buffer -> the block in its memory
          full,     \* ops.ds: buffer -> the reported block, or none
          recycle,  \* ops.ci.recycle
          next,     \* htstream: the buffer it expects next
          cpc,      \* htstream: its place in the loop
          timeouts, \* htstream: timeouts in a row
          started,  \* htstream: an ioctl has succeeded
          out,      \* the blocks htstream has worked on
          env       \* what may happen in this behaviour: chosen once

vars == <<rchAB, abNext, lastId, reqs, block, mem, full, recycle, next, cpc, timeouts,
          started, out, env>>

Buffers == {0, 1}                        \* BUFFERA, BUFFERB
Other(b) == 1 - b
EOF == MaxBlocks + 1                     \* a reply of length zero
Blocks == 0 .. EOF
NoBlock == 0                             \* not valid, not full
NoRch == [id |-> IdMod, valid |-> NoBlock]

Init ==
    /\ rchAB = [b \in Buffers |-> NoRch]
    /\ abNext = 0 /\ next = 0
    /\ lastId = 0 /\ reqs = <<>> /\ block = 0
    /\ mem = [b \in Buffers |-> NoBlock]
    /\ full = [b \in Buffers |-> NoBlock]
    /\ recycle = {} /\ cpc = "ioctl" /\ timeouts = 0 /\ started = FALSE
    /\ out = <<>> /\ env \in Environments

-----------------------------------------------------------------------------
(***************************************************************************)
(* The driver.                                                             *)
(***************************************************************************)

\* acq200_bufferABrecycle forgets the requests of the client's buffers, then
\* acq200_bufferAB_queue sends a request for each buffer without one, A first.
ToQueue == recycle \cup {b \in Buffers : rchAB[b] = NoRch}
IdOf_SameForBoth(b) == (lastId + 1) % IdMod
IdOf(b) == IF b = 1 /\ 0 \in ToQueue THEN (lastId + 2) % IdMod ELSE (lastId + 1) % IdMod
NewReqs_BFirst ==
    (IF 1 \in ToQueue THEN <<[id |-> IdOf(1), buf |-> 1]>> ELSE <<>>)
    \o (IF 0 \in ToQueue THEN <<[id |-> IdOf(0), buf |-> 0]>> ELSE <<>>)
NewReqs ==
    (IF 0 \in ToQueue THEN <<[id |-> IdOf(0), buf |-> 0]>> ELSE <<>>)
    \o (IF 1 \in ToQueue THEN <<[id |-> IdOf(1), buf |-> 1]>> ELSE <<>>)

Ioctl ==
    /\ cpc = "ioctl"
    /\ rchAB' = [b \in Buffers |-> IF b \in ToQueue THEN [id |-> IdOf(b), valid |-> NoBlock]
                                   ELSE rchAB[b]]
    /\ reqs' = reqs \o NewReqs
    /\ lastId' = (lastId + Len(NewReqs)) % IdMod
    /\ cpc' = "wait"
    /\ UNCHANGED <<abNext, block, mem, full, recycle, next, timeouts, started, out, env>>

\* fillDeviceStatus, and again if the first buffer was full.
Fill ==
    LET b == abNext
        two == rchAB[Other(b)].valid # NoBlock
    IN  /\ full' = [x \in Buffers |-> IF x = b \/ two THEN rchAB[x].valid ELSE NoBlock]
        /\ abNext' = IF two THEN b ELSE Other(b)

IoctlDone ==
    /\ cpc = "wait"
    /\ rchAB[abNext].valid # NoBlock
    /\ Fill
    /\ cpc' = "work"
    /\ timeouts' = 0 /\ started' = TRUE
    /\ recycle' = {}
    /\ UNCHANGED <<rchAB, lastId, reqs, block, mem, next, out, env>>

-----------------------------------------------------------------------------
(***************************************************************************)
(* The client.                                                             *)
(***************************************************************************)

\* The ioctl returned -ETIMEDOUT: go round again, with ops.ci.recycle as it is;
\* too many timeouts in a row end the program.
IoctlTimeout ==
    /\ cpc = "wait"
    /\ started => "timeout" \in env
    /\ rchAB[abNext].valid = NoBlock
    /\ timeouts' = IF started THEN timeouts + 1 ELSE timeouts
    /\ cpc' = IF timeouts' >= MaxTO /\ started THEN "end" ELSE "ioctl"
    /\ UNCHANGED <<rchAB, abNext, lastId, reqs, block, mem, full, recycle, next,
                   started, out, env>>

\* Another error, -ERESTARTSYS of an interrupted wait: go round again, as often
\* as it happens, without counting.
IoctlError ==
    /\ cpc = "wait"
    /\ "error" \in env /\ Len(reqs) < MaxWaiting
    /\ rchAB[abNext].valid = NoBlock
    /\ cpc' = "ioctl"
    /\ UNCHANGED <<rchAB, abNext, lastId, reqs, block, mem, full, recycle, next, timeouts,
                   started, out, env>>

\* doWork on the buffer the client expects, if it is full; the work reads the
\* memory of the buffer.
Work_NoRecycle(from, to) ==
    /\ cpc = from
    /\ full[next] # NoBlock
    /\ out' = IF full[next] = EOF THEN out ELSE Append(out, mem[next])
    /\ next' = Other(next)
    /\ cpc' = to
    /\ UNCHANGED <<rchAB, abNext, lastId, reqs, block, mem, full, recycle, timeouts, started,
                   env>>
Work_NoSwing(from, to) ==
    /\ cpc = from
    /\ full[next] # NoBlock
    /\ out' = IF full[next] = EOF THEN out ELSE Append(out, mem[next])
    /\ recycle' = recycle \cup {next}
    /\ cpc' = to
    /\ UNCHANGED <<rchAB, abNext, lastId, reqs, block, mem, full, next, timeouts, started, env>>
Work(from, to) ==
    /\ cpc = from
    /\ full[next] # NoBlock
    /\ out' = IF full[next] = EOF THEN out ELSE Append(out, mem[next])
    /\ recycle' = recycle \cup {next}
    /\ next' = Other(next)
    /\ cpc' = to
    /\ UNCHANGED <<rchAB, abNext, lastId, reqs, block, mem, full, timeouts, started,
                   env>>

\* FULL_EOF ends the loop.
AfterWork == IF EOF \in {full[b] : b \in Buffers} THEN "end" ELSE "ioctl"

WorkFirst == Work("work", "work2")
WorkSecond == Work("work2", AfterWork)

\* Nothing more is full.
WorkNone ==
    /\ cpc \in {"work", "work2"}
    /\ full[next] = NoBlock
    /\ cpc' = AfterWork
    /\ UNCHANGED <<rchAB, abNext, lastId, reqs, block, mem, full, recycle, next, timeouts,
                   started, out, env>>

-----------------------------------------------------------------------------
(***************************************************************************)
(* The card, and i2o_handleReadMessageFile for its reply: a reply whose    *)
(* handler was recycled is discarded.                                      *)
(***************************************************************************)
CardFill ==
    LET r == Head(reqs)
        n == IF block = MaxBlocks THEN EOF ELSE block + 1
    IN  /\ reqs # <<>>
        /\ "slow" \in env \/ \A b \in Buffers : rchAB[b].valid = NoBlock \/ b \in recycle
        /\ block' = IF n = EOF THEN block ELSE n
        /\ mem' = IF n = EOF THEN mem ELSE [mem EXCEPT ![r.buf] = n]
        /\ rchAB' = [b \in Buffers |-> IF rchAB[b].id = r.id THEN [rchAB[b] EXCEPT !.valid = n]
                                       ELSE rchAB[b]]
        /\ reqs' = Tail(reqs)
        /\ UNCHANGED <<abNext, lastId, full, recycle, next, cpc, timeouts, started, out, env>>

Client == Ioctl \/ IoctlDone \/ WorkFirst \/ WorkSecond \/ WorkNone

Next == Client \/ IoctlTimeout \/ IoctlError \/ CardFill

Spec == Init /\ [][Next]_vars

\* The client and the driver run; the card delivers the blocks it has.
FairSpec == Spec /\ WF_vars(Client) /\ SF_vars(IoctlDone) /\ WF_vars(CardFill)

-----------------------------------------------------------------------------
\* The blocks reach the client in the order they were acquired, none missing
\* and none twice ("BUFFER_A, BUFFER_B : filled in turn.", acq200_ioctl.h:68).
FilledInTurn == \A k \in DOMAIN out : out[k] = k

\* A client that keeps up, and sees no ioctl fail, gets the blocks in the order
\* they were acquired.
InTurnForQuickClient == env \cap {"slow", "timeout", "error"} # {} \/ FilledInTurn

\* No block is lost or worked on twice, even when two buffers are full at
\* once: the blocks worked on are the first blocks, in some order.  When an
\* ioctl has failed htstream drops blocks (htstream.c:235-251).
EachBlockOnce ==
    env \cap {"timeout", "error"} # {} \/
    /\ \A i, j \in DOMAIN out : out[i] = out[j] => i = j
    /\ cpc = "ioctl" /\ recycle # {} =>
         {out[k] : k \in DOMAIN out} = 1 .. Len(out)

\* Each try gives the same buffers back and asks again.  Ids come round while
\* the card still holds earlier requests when more tries are made than half of
\* them: htstream does not count the errors (htstream.c:246-251), and
\* ACQ200_MAXTO sets what it accepts of timeouts (60, and there are 128 ids; 309-311).
IdsComeRound == "error" \in env \/ ("timeout" \in env /\ IdMod < 2 * MaxTO)

\* The card has no request for a buffer the client is working on: what the
\* client reads is what the status says (acq200_i2o.c:652-707), also after
\* timeouts, as long as no reply can be taken for that of a later request.
StableWhileRead ==
    IdsComeRound \/
    \A b \in Buffers :
        cpc \in {"work", "work2"} /\ full[b] \notin {NoBlock, EOF} =>
            /\ mem[b] = full[b]
            /\ \A k \in DOMAIN reqs : reqs[k].buf # b

\* The client gets to the end of the acquisition, or has seen MAXTO timeouts.
\* Not when errors repeat for ever: nothing counts them.
ReachesEnd == "error" \in env \/ <>(cpc = "end")
=============================================================================
