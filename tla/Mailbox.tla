------------------------------- MODULE Mailbox -------------------------------
(***************************************************************************)
(* The mailbox channel: processes that write a command to the registers of *)
(* the card, poll for the acknowledgement and read the registers back      *)
(* (acq200_ioctl_wbr_mbox and its callers, acq200.c), with the command a   *)
(* path defers to its release.                                             *)
(*                                                                         *)
(* mbox_sync.using_interrupt is never set to anything but zero, so         *)
(* acq200_poll_response is the wait that the driver uses.  Every call has  *)
(* a number; the data of a register is the number of the call it belongs   *)
(* to.  The card takes a command it finds in MAILBOX_0 and, when it is     *)
(* done, writes it back with BP_CI_ACK.                                    *)
(***************************************************************************)
EXTENDS Naturals

CONSTANTS Procs, NoProc,
          Kinds,     \* the callers of acq200_ioctl_wbr_mbox that are used
          MaxCalls,  \* bound on the calls of a behaviour
          Environments  \* what may happen in the behaviours that are looked at

Happenings ==
    {"timeout",   \* the card is slower than the timeout, or dead
     "forever",   \* programs use MBC_FLAGS_TO_FOREVER
     "again",     \* programs defer a command while one is deferred
     "signal"}    \* a signal ends the wait for the semaphore

ASSUME KindsAssumption == Kinds \subseteq {"ioctl", "forever", "command", "a3a4", "query"}
ASSUME BoundAssumption == MaxCalls \in Nat /\ NoProc \notin Procs
ASSUME EnvironmentAssumption == Environments \subseteq SUBSET Happenings

VARIABLES mutex,     \* the process that holds mbox_sync.mutex, or NoProc
          command,   \* MAILBOX_0
          args,      \* MAILBOX_1 and MAILBOX_2, A3 and A4
          card,      \* what the card is doing
          proc,      \* process -> its call
          deferred,  \* process -> the call in its path's mbc_on_release, or 0
          told,      \* process -> the calls it was told are deferred
          ncalls,    \* calls made
          env        \* what may happen in this behaviour: chosen once

vars == <<mutex, command, args, card, proc, deferred, told, ncalls, env>>

Calls == 0 .. MaxCalls
OK == "ok"
ETIMEDOUT == "timedout"
ERESTARTSYS == "restart"

NewCall(l, kind, n) == [pc |-> l, kind |-> kind, call |-> n, rc |-> OK, got |-> 0]
NoCall == NewCall("idle", "none", 0)

TypeOK ==
    /\ mutex \in Procs \cup {NoProc}
    /\ command \in [call : Calls, ack : BOOLEAN, args : BOOLEAN]
    /\ args \in Calls
    /\ card \in [busy : BOOLEAN, call : Calls, args : Calls, taken : SUBSET Calls]
    /\ proc \in [Procs -> [pc : {"idle", "lock", "args", "command", "poll", "read", "return",
                                 "closed"},
                           kind : {"none", "release"} \cup Kinds,
                           call : Calls, rc : {OK, ETIMEDOUT, ERESTARTSYS}, got : Calls]]
    /\ deferred \in [Procs -> Calls] /\ told \in [Procs -> SUBSET Calls]
    /\ ncalls \in Calls /\ env \in Environments

\* The registers hold an acknowledged command, the card is idle.
Init ==
    /\ mutex = NoProc
    /\ command = [call |-> 0, ack |-> TRUE, args |-> FALSE]
    /\ args = 0
    /\ card = [busy |-> FALSE, call |-> 0, args |-> 0, taken |-> {}]
    /\ proc = [p \in Procs |-> NoCall]
    /\ deferred = [p \in Procs |-> 0] /\ told = [p \in Procs |-> {}]
    /\ ncalls = 0 /\ env \in Environments

At(p, l) == proc[p].pc = l

-----------------------------------------------------------------------------
(***************************************************************************)
(* The calls.                                                              *)
(***************************************************************************)

\* acq200_mbox_ioctl, acq200_sendCommand, acq200_sendCommandA3A4 or
\* acq200_sendQuery has filled in its MailboxControl.
Call(p, kind) ==
    /\ At(p, "idle") /\ ncalls < MaxCalls
    /\ kind = "forever" => "forever" \in env
    /\ ncalls' = ncalls + 1
    /\ proc' = [proc EXCEPT ![p] = NewCall("lock", kind, ncalls')]
    /\ UNCHANGED <<mutex, command, args, card, deferred, told, env>>

\* acq200_mbox_ioctl with MBC_FLAGS_ONRELEASE: the command is kept in the path,
\* over one that is there, and the ioctl returns success.
Defer(p) ==
    /\ At(p, "idle") /\ ncalls < MaxCalls
    /\ deferred[p] = 0 \/ "again" \in env
    /\ ncalls' = ncalls + 1
    /\ deferred' = [deferred EXCEPT ![p] = ncalls']
    /\ told' = [told EXCEPT ![p] = @ \cup {ncalls'}]
    /\ UNCHANGED <<mutex, command, args, card, proc, env>>

\* acq200_release: the deferred command, if there is one, is sent now.
Release_Forgets(p) ==
    /\ At(p, "idle")
    /\ proc' = [proc EXCEPT ![p] = NewCall("closed", "none", 0)]
    /\ UNCHANGED <<mutex, command, args, card, deferred, told, ncalls, env>>
Release(p) ==
    /\ At(p, "idle")
    /\ proc' = [proc EXCEPT ![p] =
                  IF deferred[p] # 0
                  THEN NewCall("lock", "release", deferred[p])
                  ELSE NewCall("closed", "none", 0)]
    /\ UNCHANGED <<mutex, command, args, card, deferred, told, ncalls, env>>

\* acq200_createPath clears the new path.
Open(p) ==
    /\ At(p, "closed")
    /\ proc' = [proc EXCEPT ![p] = NoCall]
    /\ deferred' = [deferred EXCEPT ![p] = 0] /\ told' = [told EXCEPT ![p] = {}]
    /\ UNCHANGED <<mutex, command, args, card, ncalls, env>>

-----------------------------------------------------------------------------
(***************************************************************************)
(* acq200_ioctl_wbr_mbox.                                                  *)
(***************************************************************************)

HasArgs(kind) == kind \in {"ioctl", "forever", "a3a4", "release"}

Lock_NotHeld(p) ==
    /\ At(p, "lock")
    /\ proc' = [proc EXCEPT ![p].pc = IF HasArgs(proc[p].kind) THEN "args" ELSE "command"]
    /\ UNCHANGED <<mutex, command, args, card, deferred, told, ncalls, env>>
Lock(p) ==
    /\ At(p, "lock") /\ mutex = NoProc
    /\ mutex' = p
    /\ proc' = [proc EXCEPT ![p].pc = IF HasArgs(proc[p].kind) THEN "args" ELSE "command"]
    /\ UNCHANGED <<command, args, card, deferred, told, ncalls, env>>

\* down_interruptible failed: -ERESTARTSYS.
LockSignal(p) ==
    /\ At(p, "lock") /\ "signal" \in env /\ mutex # NoProc
    /\ proc' = [proc EXCEPT ![p].pc = "return", ![p].rc = ERESTARTSYS]
    /\ UNCHANGED <<mutex, command, args, card, deferred, told, ncalls, env>>

\* _acq200_ioctl_write_mbox: from the last mailbox down to MAILBOX_0.
WriteArgs_AfterCommand(p) ==
    /\ At(p, "args")
    /\ command' = [call |-> proc[p].call, ack |-> FALSE, args |-> TRUE]
    /\ proc' = [proc EXCEPT ![p].pc = "command"]
    /\ UNCHANGED <<mutex, args, card, deferred, told, ncalls, env>>
WriteArgs(p) ==
    /\ At(p, "args")
    /\ args' = proc[p].call
    /\ proc' = [proc EXCEPT ![p].pc = "command"]
    /\ UNCHANGED <<mutex, command, card, deferred, told, ncalls, env>>

\* The word for MAILBOX_0, with BP_CI_ACK clear.
CommandWord(p) ==
    [call |-> proc[p].call, ack |-> FALSE, args |-> HasArgs(proc[p].kind)]

WriteCommand(p) ==
    /\ At(p, "command")
    /\ command' = CommandWord(p)
    /\ proc' = [proc EXCEPT ![p].pc = "poll"]
    /\ UNCHANGED <<mutex, args, card, deferred, told, ncalls, env>>

\* acq200_poll_response sees BP_CI_ACK ...
PollAck(p) ==
    /\ At(p, "poll") /\ command.ack
    /\ proc' = [proc EXCEPT ![p].pc = "read"]
    /\ UNCHANGED <<mutex, command, args, card, deferred, told, ncalls, env>>

\* ... or the time is up, which for MBC_FLAGS_TO_FOREVER, 0, is the next tick.
PollTimeout(p) ==
    /\ At(p, "poll")
    /\ "timeout" \in env \/ proc[p].kind = "forever"
    /\ proc' = [proc EXCEPT ![p].pc = "read", ![p].rc = ETIMEDOUT]
    /\ UNCHANGED <<mutex, command, args, card, deferred, told, ncalls, env>>

\* acq200_ioctl_read_mbox, then up.
ReadMbox_KeepMutex(p) ==
    /\ At(p, "read")
    /\ proc' = [proc EXCEPT ![p].pc = "return", ![p].got = command.call]
    /\ UNCHANGED <<mutex, command, args, card, deferred, told, ncalls, env>>
ReadMbox(p) ==
    /\ At(p, "read")
    /\ mutex' = NoProc
    /\ proc' = [proc EXCEPT ![p].pc = "return", ![p].got = command.call]
    /\ UNCHANGED <<command, args, card, deferred, told, ncalls, env>>

\* The caller has the registers; acq200_mbox_ioctl loses the result code here.
Return(p) ==
    /\ At(p, "return")
    /\ proc' = [proc EXCEPT ![p] =
                  IF proc[p].kind = "release" THEN NewCall("closed", "none", 0)
                                              ELSE NoCall]
    /\ UNCHANGED <<mutex, command, args, card, deferred, told, ncalls, env>>

-----------------------------------------------------------------------------
(***************************************************************************)
(* The card.                                                               *)
(***************************************************************************)
\* A command without parameters is complete as it is.
CardTake ==
    /\ ~ card.busy /\ ~ command.ack
    /\ card.call # command.call
    /\ card' = [busy |-> TRUE, call |-> command.call,
                args |-> IF command.args THEN args ELSE command.call,
                taken |-> card.taken \cup {command.call}]
    /\ UNCHANGED <<mutex, command, args, proc, deferred, told, ncalls, env>>

CardDone ==
    /\ card.busy
    /\ card' = [card EXCEPT !.busy = FALSE]
    /\ command' = [command EXCEPT !.call = card.call, !.ack = TRUE]
    /\ UNCHANGED <<mutex, args, proc, deferred, told, ncalls, env>>

-----------------------------------------------------------------------------
Step(p) ==
    \/ Lock(p) \/ WriteArgs(p) \/ WriteCommand(p) \/ PollAck(p)
    \/ PollTimeout(p) \/ ReadMbox(p) \/ Return(p)

Next ==
    \/ \E p \in Procs : \/ \E k \in Kinds : Call(p, k)
                        \/ Defer(p) \/ Release(p) \/ Open(p) \/ Step(p)
                        \/ LockSignal(p)
    \/ CardTake \/ CardDone

Spec == Init /\ [][Next]_vars

\* A call under way runs, the semaphore serves the processes that wait for it
\* in turn, and the clock reaches the end of the polling.  Nothing is assumed
\* of the card.
FairSpec == Spec /\ \A p \in Procs : WF_vars(Step(p)) /\ SF_vars(Lock(p))

-----------------------------------------------------------------------------
\* Some of these may happen in this behaviour.
Troubles(S) == env \cap S # {}

\* A call that ends with success has read back its own command, acknowledged,
\* and no other call's ("CI_ACK cleared by M, set by S on completion",
\* acq32busprot.h:364).  Not when calls can end before the card has answered:
\* a late acknowledgement is taken for the next call's (acq200.c:450-461).
AnswerIsMine ==
    Troubles({"timeout", "forever"}) \/
    \A p \in Procs : At(p, "return") /\ proc[p].rc = OK => proc[p].got = proc[p].call

\* The card takes a command together with its own parameters: they are in A3
\* and A4 before the command is in MAILBOX_0 (acq200.c:627-631).  Not when a
\* caller has given up, and the next one writes while the card reads.
ArgsTogether ==
    Troubles({"timeout", "forever"}) \/
    (card.busy => card.args = card.call)

\* The commands that a program was told are deferred reach the card before the
\* path is gone ("action this command on release", acq200_ioctl.h:35), unless the
\* wait for the semaphore was interrupted or the card did not look in time.  Of
\* several the last does: each overwrites the one before (acq200.c:713).
DeferredIsSent ==
    Troubles({"timeout", "forever", "signal"}) \/
    \A p \in Procs : At(p, "closed") =>
        /\ deferred[p] # 0 => deferred[p] \in card.taken
        /\ "again" \in env \/ told[p] \subseteq card.taken

\* Every call returns and gives the semaphore back, even if the card never
\* answers (acq200.c:442-467): waiting is bounded when polling is.
CallReturns ==
    "timeout" \in env => \A p \in Procs : At(p, "lock") ~> At(p, "return")
=============================================================================
