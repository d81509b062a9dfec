---------------------------- MODULE MailboxProofs ----------------------------
(***************************************************************************)
(* Proofs about Mailbox, for every set of processes, every kind of call    *)
(* and every bound on the calls: the types, mutual exclusion at the        *)
(* registers, and, where no caller gives up before the card has answered,  *)
(* that answers, parameters and deferred commands belong together.         *)
(***************************************************************************)
EXTENDS Mailbox, TLAPS

Places == {"idle", "lock", "args", "command", "poll", "read", "return", "closed"}
AllKinds == {"none", "release"} \cup Kinds

\* Between calls a process has no kind.  A path keeps the last command it was
\* given, which is the only one if programs do not defer again, and that is the
\* one its release sends.
Accounted ==
    \A p \in Procs :
        /\ At(p, "idle") \/ At(p, "closed") => proc[p].kind = "none"
        /\ deferred[p] = 0 => told[p] = {}
        /\ "again" \in env \/ told[p] \subseteq {deferred[p]}
        /\ proc[p].kind = "release" => proc[p].call = deferred[p]

\* The semaphore is with the process that works on the registers.
Holds(p) == proc[p].pc \in {"args", "command", "poll", "read"}
Exclusive == \A p \in Procs : Holds(p) <=> mutex = p

\* Callers wait for the card.
Patient == ~ Troubles({"timeout", "forever"})

\* A process that has not yet written its command finds the last one
\* acknowledged; from then on the command in MAILBOX_0 is its own, with its own
\* parameters; and the card works on it only as long as it is not acknowledged.
Registers ==
    /\ \A p \in Procs :
         /\ proc[p].kind # "forever"
         /\ At(p, "args") \/ At(p, "command") => command.ack
         /\ At(p, "command") /\ HasArgs(proc[p].kind) => args = proc[p].call
         /\ At(p, "poll") \/ At(p, "read") => command.call = proc[p].call
         /\ At(p, "read") => command.ack
    /\ ~ command.ack => /\ \E p \in Procs : At(p, "poll")
                        /\ command.args => args = command.call
    /\ card.busy => ~ command.ack /\ card.call = command.call /\ card.args = card.call

\* A call that was acknowledged was taken by the card, and the result code says
\* whether the registers were read.
Taken ==
    /\ card.busy => card.call \in card.taken
    /\ \A p \in Procs :
         /\ At(p, "poll") /\ command.ack => proc[p].call \in card.taken
         /\ At(p, "read") => proc[p].call \in card.taken
         /\ At(p, "return") /\ proc[p].rc = OK =>
              proc[p].got = proc[p].call /\ proc[p].call \in card.taken
         /\ proc[p].rc # OK => "signal" \in env

\* A path is gone only when the command it kept was taken.
Gone ==
    "signal" \in env \/
    \A p \in Procs : At(p, "closed") /\ deferred[p] # 0 => deferred[p] \in card.taken

MailInv ==
    /\ TypeOK /\ Accounted /\ Exclusive
    /\ Patient => Registers /\ Taken /\ Gone

CallRec == [pc : Places, kind : AllKinds, call : Calls,
            rc : {OK, ETIMEDOUT, ERESTARTSYS}, got : Calls]

-----------------------------------------------------------------------------
\* What each step of acq200_ioctl_wbr_mbox does to the processes: the caller
\* moves on, with its kind, its call and, but for two of them, the rest as it
\* was; the others stand still.
Moves(p, l) ==
    /\ proc' \in [Procs -> CallRec]
    /\ proc'[p].pc = l /\ proc'[p].kind = proc[p].kind /\ proc'[p].call = proc[p].call
    /\ \A q \in Procs : q # p => proc'[q] = proc[q]

LEMMA StepMoves ==
    ASSUME TypeOK, NEW p \in Procs
    PROVE  /\ Lock(p) => /\ Moves(p, IF HasArgs(proc[p].kind) THEN "args" ELSE "command")
                         /\ proc'[p].rc = proc[p].rc
           /\ LockSignal(p) => Moves(p, "return") /\ proc'[p].rc = ERESTARTSYS
           /\ WriteArgs(p) => Moves(p, "command") /\ proc'[p].rc = proc[p].rc
           /\ WriteCommand(p) => Moves(p, "poll") /\ proc'[p].rc = proc[p].rc
           /\ PollAck(p) => Moves(p, "read") /\ proc'[p].rc = proc[p].rc
           /\ PollTimeout(p) => Moves(p, "read") /\ proc'[p].rc = ETIMEDOUT
           /\ ReadMbox(p) => /\ Moves(p, "return") /\ proc'[p].rc = proc[p].rc
                             /\ proc'[p].got = command.call
<1>1. proc \in [Procs -> CallRec] /\ command.call \in Calls
  BY DEF TypeOK, CallRec, Places, AllKinds
<1>2. ASSUME NEW l \in Places, proc' = [proc EXCEPT ![p].pc = l]
      PROVE  Moves(p, l) /\ proc'[p].rc = proc[p].rc
  BY <1>1, <1>2 DEF Moves, CallRec
<1>3. Lock(p) => /\ Moves(p, IF HasArgs(proc[p].kind) THEN "args" ELSE "command")
                 /\ proc'[p].rc = proc[p].rc
  BY <1>2 DEF Lock, Places
<1>4. LockSignal(p) => Moves(p, "return") /\ proc'[p].rc = ERESTARTSYS
  <2> SUFFICES ASSUME LockSignal(p)
               PROVE  Moves(p, "return") /\ proc'[p].rc = ERESTARTSYS
    OBVIOUS
  <2> DEFINE h == [proc EXCEPT ![p].pc = "return"]
  <2>1. /\ h \in [Procs -> CallRec]
        /\ h[p].pc = "return" /\ h[p].rc = proc[p].rc
        /\ h[p].kind = proc[p].kind /\ h[p].call = proc[p].call
        /\ \A q \in Procs : q # p => h[q] = proc[q]
    BY <1>1 DEF CallRec, Places
  <2>2. proc' = [h EXCEPT ![p].rc = ERESTARTSYS]
    BY DEF LockSignal
  <2> HIDE DEF h
  <2>3. /\ proc' \in [Procs -> CallRec] /\ proc'[p].pc = h[p].pc
        /\ proc'[p].kind = h[p].kind /\ proc'[p].call = h[p].call
        /\ \A q \in Procs : q # p => proc'[q] = h[q]
    BY <1>1, <2>1, <2>2 DEF CallRec
  <2>4. proc'[p].rc = ERESTARTSYS
    BY <1>1, <2>1, <2>2 DEF CallRec
  <2> QED BY <2>1, <2>3, <2>4 DEF Moves
<1>5. WriteArgs(p) => Moves(p, "command") /\ proc'[p].rc = proc[p].rc
  BY <1>2 DEF WriteArgs, Places
<1>6. WriteCommand(p) => Moves(p, "poll") /\ proc'[p].rc = proc[p].rc
  BY <1>2 DEF WriteCommand, Places
<1>7. PollAck(p) => Moves(p, "read") /\ proc'[p].rc = proc[p].rc
  BY <1>2 DEF PollAck, Places
<1>8. PollTimeout(p) => Moves(p, "read") /\ proc'[p].rc = ETIMEDOUT
  <2> SUFFICES ASSUME PollTimeout(p)
               PROVE  Moves(p, "read") /\ proc'[p].rc = ETIMEDOUT
    OBVIOUS
  <2> DEFINE h == [proc EXCEPT ![p].pc = "read"]
  <2>1. /\ h \in [Procs -> CallRec]
        /\ h[p].pc = "read" /\ h[p].rc = proc[p].rc
        /\ h[p].kind = proc[p].kind /\ h[p].call = proc[p].call
        /\ \A q \in Procs : q # p => h[q] = proc[q]
    BY <1>1 DEF CallRec, Places
  <2>2. proc' = [h EXCEPT ![p].rc = ETIMEDOUT]
    BY DEF PollTimeout
  <2> HIDE DEF h
  <2>3. /\ proc' \in [Procs -> CallRec] /\ proc'[p].pc = h[p].pc
        /\ proc'[p].kind = h[p].kind /\ proc'[p].call = h[p].call
        /\ \A q \in Procs : q # p => proc'[q] = h[q]
    BY <1>1, <2>1, <2>2 DEF CallRec
  <2>4. proc'[p].rc = ETIMEDOUT
    BY <1>1, <2>1, <2>2 DEF CallRec
  <2> QED BY <2>1, <2>3, <2>4 DEF Moves
<1>9. ReadMbox(p) => /\ Moves(p, "return") /\ proc'[p].rc = proc[p].rc
                     /\ proc'[p].got = command.call
  <2> SUFFICES ASSUME ReadMbox(p)
               PROVE  Moves(p, "return") /\ proc'[p].got = command.call /\ proc'[p].rc = proc[p].rc
    OBVIOUS
  <2> DEFINE h == [proc EXCEPT ![p].pc = "return"]
  <2>1. /\ h \in [Procs -> CallRec]
        /\ h[p].pc = "return" /\ h[p].rc = proc[p].rc
        /\ h[p].kind = proc[p].kind /\ h[p].call = proc[p].call
        /\ \A q \in Procs : q # p => h[q] = proc[q]
    BY <1>1 DEF CallRec, Places
  <2>2. proc' = [h EXCEPT ![p].got = command.call]
    BY DEF ReadMbox
  <2> HIDE DEF h
  <2>3. /\ proc' \in [Procs -> CallRec] /\ proc'[p].pc = h[p].pc
        /\ proc'[p].kind = h[p].kind /\ proc'[p].call = h[p].call
        /\ \A q \in Procs : q # p => proc'[q] = h[q]
    BY <1>1, <2>1, <2>2 DEF CallRec
  <2>4. proc'[p].got = command.call /\ proc'[p].rc = h[p].rc
    BY <1>1, <2>1, <2>2 DEF CallRec
  <2> QED BY <2>1, <2>3, <2>4 DEF Moves
<1> QED BY <1>3, <1>4, <1>5, <1>6, <1>7, <1>8, <1>9

\* What the card does to MAILBOX_0.
LEMMA CardSteps ==
    ASSUME TypeOK
    PROVE  /\ CardTake => /\ card' \in [busy : BOOLEAN, call : Calls, args : Calls, taken : SUBSET Calls]
                          /\ card'.busy /\ card'.call = command.call
                          /\ card'.args = (IF command.args THEN args ELSE command.call)
                          /\ card'.taken = card.taken \cup {command.call}
           /\ CardDone => /\ card' \in [busy : BOOLEAN, call : Calls, args : Calls, taken : SUBSET Calls]
                          /\ ~ card'.busy /\ card'.call = card.call /\ card'.taken = card.taken
                          /\ command' \in [call : Calls, ack : BOOLEAN, args : BOOLEAN]
                          /\ command'.ack /\ command'.call = card.call
<1>1. CardTake => /\ card' \in [busy : BOOLEAN, call : Calls, args : Calls, taken : SUBSET Calls]
                  /\ card'.busy /\ card'.call = command.call
                  /\ card'.args = (IF command.args THEN args ELSE command.call)
                  /\ card'.taken = card.taken \cup {command.call}
  BY DEF TypeOK, CardTake
<1>2. ASSUME CardDone
      PROVE  /\ command' \in [call : Calls, ack : BOOLEAN, args : BOOLEAN]
             /\ command'.ack /\ command'.call = card.call
  <2> DEFINE h == [command EXCEPT !.call = card.call]
  <2>1. h \in [call : Calls, ack : BOOLEAN, args : BOOLEAN] /\ h.call = card.call
    BY DEF TypeOK
  <2>2. command' = [h EXCEPT !.ack = TRUE]
    BY <1>2 DEF CardDone
  <2> HIDE DEF h
  <2> QED BY <2>1, <2>2
<1>3. CardDone => /\ card' \in [busy : BOOLEAN, call : Calls, args : Calls, taken : SUBSET Calls]
                  /\ ~ card'.busy /\ card'.call = card.call /\ card'.taken = card.taken
  BY DEF TypeOK, CardDone
<1> QED BY <1>1, <1>2, <1>3

\* At the start no call is made, and none is deferred.
LEMMA TypeInit == Init => TypeOK /\ Accounted
<1> SUFFICES ASSUME Init PROVE TypeOK /\ Accounted
  OBVIOUS
<1>1. 0 \in Calls
  BY BoundAssumption DEF Calls
<1>2. TypeOK
  BY <1>1 DEF Init, TypeOK, NoCall, NewCall, OK
<1>3. Accounted
  BY DEF Init, Accounted, NoCall, NewCall, At
<1> QED BY <1>2, <1>3

\* Every step keeps the types and the account of deferred commands.
LEMMA TypeStep == TypeOK /\ Accounted /\ [Next]_vars => TypeOK' /\ Accounted'
<1> SUFFICES ASSUME TypeOK, Accounted, [Next]_vars PROVE TypeOK' /\ Accounted'
  OBVIOUS
<1>t. /\ ncalls \in Nat /\ MaxCalls \in Nat /\ Calls = 0 .. MaxCalls /\ 0 \in Calls
      /\ proc \in [Procs -> [pc : Places, kind : AllKinds, call : Calls,
                             rc : {OK, ETIMEDOUT, ERESTARTSYS}, got : Calls]]
      /\ deferred \in [Procs -> Calls] /\ told \in [Procs -> SUBSET Calls]
      /\ "release" \notin Kinds
  BY BoundAssumption, KindsAssumption DEF TypeOK, Calls, Places, AllKinds
<1>1. ASSUME NEW p \in Procs, NEW k \in Kinds, Call(p, k) PROVE TypeOK' /\ Accounted'
  <2>1. ncalls' \in Calls
    BY <1>1, <1>t DEF Call
  <2>2. TypeOK'
    BY <1>1, <2>1, <1>t DEF Call, TypeOK, NoCall, NewCall, OK
  <2> QED BY <1>1, <1>t, <2>2 DEF Accounted, Call, At, NewCall
<1>2. ASSUME NEW p \in Procs, Defer(p) PROVE TypeOK' /\ Accounted'
  <2>1. /\ proc' = proc /\ env' = env /\ ncalls' = ncalls + 1 /\ ncalls < MaxCalls
        /\ deferred' = [deferred EXCEPT ![p] = ncalls']
        /\ told' = [told EXCEPT ![p] = @ \cup {ncalls'}]
        /\ proc[p].pc = "idle" /\ (deferred[p] = 0 \/ "again" \in env)
        /\ UNCHANGED <<mutex, command, args, card>>
    BY <1>2 DEF Defer, At
  <2>2. ncalls' \in Calls /\ ncalls' # 0
    BY <1>t, <2>1
  <2>3. deferred' \in [Procs -> Calls] /\ told' \in [Procs -> SUBSET Calls]
    BY <1>t, <2>1, <2>2
  <2>4. TypeOK'
    BY <2>1, <2>2, <2>3 DEF TypeOK
  <2>5. \A q \in Procs : q # p => deferred'[q] = deferred[q] /\ told'[q] = told[q]
    BY <1>t, <2>1
  <2>6. deferred'[p] = ncalls' /\ told'[p] = told[p] \cup {ncalls'}
    BY <1>t, <2>1
  <2>7. proc[p].kind = "none" /\ ("again" \notin env => told[p] = {})
    BY <2>1 DEF Accounted, At
  <2> QED BY <2>1, <2>2, <2>4, <2>5, <2>6, <2>7 DEF Accounted, At
<1>3. ASSUME NEW p \in Procs, Release(p) PROVE TypeOK' /\ Accounted'
  <2>1. TypeOK'
    BY <1>3, <1>t DEF Release, TypeOK, NewCall, OK
  <2>2. CASE deferred[p] # 0
    BY <1>3, <1>t, <2>1, <2>2 DEF Release, At, NewCall, Accounted
  <2>3. CASE deferred[p] = 0
    BY <1>3, <1>t, <2>1, <2>3 DEF Release, At, NewCall, Accounted
  <2> QED BY <2>2, <2>3
<1>4. ASSUME NEW p \in Procs, Open(p) PROVE TypeOK' /\ Accounted'
  <2>1. TypeOK'
    BY <1>4, <1>t DEF Open, TypeOK, NoCall, NewCall, OK
  <2> QED BY <1>4, <1>t, <2>1 DEF Accounted, Open, At, NoCall, NewCall
\* The steps of a call leave its kind alone until it returns.
<1>5. ASSUME NEW p \in Procs, Lock(p) \/ LockSignal(p) \/ WriteArgs(p) \/ WriteCommand(p)
                              \/ PollAck(p) \/ PollTimeout(p) \/ ReadMbox(p)
      PROVE TypeOK' /\ Accounted'
  <2>1. \E l \in Places \ {"idle", "closed"} : Moves(p, l)
    BY <1>5, StepMoves DEF Places
  <2>2. UNCHANGED <<card, ncalls, deferred, told, env>> /\ proc[p].pc \notin {"idle", "closed"}
    BY <1>5 DEF Lock, LockSignal, WriteArgs, WriteCommand, PollAck, PollTimeout, ReadMbox, At
  <2>3. \A q \in Procs : /\ proc'[q].kind = proc[q].kind /\ proc'[q].call = proc[q].call
                         /\ At(q, "closed")' <=> At(q, "closed")
                         /\ At(q, "idle")' <=> At(q, "idle")
    <3> PICK l \in Places \ {"idle", "closed"} : Moves(p, l)
      BY <2>1
    <3> QED BY <2>2 DEF Moves, At
  <2>5. Accounted'
    BY <2>2, <2>3 DEF Accounted
  <2>6. mutex' \in Procs \cup {NoProc} /\ args' \in Calls
    <3>1. proc[p].call \in Calls
      BY <1>t
    <3> QED BY <1>5, <3>1 DEF Lock, LockSignal, WriteArgs, WriteCommand, PollAck, PollTimeout,
                              ReadMbox, TypeOK
  <2>7. command' \in [call : Calls, ack : BOOLEAN, args : BOOLEAN]
    <3>1. CASE WriteCommand(p)
      BY <1>t, <3>1 DEF WriteCommand, CommandWord, HasArgs
    <3>2. CASE ~ WriteCommand(p)
      <4>1. command' = command
        BY <1>5, <3>2 DEF Lock, LockSignal, WriteArgs, PollAck, PollTimeout, ReadMbox
      <4> QED BY <4>1 DEF TypeOK
    <3> QED BY <3>1, <3>2
  <2> QED BY <2>1, <2>2, <2>5, <2>6, <2>7 DEF TypeOK, Moves, CallRec, Places, AllKinds
<1>6. ASSUME NEW p \in Procs, Return(p) PROVE TypeOK' /\ Accounted'
  <2>1. TypeOK'
    BY <1>6, <1>t DEF Return, TypeOK, NoCall, NewCall, OK
  <2> QED BY <1>6, <1>t, <2>1 DEF Accounted, Return, At, NoCall, NewCall
<1>7. CASE CardTake \/ CardDone \/ UNCHANGED vars
  <2>1. UNCHANGED <<proc, deferred, told, ncalls, env>>
    BY <1>7 DEF CardTake, CardDone, vars
  <2>2. TypeOK'
    <3>1. CASE CardTake
      BY <3>1, CardSteps DEF CardTake, TypeOK
    <3>2. CASE CardDone
      BY <3>2, CardSteps DEF CardDone, TypeOK
    <3>3. CASE UNCHANGED vars
      BY <3>3 DEF vars, TypeOK
    <3> QED BY <1>7, <3>1, <3>2, <3>3
  <2> QED BY <2>1, <2>2 DEF Accounted, At
<1> QED BY <1>1, <1>2, <1>3, <1>4, <1>5, <1>6, <1>7 DEF Next, Step

-----------------------------------------------------------------------------
\* The steps outside acq200_ioctl_wbr_mbox: a process that is not in the
\* driver, or has returned, and the registers stand still.
Outside(p, l) ==
    /\ UNCHANGED <<mutex, command, args, card, env>>
    /\ proc[p].pc \in {"idle", "closed", "return"}
    /\ proc'[p].pc = l /\ proc'[p].rc = OK
    /\ \A q \in Procs : q # p => proc'[q] = proc[q]

LEMMA OutsideSteps ==
    ASSUME TypeOK, NEW p \in Procs
    PROVE  /\ \A k \in Kinds : Call(p, k) => /\ Outside(p, "lock") /\ proc'[p].kind = k
                                             /\ deferred' = deferred
           /\ Release(p) => /\ Outside(p, "lock") \/ Outside(p, "closed")
                            /\ proc'[p].kind \in {"release", "none"}
                            /\ proc'[p].pc = "closed" => deferred[p] = 0
                            /\ deferred' = deferred
           /\ Open(p) => Outside(p, "idle") /\ proc'[p].kind = "none"
                         /\ deferred' = [deferred EXCEPT ![p] = 0]
           /\ Return(p) => /\ IF proc[p].kind = "release"
                              THEN Outside(p, "closed")
                              ELSE Outside(p, "idle")
                           /\ proc'[p].kind = "none" /\ At(p, "return")
                           /\ deferred' = deferred
<1>1. proc \in [Procs -> CallRec]
  BY DEF TypeOK, CallRec, Places, AllKinds
<1>2. ASSUME NEW k \in Kinds, Call(p, k)
      PROVE  Outside(p, "lock") /\ proc'[p].kind = k /\ deferred' = deferred
  BY <1>1, <1>2 DEF Call, Outside, NewCall, At
<1>3. ASSUME Release(p)
      PROVE  /\ Outside(p, "lock") \/ Outside(p, "closed")
             /\ proc'[p].kind \in {"release", "none"}
             /\ proc'[p].pc = "closed" => deferred[p] = 0
             /\ deferred' = deferred
  <2>1. CASE deferred[p] # 0
    BY <1>1, <1>3, <2>1 DEF Release, Outside, NewCall, At
  <2>2. CASE deferred[p] = 0
    BY <1>1, <1>3, <2>2 DEF Release, Outside, NewCall, At
  <2> QED BY <2>1, <2>2
<1>4. ASSUME Open(p)
      PROVE Outside(p, "idle") /\ proc'[p].kind = "none" /\ deferred' = [deferred EXCEPT ![p] = 0]
  BY <1>1, <1>4 DEF Open, Outside, NoCall, NewCall, At
<1>5. ASSUME Return(p)
      PROVE /\ IF proc[p].kind = "release"
               THEN Outside(p, "closed")
               ELSE Outside(p, "idle")
            /\ proc'[p].kind = "none" /\ At(p, "return")
            /\ deferred' = deferred
  <2>1. CASE proc[p].kind = "release"
    BY <1>1, <1>5, <2>1 DEF Return, Outside, NewCall, At
  <2>2. CASE proc[p].kind # "release"
    BY <1>1, <1>5, <2>2 DEF Return, Outside, NoCall, NewCall, At
  <2> QED BY <2>1, <2>2
<1> QED BY <1>2, <1>3, <1>4, <1>5

\* The semaphore keeps all but one process from the registers.
LEMMA ExclusiveStep == TypeOK /\ Exclusive /\ [Next]_vars => Exclusive'
<1> SUFFICES ASSUME TypeOK, Exclusive, [Next]_vars PROVE Exclusive'
  OBVIOUS
<1>1. ASSUME NEW p \in Procs, NEW l \in {"lock", "idle", "closed"}, Outside(p, l)
      PROVE  Exclusive'
  BY <1>1 DEF Outside, Exclusive, Holds
<1>2. ASSUME NEW p \in Procs, (\E k \in Kinds : Call(p, k)) \/ Release(p) \/ Open(p) \/ Return(p)
      PROVE  Exclusive'
  BY <1>1, <1>2, OutsideSteps
<1>3. ASSUME NEW p \in Procs, Lock(p) PROVE Exclusive'
  <2>1. /\ Moves(p, IF HasArgs(proc[p].kind) THEN "args" ELSE "command")
        /\ mutex' = p /\ mutex = NoProc
    BY <1>3, StepMoves DEF Lock
  <2>2. \A q \in Procs : ~ Holds(q)
    BY <2>1, BoundAssumption DEF Exclusive
  <2>3. Holds(p)' /\ \A q \in Procs : q # p => ~ Holds(q)'
    BY <2>1, <2>2 DEF Moves, Holds
  <2> QED BY <2>1, <2>3 DEF Exclusive
<1>4. ASSUME NEW p \in Procs, LockSignal(p) PROVE Exclusive'
  BY <1>4, StepMoves DEF LockSignal, Moves, Exclusive, Holds, At
<1>5. ASSUME NEW p \in Procs, WriteArgs(p) PROVE Exclusive'
  BY <1>5, StepMoves DEF WriteArgs, Moves, Exclusive, Holds, At
<1>6. ASSUME NEW p \in Procs, WriteCommand(p) PROVE Exclusive'
  BY <1>6, StepMoves DEF WriteCommand, Moves, Exclusive, Holds, At
<1>7. ASSUME NEW p \in Procs, PollAck(p) \/ PollTimeout(p) PROVE Exclusive'
  <2>1. Moves(p, "read") /\ mutex' = mutex /\ At(p, "poll")
    BY <1>7, StepMoves DEF PollAck, PollTimeout
  <2> QED BY <2>1 DEF Moves, Exclusive, Holds, At
<1>8. ASSUME NEW p \in Procs, ReadMbox(p) PROVE Exclusive'
  <2>1. Moves(p, "return") /\ mutex' = NoProc /\ At(p, "read")
    BY <1>8, StepMoves DEF ReadMbox
  <2>2. \A q \in Procs : q # p => ~ Holds(q)
    BY <2>1 DEF Exclusive, Holds, At
  <2>3. \A q \in Procs : ~ Holds(q)'
    BY <2>1, <2>2 DEF Moves, Holds
  <2> QED BY <2>1, <2>3, BoundAssumption DEF Exclusive
<1>9. ASSUME NEW p \in Procs, Defer(p) PROVE Exclusive'
  BY <1>9 DEF Defer, Exclusive, Holds
<1>10. CASE CardTake \/ CardDone \/ UNCHANGED vars
  BY <1>10 DEF CardTake, CardDone, vars, Exclusive, Holds
<1> QED BY <1>2, <1>3, <1>4, <1>5, <1>6, <1>7, <1>8, <1>9, <1>10 DEF Next, Step

\* What may happen does not change.
LEMMA EnvStep == [Next]_vars => UNCHANGED env
BY DEF Next, Step, Call, Defer, Release, Open, Lock, LockSignal, WriteArgs, WriteCommand, PollAck,
       PollTimeout, ReadMbox, Return, CardTake, CardDone, vars

\* Where callers wait for the card, the registers and the card stay in step.
LEMMA RegistersStep ==
    TypeOK /\ Exclusive /\ Patient /\ Registers /\ [Next]_vars => Registers'
<1> SUFFICES ASSUME TypeOK, Exclusive, Patient, Registers, [Next]_vars PROVE Registers'
  OBVIOUS
<1>a. "timeout" \notin env /\ "forever" \notin env
  BY DEF Patient, Troubles
<1>1. ASSUME NEW p \in Procs, NEW l \in {"lock", "idle", "closed"}, Outside(p, l),
             proc'[p].kind # "forever"
      PROVE  Registers'
  <2>1. \A q \in Procs : ~ At(q, "lock") /\ ~ At(q, "idle") /\ ~ At(q, "closed")
          /\ ~ At(q, "return") => /\ At(q, "poll")' <=> At(q, "poll")
    BY <1>1 DEF Outside, At
  <2> QED BY <1>1, <2>1 DEF Outside, Registers, At
<1>2. ASSUME NEW p \in Procs, (\E k \in Kinds : Call(p, k)) \/ Release(p) \/ Open(p) \/ Return(p)
      PROVE  Registers'
  <2>1. CASE \E k \in Kinds : Call(p, k)
    <3>1. PICK k \in Kinds : Call(p, k)
      BY <2>1
    <3>2. k # "forever"
      BY <1>a, <3>1 DEF Call
    <3> QED BY <1>1, <3>1, <3>2, OutsideSteps
  <2>2. CASE Release(p) \/ Open(p) \/ Return(p)
    BY <1>1, <2>2, OutsideSteps
  <2> QED BY <1>2, <2>1, <2>2
<1>3. ASSUME NEW p \in Procs, Lock(p) PROVE Registers'
  <2>1. \A q \in Procs : ~ At(q, "poll")
    BY <1>3, BoundAssumption DEF Lock, Exclusive, Holds, At
  <2>2. command.ack
    BY <2>1 DEF Registers
  <2> QED BY <1>3, <2>1, <2>2, StepMoves DEF Lock, Moves, Registers, At
<1>4. ASSUME NEW p \in Procs, LockSignal(p) PROVE Registers'
  <2>1. /\ Moves(p, "return") /\ At(p, "lock")
        /\ command' = command /\ args' = args /\ card' = card
    BY <1>4, StepMoves DEF LockSignal
  <2> QED BY <2>1 DEF Moves, Registers, At
<1>5. ASSUME NEW p \in Procs, WriteArgs(p) PROVE Registers'
  <2>1. \A q \in Procs : q # p => ~ At(q, "command")
    BY <1>5 DEF WriteArgs, Exclusive, Holds, At
  <2>2. command.ack
    BY <1>5 DEF WriteArgs, Registers
  <2> QED BY <1>5, <2>1, <2>2, StepMoves DEF WriteArgs, Moves, Registers, At
<1>6. ASSUME NEW p \in Procs, WriteCommand(p) PROVE Registers'
  <2>1. \A q \in Procs : q # p => ~ Holds(q)
    BY <1>6 DEF WriteCommand, Exclusive, Holds, At
  <2>2. command.ack /\ ~ card.busy
    BY <1>6 DEF WriteCommand, Registers
  <2>3. /\ command'.call = proc[p].call /\ ~ command'.ack
        /\ command'.args = HasArgs(proc[p].kind)
    BY <1>6 DEF WriteCommand, CommandWord
  <2>4. command'.args => args' = command'.call
    BY <1>6, <2>3 DEF WriteCommand, Registers, HasArgs
  <2>5. Moves(p, "poll") /\ card' = card
    BY <1>6, StepMoves DEF WriteCommand
  <2>6. \A q \in Procs : q # p => ~ At(q, "args")' /\ ~ At(q, "command")' /\ ~ At(q, "poll")'
                                 /\ ~ At(q, "read")'
    BY <2>1, <2>5 DEF Moves, Holds, At
  <2> QED BY <2>2, <2>3, <2>4, <2>5, <2>6 DEF Moves, Registers, At
<1>7. ASSUME NEW p \in Procs, PollAck(p) PROVE Registers'
  <2>1. /\ Moves(p, "read") /\ At(p, "poll") /\ command.ack
        /\ command' = command /\ args' = args /\ card' = card
    BY <1>7, StepMoves DEF PollAck
  <2> QED BY <2>1 DEF Moves, Registers, At
<1>8. ASSUME NEW p \in Procs, PollTimeout(p) PROVE FALSE
  BY <1>8, <1>a DEF PollTimeout, Registers
<1>9. ASSUME NEW p \in Procs, ReadMbox(p) PROVE Registers'
  <2>1. /\ Moves(p, "return") /\ At(p, "read")
        /\ command' = command /\ args' = args /\ card' = card
    BY <1>9, StepMoves DEF ReadMbox
  <2> QED BY <2>1 DEF Moves, Registers, At
<1>10. ASSUME NEW p \in Procs, Defer(p) PROVE Registers'
  BY <1>10 DEF Defer, Registers, At
<1>11. CASE CardTake
  BY <1>11, CardSteps DEF CardTake, Registers, At
<1>12. CASE CardDone
  BY <1>12, CardSteps DEF CardDone, Registers, At
<1>13. CASE UNCHANGED vars
  BY <1>13 DEF vars, Registers, At
<1> QED BY <1>2, <1>3, <1>4, <1>5, <1>6, <1>7, <1>8, <1>9, <1>10, <1>11, <1>12, <1>13 DEF Next, Step

\* What was acknowledged was taken, and what was read is the call's own.
LEMMA TakenStep ==
    TypeOK /\ Exclusive /\ Patient /\ Registers /\ Taken /\ [Next]_vars => Taken'
<1> SUFFICES ASSUME TypeOK, Exclusive, Patient, Registers, Taken, [Next]_vars PROVE Taken'
  OBVIOUS
<1>e. env' = env
  BY EnvStep
<1>a. "timeout" \notin env /\ "forever" \notin env
  BY DEF Patient, Troubles
<1>1. ASSUME NEW p \in Procs, NEW l \in {"lock", "idle", "closed"}, Outside(p, l)
      PROVE  Taken'
  BY <1>1 DEF Outside, Taken, At
<1>2. ASSUME NEW p \in Procs, (\E k \in Kinds : Call(p, k)) \/ Release(p) \/ Open(p) \/ Return(p)
      PROVE  Taken'
  BY <1>1, <1>2, OutsideSteps
<1>3. ASSUME NEW p \in Procs, Lock(p) PROVE Taken'
  BY <1>3, StepMoves DEF Lock, Moves, Taken, At
<1>4. ASSUME NEW p \in Procs, LockSignal(p) PROVE Taken'
  BY <1>4, <1>e, StepMoves DEF LockSignal, Moves, Taken, At, OK, ERESTARTSYS
<1>5. ASSUME NEW p \in Procs, WriteArgs(p) PROVE Taken'
  BY <1>5, StepMoves DEF WriteArgs, Moves, Taken, At
<1>6. ASSUME NEW p \in Procs, WriteCommand(p) PROVE Taken'
  <2>1. \A q \in Procs : q # p => ~ At(q, "poll")
    BY <1>6 DEF WriteCommand, Exclusive, Holds, At
  <2>2. ~ command'.ack
    BY <1>6 DEF WriteCommand, CommandWord
  <2> QED BY <1>6, <2>1, <2>2, StepMoves DEF WriteCommand, Moves, Taken, At
<1>7. ASSUME NEW p \in Procs, PollAck(p) PROVE Taken'
  BY <1>7, StepMoves DEF PollAck, Moves, Taken, At
<1>8. ASSUME NEW p \in Procs, PollTimeout(p) PROVE FALSE
  BY <1>8, <1>a DEF PollTimeout, Registers
<1>9. ASSUME NEW p \in Procs, ReadMbox(p) PROVE Taken'
  <2>1. command.call = proc[p].call /\ proc[p].call \in card.taken
    BY <1>9 DEF ReadMbox, Registers, Taken, At
  <2>2. /\ Moves(p, "return") /\ proc'[p].rc = proc[p].rc /\ proc'[p].got = command.call
        /\ command' = command /\ card' = card
    BY <1>9, StepMoves DEF ReadMbox
  <2> QED BY <1>e, <2>1, <2>2 DEF Moves, Taken, At
<1>10. ASSUME NEW p \in Procs, Defer(p) PROVE Taken'
  BY <1>10 DEF Defer, Taken, At
<1>11. CASE CardTake
  BY <1>11, CardSteps DEF CardTake, Taken, At
<1>12. CASE CardDone
  BY <1>12, CardSteps DEF CardDone, Registers, Taken, At
<1>13. CASE UNCHANGED vars
  BY <1>13 DEF vars, Taken, At
<1> QED BY <1>2, <1>3, <1>4, <1>5, <1>6, <1>7, <1>8, <1>9, <1>10, <1>11, <1>12, <1>13 DEF Next, Step

\* What release waited for was taken.
LEMMA GoneStep ==
    TypeOK /\ Accounted /\ Patient /\ Registers /\ Taken /\ Gone /\ [Next]_vars => Gone'
<1> SUFFICES ASSUME TypeOK, Accounted, Patient, Registers, Taken, Gone, [Next]_vars,
                    "signal" \notin env
             PROVE  \A q \in Procs : At(q, "closed")' /\ deferred'[q] # 0 => deferred'[q] \in card'.taken
  BY EnvStep DEF Gone
<1>1. \A q \in Procs : proc[q].rc = OK
  BY DEF Taken
<1>2. \A q \in Procs : At(q, "closed") /\ deferred[q] # 0 => deferred[q] \in card.taken
  BY DEF Gone
<1>d. deferred \in [Procs -> Calls]
  BY DEF TypeOK
<1> DEFINE Goal == \A q \in Procs : At(q, "closed")' /\ deferred'[q] # 0 => deferred'[q] \in card'.taken
<1>3. ASSUME NEW p \in Procs, (\E k \in Kinds : Call(p, k)) \/ Release(p) \/ Open(p)
      PROVE  Goal
  <2>1. /\ card' = card /\ \A q \in Procs : q # p => proc'[q] = proc[q] /\ deferred'[q] = deferred[q]
        /\ proc'[p].pc = "closed" => deferred'[p] = 0
    BY <1>3, <1>d, OutsideSteps DEF Outside
  <2> QED BY <1>2, <2>1 DEF At
<1>4. ASSUME NEW p \in Procs, Return(p)
      PROVE  Goal
  <2>1. proc[p].call \in card.taken
    BY <1>1, <1>4, OutsideSteps DEF Taken
  <2>2. /\ deferred' = deferred /\ card' = card
        /\ \A q \in Procs : q # p => proc'[q] = proc[q]
        /\ proc'[p].pc = "closed" => proc[p].kind = "release"
    BY <1>4, OutsideSteps DEF Outside
  <2>3. proc[p].kind = "release" => proc[p].call = deferred[p]
    BY DEF Accounted
  <2> QED BY <1>2, <2>1, <2>2, <2>3 DEF At
<1>5. ASSUME NEW p \in Procs, Step(p) \/ LockSignal(p), ~ Return(p)
      PROVE  Goal
  <2>1. /\ proc'[p].pc # "closed"
        /\ \A q \in Procs : q # p => proc'[q] = proc[q]
    BY <1>5, StepMoves DEF Step, Moves
  <2>2. UNCHANGED <<deferred, card>>
    BY <1>5 DEF Step, Lock, LockSignal, WriteArgs, WriteCommand, PollAck, PollTimeout, ReadMbox
  <2> QED BY <1>2, <2>1, <2>2 DEF At
<1>6. ASSUME NEW p \in Procs, Defer(p)
      PROVE  Goal
  BY <1>2, <1>6, <1>d DEF Defer, At
<1>7. CASE CardTake \/ CardDone \/ UNCHANGED vars
  <2>1. card.taken \subseteq card'.taken /\ UNCHANGED <<deferred, proc>>
    BY <1>7, CardSteps DEF CardTake, CardDone, vars
  <2> QED BY <1>2, <2>1 DEF At
<1> QED BY <1>3, <1>4, <1>5, <1>6, <1>7 DEF Next

-----------------------------------------------------------------------------
\* The inductive invariant holds in every reachable state.
LEMMA MailSafe == Spec => []MailInv
<1>1. Init => MailInv
  <2> SUFFICES ASSUME Init PROVE MailInv
    OBVIOUS
  <2>1. \A p \in Procs : proc[p].pc = "idle" /\ proc[p].kind = "none" /\ proc[p].rc = OK
    BY DEF Init, NoCall, NewCall
  <2>2. Exclusive
    BY <2>1, BoundAssumption DEF Init, Exclusive, Holds
  <2>3. Registers
    BY <2>1 DEF Init, Registers, At
  <2>4. Taken
    BY <2>1 DEF Init, Taken, At
  <2>5. Gone
    BY <2>1 DEF Gone, At
  <2> QED BY TypeInit, <2>2, <2>3, <2>4, <2>5 DEF MailInv
<1>2. MailInv /\ [Next]_vars => MailInv'
  <2>1. [Next]_vars => (Patient' <=> Patient)
    BY EnvStep DEF Patient, Troubles
  <2> QED BY <2>1, TypeStep, ExclusiveStep, RegistersStep, TakenStep, GoneStep DEF MailInv
<1> QED BY <1>1, <1>2, PTL DEF Spec

\* The variables have their types: no call is made beyond the bound, deferred
\* ones included.
THEOREM MailTyped == Spec => []TypeOK
<1>1. MailInv => TypeOK
  BY DEF MailInv
<1> QED BY <1>1, MailSafe, PTL

\* Two processes are never at the registers together, between down and up of
\* mbox_sync.mutex (acq200.c:442-467), whatever signals and timeouts there are.
MutualExclusion == \A p, q \in Procs : Holds(p) /\ Holds(q) => p = q

THEOREM MailExclusive == Spec => []MutualExclusion
<1>1. MailInv => MutualExclusion
  BY DEF MailInv, Exclusive, MutualExclusion
<1> QED BY <1>1, MailSafe, PTL

\* A call that ends with success has read back its own command: AnswerIsMine,
\* for any number of processes and calls.
THEOREM AnswerBelongs == Spec => []AnswerIsMine
<1>1. MailInv => AnswerIsMine
  BY DEF MailInv, Patient, Taken, AnswerIsMine
<1> QED BY <1>1, MailSafe, PTL

\* The card takes a command with its own parameters: ArgsTogether.
THEOREM ArgsBelong == Spec => []ArgsTogether
<1>1. MailInv => ArgsTogether
  BY DEF MailInv, Patient, Registers, ArgsTogether
<1> QED BY <1>1, MailSafe, PTL

\* The commands deferred to release reach the card before the path is gone, or
\* the last of them where programs defer again: DeferredIsSent.
THEOREM DeferredSent == Spec => []DeferredIsSent
<1>1. MailInv => DeferredIsSent
  <2> SUFFICES ASSUME MailInv, ~ Troubles({"timeout", "forever", "signal"}),
                      NEW p \in Procs, At(p, "closed")
               PROVE  /\ deferred[p] # 0 => deferred[p] \in card.taken
                      /\ "again" \in env \/ told[p] \subseteq card.taken
    BY DEF DeferredIsSent
  <2>1. deferred[p] # 0 => deferred[p] \in card.taken
    BY DEF MailInv, Patient, Troubles, Gone
  <2>2. /\ deferred[p] = 0 => told[p] = {}
        /\ "again" \in env \/ told[p] \subseteq {deferred[p]}
    BY DEF MailInv, Accounted
  <2> QED BY <2>1, <2>2
<1> QED BY <1>1, MailSafe, PTL
=============================================================================
