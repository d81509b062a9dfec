---------------------------- MODULE ClientsProofs ----------------------------
(***************************************************************************)
(* Proofs about Clients, for every finite set of paths and every choice of *)
(* minors: the types, the busy semaphore, exclusive use, the backstop      *)
(* thread and the mapped buffers.                                          *)
(***************************************************************************)
EXTENDS Clients, FiniteSetTheorems, TLAPS

\* Only the paths of bufA and bufB come to these places, and only the paths that
\* take the busy semaphore for the time they are open wait for it in open.
ABPlaces == {"allocA", "allocB", "copy", "openDown", "openCount", "openStart", "ioctl", "action",
             "relDown", "relTest", "relStop", "relDec"}
Placed == \A p \in Paths : /\ pc[p] \in ABPlaces => IsAB(p)
                           /\ At(p, "openBusy") => TakesBusy(p)

\* The buffers given so far and those that paths on their way will be given.
\* As long as A is not allocated, nothing was given.
GivenInv ==
    /\ buf[0] = 0 => given = 0 /\ \A p \in Paths : ~ At(p, "allocB")
    /\ given + 2 * Cardinality({p \in Paths : At(p, "allocA")})
             + Cardinality({p \in Paths : At(p, "allocB")}) <= 2 * Cardinality(Paths)

\* The semaphore is with a path, with the reader of the attribute, or free.  A
\* path that uses the card has it; if no copy fails, a path that has it is in the
\* ioctl, or took it for the time it is open.
BusyInv ==
    /\ busy + Cardinality(has) + (IF probing THEN 1 ELSE 0) = 1
    /\ \A p \in Paths : InUse(p) => p \in has
    /\ "fault" \in env \/ \A p \in has : InUse(p)

\* Who is between down and up of clients.mutex, and who is counted.
Critical == {"openCount", "openStart", "relTest", "relStop", "relDec"}
CountedAt == {"openStart", "open", "ioctl", "action", "relDown", "relTest", "relStop", "relDec"}
Counted == {p \in Paths : IsAB(p) /\ pc[p] \in CountedAt}

\* clients.mutex excludes, the count is right and the thread runs while it is
\* positive, but for the moments before its start and after its end.
MutexInv ==
    /\ cmutex \in {0, 1}
    /\ cmutex = 1 => \A p \in Paths : pc[p] \notin Critical
    /\ cmutex = 0 => \E p \in Paths : pc[p] \in Critical
    /\ \A p, q \in Paths : pc[p] \in Critical /\ pc[q] \in Critical => p = q
ThreadInv ==
    /\ \A p \in Paths : At(p, "openStart") => threads = 0 /\ count = 1
    /\ \A p \in Paths : At(p, "relStop") => threads = 1 /\ count = 1
    /\ \A p \in Paths : At(p, "relDec") => threads = IF count = 1 THEN 0 ELSE 1
    /\ (\A p \in Paths : pc[p] \notin {"openStart", "relDec"}) =>
          threads = IF count = 0 THEN 0 ELSE 1
CountInv == count = Cardinality(Counted) /\ MutexInv /\ ThreadInv

\* A and B are allocated once, one after the other, and a path has both.
BufInv ==
    /\ \A p, q \in Paths :
          pc[p] \in {"allocA", "allocB"} /\ pc[q] \in {"allocA", "allocB"} => p = q
    /\ \A p \in Paths : At(p, "allocA") => buf[0] = 0 /\ buf[1] = 0
    /\ \A p \in Paths : At(p, "allocB") => buf[0] # 0 /\ buf[1] = 0
    /\ ~ Allocating => (buf[0] = 0 <=> buf[1] = 0)
    /\ \A p \in Paths : IsAB(p) /\ pc[p] \notin {"closed", "allocA", "allocB"} =>
          buf[0] # 0 /\ buf[1] # 0
    /\ \A p \in Paths : IsAB(p) /\ pc[p] \notin {"closed", "allocA", "allocB", "copy"} =>
          held[p] = buf
    /\ \A p \in Paths : IsAB(p) /\ mapped[p] # Unmapped =>
          pc[p] \in {"open", "ioctl", "action"} /\ mapped[p] = <<"AB", buf[minor[p] % 2]>>

ClientsInv ==
    /\ TypeOK /\ Placed /\ GivenInv /\ BusyInv
    /\ "signal" \in env \/ CountInv
    /\ "together" \in env \/ BufInv

-----------------------------------------------------------------------------
\* What may happen and the minors do not change.
LEMMA RigidStep == [Next]_vars => UNCHANGED rigid
BY DEF Next, Open, Ioctl, Mmap, Close, Opening, Working, Closing, Disturb, Probe, ProbeUp, OpenBusy,
       AllocA, AllocB, Alloc, CopyBuffers, OpenDown, OpenCount, OpenStart, IoctlDown, IoctlDone,
       RelDown, RelTest, RelStop, RelDec, Release, OpenBusySignal, OpenDownSignal, IoctlSignal,
       IoctlFault, RelDownSignal, vars

\* The kinds of devices exclude each other, and a minor has a lowest bit.
LEMMA Kinds ==
    ASSUME TypeOK, NEW p \in Paths
    PROVE  /\ ~ (IsAB(p) /\ TakesBusy(p))
           /\ minor[p] % 2 \in AB
           /\ IsAB(p) => Target(p) = <<"AB", buf[minor[p] % 2]>>
<1>1. minor \in [Paths -> 0 .. 255]
  BY SettingsAssumption DEF TypeOK
<1>2. minor[p] % 2 \in AB
  BY <1>1 DEF AB
<1>3. ~ (IsAB(p) /\ TakesBusy(p))
  BY DEF IsAB, TakesBusy
<1>4. IsAB(p) => Target(p) = <<"AB", buf[minor[p] % 2]>>
  BY DEF IsAB, Target
<1> QED BY <1>2, <1>3, <1>4

\* The sets of paths are finite.
LEMMA PathSets ==
    ASSUME NEW S \in SUBSET Paths
    PROVE  /\ IsFiniteSet(S) /\ Cardinality(S) \in Nat /\ Cardinality(S) <= Cardinality(Paths)
           /\ Cardinality(Paths) \in Nat
BY PathsAssumption, FS_Subset, FS_CardinalityType

\* Two elements count at least two.
LEMMA TwoInSet ==
    ASSUME NEW S \in SUBSET Paths, NEW p \in S, NEW q \in S, p # q
    PROVE  Cardinality(S) >= 2
<1>1. IsFiniteSet(S) /\ IsFiniteSet(S \ {p}) /\ Cardinality(S) \in Nat
      /\ Cardinality(S \ {p}) = Cardinality(S) - 1
  BY PathSets, FS_RemoveElement
<1>2. Cardinality(S \ {p}) # 0
  BY <1>1, FS_EmptySet
<1>3. Cardinality(S \ {p}) \in Nat
  BY <1>1, FS_CardinalityType
<1> QED BY <1>1, <1>2, <1>3

\* A path goes from one place to another, the others stay.
LEMMA Going ==
    ASSUME TypeOK, NEW p \in Paths, NEW l \in PC, Goto(p, l)
    PROVE  /\ pc' \in [Paths -> PC] /\ pc'[p] = l
           /\ \A q \in Paths : q # p => pc'[q] = pc[q]
BY DEF TypeOK, Goto

\* The steps that leave a path where it is.
Still == (\E p \in Paths : Mmap(p)) \/ Probe \/ ProbeUp \/ UNCHANGED vars

LEMMA StillPut == Still => UNCHANGED <<pc, clients, buf, given, held, rigid>>
BY DEF Still, Mmap, Probe, ProbeUp, vars, buffers

-----------------------------------------------------------------------------
\* Paths get where only AB paths may be by steps of AB paths.
LEMMA PlacedStep == TypeOK /\ Placed /\ [Next]_vars => Placed'
<1> SUFFICES ASSUME TypeOK, Placed, [Next]_vars PROVE Placed'
  OBVIOUS
<1>1. minor' = minor
  BY RigidStep DEF rigid
<1>2. ASSUME NEW p \in Paths, NEW l \in PC, Goto(p, l), l \in ABPlaces => IsAB(p),
             l = "openBusy" => TakesBusy(p)
      PROVE  Placed'
  BY <1>1, <1>2, Going DEF Placed, IsAB, TakesBusy, At
<1>3. ASSUME NEW p \in Paths, Open(p) PROVE Placed'
  <2>1. \E l \in {"openBusy", "open", "allocA", "copy"} : /\ Goto(p, l)
                                                          /\ l \in ABPlaces => IsAB(p)
                                                          /\ l = "openBusy" => TakesBusy(p)
    BY <1>3 DEF Open, ABPlaces
  <2> QED BY <1>2, <2>1 DEF PC
<1>4. ASSUME NEW p \in Paths, Ioctl(p) \/ Close(p) PROVE Placed'
  <2>1. \E l \in {"ioctl", "relDown", "release"} : Goto(p, l) /\ (l \in ABPlaces => IsAB(p))
    BY <1>4 DEF Ioctl, Close, ABPlaces
  <2> QED BY <1>2, <2>1 DEF PC
<1>5. ASSUME NEW p \in Paths, Opening(p) \/ Working(p) \/ Closing(p) \/ Disturb(p) PROVE Placed'
  <2>1. \E l \in PC \ {"openBusy"} : Goto(p, l) /\ (l \in {"open", "release", "closed"} \/ pc[p] \in ABPlaces)
    BY <1>5 DEF Opening, Working, Closing, Disturb, OpenBusy, AllocA, AllocB, Alloc, CopyBuffers,
         OpenDown, OpenCount, OpenStart, IoctlDown, IoctlDone, RelDown, RelTest, RelStop, RelDec,
         Release, OpenBusySignal, OpenDownSignal, IoctlSignal, IoctlFault, RelDownSignal, At, PC,
         ABPlaces
  <2> QED BY <1>2, <2>1 DEF Placed, ABPlaces
<1>6. CASE Still
  BY <1>1, <1>6, StillPut DEF Placed, IsAB, TakesBusy, At
<1> QED BY <1>3, <1>4, <1>5, <1>6 DEF Next, Still

\* The buffers given stay within those there are.
AtA == {p \in Paths : At(p, "allocA")}
AtB == {p \in Paths : At(p, "allocB")}

LEMMA GivenStep == TypeOK /\ GivenInv /\ [Next]_vars => GivenInv' /\ given' \in Buffers
<1> SUFFICES ASSUME TypeOK, GivenInv, [Next]_vars PROVE GivenInv' /\ given' \in Buffers
  OBVIOUS
<1>t. /\ buf \in [AB -> Nat] /\ given \in Nat /\ Buffers = 0 .. 2 * Cardinality(Paths)
      /\ AB = {0, 1} /\ Cardinality(Paths) \in Nat
  BY PathSets DEF TypeOK, Buffers, AB
<1>c. /\ Cardinality(AtA) \in Nat /\ Cardinality(AtB) \in Nat
      /\ IsFiniteSet(AtA) /\ IsFiniteSet(AtB)
  BY PathSets DEF AtA, AtB
<1>g. /\ buf[0] = 0 => given = 0 /\ \A p \in Paths : ~ At(p, "allocB")
      /\ given + 2 * Cardinality(AtA) + Cardinality(AtB) <= 2 * Cardinality(Paths)
  BY DEF GivenInv, AtA, AtB
<1>1. ASSUME AtA' = AtA, AtB' = AtB, UNCHANGED <<buf, given>> PROVE GivenInv' /\ given' \in Buffers
  BY <1>1, <1>g, <1>t DEF GivenInv, AtA, AtB, TypeOK
<1>2. ASSUME NEW p \in Paths, NEW l \in PC \ {"allocA", "allocB"}, Goto(p, l),
             pc[p] \notin {"allocA", "allocB"}, UNCHANGED <<buf, given>>
      PROVE  GivenInv' /\ given' \in Buffers
  BY <1>1, <1>2, Going DEF AtA, AtB, At
<1>3. ASSUME NEW p \in Paths, Open(p), IsAB(p), buf[0] = 0, ~ TakesBusy(p)
      PROVE  GivenInv' /\ given' \in Buffers
  <2>1. Goto(p, "allocA") /\ UNCHANGED <<buf, given>>
    BY <1>3 DEF Open, buffers
  <2>2. pc'[p] = "allocA" /\ \A q \in Paths : q # p => pc'[q] = pc[q]
    BY <2>1, Going DEF PC
  <2>3. \A q \in Paths : ~ At(q, "allocB")'
    BY <1>3, <1>g, <2>2 DEF At
  <2>4. AtB' = {} /\ Cardinality({}) = 0
    BY <2>3, FS_EmptySet DEF AtB
  <2>5. Cardinality(AtA') \in Nat /\ Cardinality(AtA') <= Cardinality(Paths)
    BY PathSets DEF AtA
  <2>6. given' = 0 /\ buf' = buf
    BY <1>3, <1>g, <2>1
  <2>7. given' + 2 * Cardinality(AtA') + Cardinality(AtB') <= 2 * Cardinality(Paths)
    BY <2>4, <2>5, <2>6, <1>t
  <2> QED BY <1>t, <2>3, <2>6, <2>7 DEF GivenInv, AtA, AtB
<1>4. ASSUME NEW p \in Paths, Open(p), ~ (IsAB(p) /\ buf[0] = 0 /\ ~ TakesBusy(p))
      PROVE  GivenInv' /\ given' \in Buffers
  <2>1. /\ \E l \in {"openBusy", "open", "copy"} : Goto(p, l)
        /\ UNCHANGED <<buf, given>> /\ pc[p] = "closed"
    BY <1>4 DEF Open, buffers, At
  <2> QED BY <1>2, <2>1 DEF PC
<1>5. ASSUME NEW p \in Paths, AllocA(p) PROVE GivenInv' /\ given' \in Buffers
  <2>1. /\ pc[p] = "allocA" /\ pc'[p] = "allocB" /\ given' = given + 1 /\ buf'[0] = given + 1
        /\ \A q \in Paths : q # p => pc'[q] = pc[q]
    BY <1>5, <1>t, Going DEF AllocA, Alloc, At, PC
  <2>2. AtA' = AtA \ {p} /\ p \in AtA /\ AtB' = AtB \cup {p} /\ p \notin AtB
    BY <2>1 DEF AtA, AtB, At
  <2>3. /\ Cardinality(AtA') = Cardinality(AtA) - 1 /\ Cardinality(AtA) # 0
        /\ Cardinality(AtB') = Cardinality(AtB) + 1
    BY <1>c, <2>2, FS_RemoveElement, FS_AddElement, FS_EmptySet
  <2>4. given' + 2 * Cardinality(AtA') + Cardinality(AtB') <= 2 * Cardinality(Paths)
        /\ given' \in Buffers /\ buf'[0] # 0
    BY <1>t, <1>c, <1>g, <2>1, <2>3
  <2> QED BY <2>4 DEF GivenInv, AtA, AtB
<1>6. ASSUME NEW p \in Paths, AllocB(p) PROVE GivenInv' /\ given' \in Buffers
  <2>1. /\ pc[p] = "allocB" /\ pc'[p] = "copy" /\ given' = given + 1 /\ buf'[0] = buf[0]
        /\ \A q \in Paths : q # p => pc'[q] = pc[q]
    BY <1>6, <1>t, Going DEF AllocB, Alloc, At, PC
  <2>2. AtA' = AtA /\ AtB' = AtB \ {p} /\ p \in AtB
    BY <2>1 DEF AtA, AtB, At
  <2>3. Cardinality(AtB') = Cardinality(AtB) - 1 /\ Cardinality(AtB) # 0
    BY <1>c, <2>2, FS_RemoveElement, FS_EmptySet
  <2>4. given' + 2 * Cardinality(AtA') + Cardinality(AtB') <= 2 * Cardinality(Paths)
        /\ given' \in Buffers
    BY <1>t, <1>c, <1>g, <2>1, <2>2, <2>3
  <2>5. buf'[0] # 0
    BY <1>g, <2>1 DEF At
  <2> QED BY <2>4, <2>5 DEF GivenInv, AtA, AtB
<1>7. ASSUME NEW p \in Paths, Ioctl(p) \/ Close(p) \/ Opening(p) \/ Working(p) \/ Closing(p) \/ Disturb(p),
             ~ AllocA(p), ~ AllocB(p)
      PROVE  GivenInv' /\ given' \in Buffers
  <2>1. /\ \E l \in PC \ {"allocA", "allocB"} : Goto(p, l)
        /\ pc[p] \notin {"allocA", "allocB"} /\ UNCHANGED <<buf, given>>
    BY <1>7 DEF Ioctl, Close, Opening, Working, Closing, Disturb, OpenBusy, CopyBuffers,
         OpenDown, OpenCount, OpenStart, IoctlDown, IoctlDone, RelDown, RelTest, RelStop, RelDec,
         Release, OpenBusySignal, OpenDownSignal, IoctlSignal, IoctlFault, RelDownSignal, At, PC,
         buffers
  <2> QED BY <1>2, <2>1
<1>8. CASE Still
  BY <1>1, <1>8, StillPut DEF AtA, AtB, At
<1> QED BY <1>3, <1>4, <1>5, <1>6, <1>7, <1>8 DEF Next, Still, Opening

\* The semaphore is neither lost nor doubled.
LEMMA BusyStep == TypeOK /\ Placed /\ BusyInv /\ [Next]_vars => BusyInv' /\ busy' \in {0, 1}
                                                             /\ has' \subseteq Paths
                                                             /\ probing' \in BOOLEAN
<1> SUFFICES ASSUME TypeOK, Placed, BusyInv, [Next]_vars
             PROVE  BusyInv' /\ busy' \in {0, 1} /\ has' \subseteq Paths /\ probing' \in BOOLEAN
  OBVIOUS
<1> DEFINE Goal == BusyInv' /\ busy' \in {0, 1} /\ has' \subseteq Paths /\ probing' \in BOOLEAN
<1>r. UNCHANGED <<minor, env>> /\ \A q \in Paths : TakesBusy(q)' <=> TakesBusy(q)
  BY RigidStep DEF rigid, TakesBusy
<1>t. busy \in Nat /\ has \in SUBSET Paths
  BY DEF TypeOK
<1>p. probing \in BOOLEAN
  BY DEF TypeOK
<1>c. IsFiniteSet(has) /\ Cardinality(has) \in Nat
  BY <1>t, PathSets
<1>b. busy + Cardinality(has) + (IF probing THEN 1 ELSE 0) = 1
  BY DEF BusyInv
<1>e. busy > 0 => busy = 1 /\ has = {} /\ ~ probing
  <2>1. busy > 0 => busy = 1 /\ Cardinality(has) = 0 /\ ~ probing
    BY <1>t, <1>c, <1>b
  <2> QED BY <2>1, <1>c, FS_EmptySet
<1>1. ASSUME NEW p \in Paths, NEW l \in PC \ {"action"}, Goto(p, l), UNCHANGED sem,
             pc[p] = "action" => "fault" \in env,
             TakesBusy(p) => (pc[p] \in {"open", "release"} <=> l \in {"open", "release"})
      PROVE  Goal
  <2>1. pc'[p] = l /\ \A q \in Paths : q # p => pc'[q] = pc[q]
    BY <1>1, Going
  <2>2. UNCHANGED <<busy, has, probing>>
    BY <1>1 DEF sem
  <2>3. \A q \in Paths : InUse(q)' => q \in has'
    BY <1>r, <1>1, <2>1, <2>2 DEF BusyInv, InUse, At
  <2>4. "fault" \in env' \/ \A q \in has' : InUse(q)'
    BY <1>1, <1>r, <1>t, <2>1, <2>2 DEF BusyInv, InUse, At
  <2>5. busy' \in {0, 1} /\ has' \subseteq Paths
    BY <2>2 DEF TypeOK
  <2>6. probing' \in BOOLEAN
    BY <2>2, <1>p
  <2> QED BY <1>b, <2>2, <2>3, <2>4, <2>5, <2>6 DEF BusyInv
<1>2. ASSUME NEW p \in Paths, NEW l \in PC, Goto(p, l), busy > 0, busy' = busy - 1,
             has' = has \cup {p}, probing' = probing,
             l = "action" \/ (TakesBusy(p) /\ l = "open")
      PROVE  Goal
  <2>1. pc'[p] = l /\ \A q \in Paths : q # p => pc'[q] = pc[q]
    BY <1>2, Going
  <2>2. has' = {p} /\ busy' = 0 /\ Cardinality(has') = 1 /\ ~ probing'
    BY <1>2, <1>e, FS_Singleton
  <2>3. \A q \in Paths : InUse(q)' => q \in has'
    BY <1>r, <1>2, <1>e, <2>1, <2>2 DEF BusyInv, InUse, At
  <2>4. \A q \in has' : InUse(q)'
    BY <1>2, <1>r, <2>1, <2>2 DEF InUse, At
  <2>5. probing' \in BOOLEAN
    BY <1>2, <1>p
  <2> QED BY <2>2, <2>3, <2>4, <2>5 DEF BusyInv
<1>3. ASSUME NEW p \in Paths, NEW l \in PC \ {"action"}, Goto(p, l), p \in has, busy' = busy + 1,
             has' = has \ {p}, probing' = probing, TakesBusy(p) => l \notin {"open", "release"}
      PROVE  Goal
  <2>1. pc'[p] = l /\ \A q \in Paths : q # p => pc'[q] = pc[q]
    BY <1>3, Going
  <2>2. Cardinality(has') = Cardinality(has) - 1 /\ Cardinality(has') \in Nat
    BY <1>3, <1>c, FS_RemoveElement, FS_CardinalityType
  <2>3. busy' \in {0, 1} /\ busy' + Cardinality(has') + (IF probing' THEN 1 ELSE 0) = 1
    BY <1>3, <1>t, <1>c, <1>b, <2>2
  <2>4. \A q \in Paths : InUse(q)' => q \in has'
    BY <1>r, <1>3, <2>1 DEF BusyInv, InUse, At
  <2>5. "fault" \in env' \/ \A q \in has' : InUse(q)'
    BY <1>3, <1>r, <1>t, <2>1 DEF BusyInv, InUse, At
  <2>6. probing' \in BOOLEAN
    BY <1>3, <1>p
  <2> QED BY <1>t, <1>3, <2>3, <2>4, <2>5, <2>6 DEF BusyInv
<1>4. ASSUME NEW p \in Paths, OpenBusy(p) \/ IoctlDown(p) PROVE Goal
  <2>1. CASE IoctlDown(p)
    BY <1>2, <2>1 DEF IoctlDown, PC
  <2>2. CASE OpenBusy(p)
    <3>1. TakesBusy(p)
      BY <2>2 DEF Placed, OpenBusy
    <3> QED BY <1>2, <2>2, <3>1 DEF OpenBusy, PC
  <2> QED BY <1>4, <2>1, <2>2
<1>5. ASSUME NEW p \in Paths, IoctlDone(p) PROVE Goal
  <2>1. pc[p] = "action" /\ p \in has /\ IsAB(p)
    BY <1>5 DEF IoctlDone, BusyInv, InUse, At, Placed, ABPlaces
  <2>2. ~ TakesBusy(p)
    BY <2>1, Kinds
  <2> QED BY <1>3, <1>5, <2>1, <2>2 DEF IoctlDone, PC
<1>6. ASSUME NEW p \in Paths, Release(p) PROVE Goal
  <2>1. CASE p \in has
    BY <1>3, <1>6, <2>1 DEF Release, PC
  <2>2. CASE p \notin has
    <3>1. /\ UNCHANGED <<busy, has, probing>> /\ Goto(p, "closed") /\ pc[p] = "release"
      BY <1>6, <2>2 DEF Release, At
    <3>2. pc'[p] = "closed" /\ \A q \in Paths : q # p => pc'[q] = pc[q]
      BY <3>1, Going DEF PC
    <3>3. \A q \in Paths : InUse(q)' => q \in has'
      BY <1>r, <3>1, <3>2 DEF BusyInv, InUse, At
    <3>4. "fault" \in env' \/ \A q \in has' : InUse(q)'
      BY <1>r, <1>t, <2>2, <3>1, <3>2 DEF BusyInv, InUse, At
    <3>5. probing' \in BOOLEAN
      BY <3>1, <1>p
    <3>6. busy' \in {0, 1} /\ has' \subseteq Paths
      BY <3>1 DEF TypeOK
    <3> QED BY <1>b, <3>1, <3>3, <3>4, <3>5, <3>6 DEF BusyInv
  <2> QED BY <2>1, <2>2
<1>7. ASSUME NEW p \in Paths, Open(p) PROVE Goal
  <2>1. /\ \E l \in {"openBusy", "open", "allocA", "copy"} : Goto(p, l) /\ (TakesBusy(p) => l # "open")
        /\ pc[p] = "closed" /\ UNCHANGED sem
    BY <1>7 DEF Open, At
  <2> QED BY <1>1, <2>1 DEF PC
<1>8. ASSUME NEW p \in Paths, Ioctl(p) \/ Close(p) PROVE Goal
  <2>1. /\ \E l \in {"ioctl", "relDown", "release"} : Goto(p, l) /\ (IsAB(p) \/ l = "release")
        /\ pc[p] = "open" /\ UNCHANGED sem
    BY <1>8 DEF Ioctl, Close, At
  <2>2. ~ (IsAB(p) /\ TakesBusy(p))
    BY Kinds
  <2> QED BY <1>1, <2>1, <2>2 DEF PC
<1>9. ASSUME NEW p \in Paths, Opening(p) \/ Working(p) \/ Closing(p) \/ Disturb(p),
             ~ OpenBusy(p), ~ IoctlDown(p), ~ IoctlDone(p), ~ Release(p)
      PROVE  Goal
  <2>0. ~ (IsAB(p) /\ TakesBusy(p)) /\ (pc[p] \in ABPlaces => IsAB(p))
    BY Kinds DEF Placed
  <2>1. /\ \E l \in PC \ {"action"} : Goto(p, l) /\ (pc[p] \in ABPlaces \/ l \notin {"open", "release"})
        /\ pc[p] = "action" => "fault" \in env
        /\ pc[p] \notin {"open", "release"} /\ UNCHANGED sem
    BY <1>9 DEF Opening, Working, Closing, Disturb, AllocA, AllocB, Alloc, CopyBuffers,
         OpenDown, OpenCount, OpenStart, RelDown, RelTest, RelStop, RelDec,
         OpenBusySignal, OpenDownSignal, IoctlSignal, IoctlFault, RelDownSignal, At, PC, ABPlaces
  <2> QED BY <1>1, <2>0, <2>1
<1>10. CASE Probe \/ ProbeUp
  <2>1. has' = has /\ pc' = pc
    BY <1>10 DEF Probe, ProbeUp
  <2>2. probing' \in BOOLEAN
    BY <1>10 DEF Probe, ProbeUp
  <2>3. busy' \in {0, 1} /\ busy' + Cardinality(has') + (IF probing' THEN 1 ELSE 0) = 1
    <3>1. CASE Probe
      BY <3>1, <1>t, <1>c, <1>b DEF Probe
    <3>2. CASE ProbeUp
      BY <3>2, <1>t, <1>c, <1>b DEF ProbeUp
    <3> QED BY <1>10, <3>1, <3>2
  <2> QED BY <1>r, <1>t, <2>1, <2>2, <2>3 DEF BusyInv, InUse, At
<1>11. CASE (\E p \in Paths : Mmap(p)) \/ UNCHANGED vars
  <2>1. UNCHANGED <<pc, busy, has, probing>>
    BY <1>11 DEF Mmap, vars, sem
  <2>2. probing' \in BOOLEAN
    BY <2>1, <1>p
  <2> QED BY <1>r, <1>t, <1>b, <2>1, <2>2 DEF BusyInv, InUse, At, TypeOK
<1> QED BY <1>4, <1>5, <1>6, <1>7, <1>8, <1>9, <1>10, <1>11 DEF Next, Opening, Working, Closing

\* Every step keeps the types.
LEMMA TypeStep ==
    TypeOK /\ Placed /\ GivenInv /\ BusyInv /\ [Next]_vars => TypeOK'
<1> SUFFICES ASSUME TypeOK, Placed, GivenInv, BusyInv, [Next]_vars PROVE TypeOK'
  OBVIOUS
<1>1. given' \in Buffers /\ busy' \in {0, 1} /\ has' \subseteq Paths
  BY GivenStep, BusyStep
<1>2. probing' \in BOOLEAN
  BY BusyStep
<1>3. [minor |-> minor', env |-> env'] \in Settings
  BY RigidStep DEF rigid, TypeOK
<1>4. pc' \in [Paths -> PC]
  <2>1. ASSUME NEW p \in Paths, Open(p) \/ Ioctl(p) \/ Close(p) \/ Opening(p) \/ Working(p)
                                \/ Closing(p) \/ Disturb(p)
        PROVE  pc' \in [Paths -> PC]
    <3>1. \E l \in PC : Goto(p, l)
      BY <2>1 DEF Open, Ioctl, Close, Opening, Working, Closing, Disturb, OpenBusy, AllocA, AllocB,
         Alloc, CopyBuffers, OpenDown, OpenCount, OpenStart, IoctlDown, IoctlDone, RelDown, RelTest,
         RelStop, RelDec, Release, OpenBusySignal, OpenDownSignal, IoctlSignal, IoctlFault,
         RelDownSignal, At, PC
    <3> QED BY <3>1, Going
  <2>2. CASE Still
    BY <2>2, StillPut DEF TypeOK
  <2> QED BY <2>1, <2>2 DEF Next, Still
<1>5. cmutex' \in Nat /\ count' \in Int /\ threads' \in Nat
  <2>t. cmutex \in Nat /\ count \in Int /\ threads \in Nat
    BY DEF TypeOK
  <2>1. ASSUME NEW p \in Paths, OpenDown(p) \/ OpenCount(p) \/ OpenStart(p) \/ RelDown(p)
                                \/ RelStop(p) \/ RelDec(p)
        PROVE  cmutex' \in Nat /\ count' \in Int /\ threads' \in Nat
    BY <2>1, <2>t DEF OpenDown, OpenCount, OpenStart, RelDown, RelStop, RelDec
  <2>2. ASSUME NEW p \in Paths, Open(p) \/ Ioctl(p) \/ Close(p) \/ Opening(p) \/ Working(p)
                                \/ Closing(p) \/ Disturb(p),
               ~ OpenDown(p), ~ OpenCount(p), ~ OpenStart(p), ~ RelDown(p), ~ RelStop(p), ~ RelDec(p)
        PROVE  UNCHANGED clients
    BY <2>2 DEF Open, Ioctl, Close, Opening, Working, Closing, Disturb, OpenBusy, AllocA, AllocB,
         Alloc, CopyBuffers, IoctlDown, IoctlDone, RelTest, Release, OpenBusySignal, OpenDownSignal,
         IoctlSignal, IoctlFault, RelDownSignal
  <2>3. CASE Still
    BY <2>3, <2>t, StillPut DEF clients
  <2> QED BY <2>t, <2>1, <2>2, <2>3 DEF Next, Still, clients
<1>6. /\ buf' \in [AB -> Buffers] /\ held' \in [Paths -> [AB -> Buffers]]
      /\ mapped' \in [Paths -> Memory]
  <2>t. /\ buf \in [AB -> Buffers] /\ held \in [Paths -> [AB -> Buffers]]
        /\ mapped \in [Paths -> Memory] /\ 0 \in Buffers
    BY PathSets DEF TypeOK, Buffers
  <2>1. ASSUME NEW p \in Paths, AllocA(p) \/ AllocB(p)
        PROVE  buf' \in [AB -> Buffers] /\ UNCHANGED <<held, mapped>>
    BY <2>1, <2>t, <1>1 DEF AllocA, AllocB, Alloc
  <2>2. ASSUME NEW p \in Paths, CopyBuffers(p) \/ Release(p)
        PROVE  held' \in [Paths -> [AB -> Buffers]] /\ UNCHANGED <<buf, mapped>>
    BY <2>2, <2>t DEF CopyBuffers, Release, NoBuffers
  <2>3. ASSUME NEW p \in Paths, Mmap(p) \/ Close(p)
        PROVE  mapped' \in [Paths -> Memory] /\ UNCHANGED <<buf, held>>
    <3>1. Unmapped \in Memory
      BY <2>t DEF Unmapped, Memory
    <3>2. Target(p) \in Memory
      <4>1. minor[p] % 2 \in AB
        BY Kinds
      <4>2. buf[minor[p] % 2] \in Buffers
        BY <4>1, <2>t
      <4> QED BY <2>t, <3>1, <4>2 DEF Target, Memory
    <3> QED BY <2>3, <2>t, <3>1, <3>2 DEF Mmap, Close
  <2>4. ASSUME NEW p \in Paths, Open(p) \/ Ioctl(p) \/ Opening(p) \/ Working(p) \/ Closing(p)
                                \/ Disturb(p),
               ~ AllocA(p), ~ AllocB(p), ~ CopyBuffers(p), ~ Release(p)
        PROVE  UNCHANGED buffers
    BY <2>4 DEF Open, Ioctl, Opening, Working, Closing, Disturb, OpenBusy, OpenDown, OpenCount,
         OpenStart, IoctlDown, IoctlDone, RelDown, RelTest, RelStop, RelDec, OpenBusySignal,
         OpenDownSignal, IoctlSignal, IoctlFault, RelDownSignal
  <2>5. CASE Probe \/ ProbeUp \/ UNCHANGED vars
    BY <2>5, <2>t DEF Probe, ProbeUp, vars, buffers
  <2> QED BY <2>t, <2>1, <2>2, <2>3, <2>4, <2>5 DEF Next, buffers
<1> QED BY <1>1, <1>2, <1>3, <1>4, <1>5, <1>6 DEF TypeOK

-----------------------------------------------------------------------------
\* clients.mutex, the count and the thread, when nobody is interrupted.
LEMMA CountStep ==
    TypeOK /\ Placed /\ CountInv /\ "signal" \notin env /\ [Next]_vars => CountInv'
<1> SUFFICES ASSUME TypeOK, Placed, CountInv, "signal" \notin env, [Next]_vars PROVE CountInv'
  OBVIOUS
<1>r. \A q \in Paths : IsAB(q)' <=> IsAB(q)
  BY RigidStep DEF rigid, IsAB
<1>t. count \in Nat /\ threads \in Nat /\ cmutex \in {0, 1} /\ Counted \in SUBSET Paths
  BY PathSets DEF TypeOK, CountInv, MutexInv, Counted
<1>c. IsFiniteSet(Counted) /\ count = Cardinality(Counted)
  BY <1>t, PathSets DEF CountInv
<1>p. \A q \in Paths : pc[q] \in Critical \ {"openCount"} => q \in Counted
  BY DEF Placed, ABPlaces, Critical, Counted, CountedAt
\* Steps that no part of the invariant sees.
<1>1. ASSUME NEW p \in Paths, NEW l \in PC \ Critical, Goto(p, l), pc[p] \notin Critical,
             UNCHANGED clients, IsAB(p) => (l \in CountedAt <=> pc[p] \in CountedAt)
      PROVE  CountInv'
  <2>1. pc'[p] = l /\ \A q \in Paths : q # p => pc'[q] = pc[q]
    BY <1>1, Going
  <2>2. UNCHANGED <<cmutex, count, threads>>
    BY <1>1 DEF clients
  <2>3. Counted' = Counted
    BY <1>1, <1>r, <2>1 DEF Counted
  <2>4. MutexInv'
    BY <1>1, <2>1, <2>2 DEF CountInv, MutexInv
  <2>5. ThreadInv'
    BY <1>1, <2>1, <2>2 DEF CountInv, ThreadInv, At, Critical
  <2> QED BY <1>c, <2>2, <2>3, <2>4, <2>5 DEF CountInv
<1>2. ASSUME NEW p \in Paths, Open(p) \/ Ioctl(p) \/ Close(p) PROVE CountInv'
  <2>1. /\ UNCHANGED clients
        /\ \E l \in {"openBusy", "open", "allocA", "copy", "ioctl", "relDown", "release"} :
              Goto(p, l) /\ (IsAB(p) => (l \in CountedAt <=> pc[p] \in CountedAt))
        /\ pc[p] \in {"closed", "open"}
    BY <1>2, Kinds DEF Open, Ioctl, Close, At, CountedAt
  <2> QED BY <1>1, <2>1 DEF PC, Critical
<1>3. ASSUME NEW p \in Paths, OpenBusy(p) \/ AllocA(p) \/ AllocB(p) \/ CopyBuffers(p)
                              \/ Working(p) \/ Disturb(p) \/ Release(p)
      PROVE  CountInv'
  <2>1. /\ UNCHANGED clients
        /\ \E l \in PC \ Critical :
              Goto(p, l) /\ (IsAB(p) => (l \in CountedAt <=> pc[p] \in CountedAt))
        /\ pc[p] \notin Critical
    <3>1. CASE OpenBusy(p)
      BY <3>1, Kinds DEF OpenBusy, At, Placed, CountedAt, Critical, PC
    <3>2. CASE AllocA(p) \/ AllocB(p) \/ CopyBuffers(p) \/ Release(p)
      BY <3>2 DEF AllocA, AllocB, Alloc, CopyBuffers, Release, At, CountedAt, Critical, PC
    <3>3. CASE Working(p) \/ Disturb(p)
      BY <3>3 DEF Working, IoctlDown, IoctlDone, Disturb, OpenBusySignal, OpenDownSignal,
           IoctlSignal, IoctlFault, RelDownSignal, At, CountedAt, Critical, PC
    <3> QED BY <1>3, <3>1, <3>2, <3>3
  <2> QED BY <1>1, <2>1
\* down ...
<1>4. ASSUME NEW p \in Paths, OpenDown(p) \/ RelDown(p) PROVE CountInv'
  <2>1. /\ cmutex = 1 /\ cmutex' = 0 /\ UNCHANGED <<count, threads>>
        /\ \/ pc[p] = "openDown" /\ Goto(p, "openCount")
           \/ pc[p] = "relDown" /\ Goto(p, "relTest")
    BY <1>4, <1>t DEF OpenDown, RelDown, At
  <2>2. /\ pc'[p] \in {"openCount", "relTest"} /\ pc[p] \notin Critical
        /\ pc'[p] \in CountedAt <=> pc[p] \in CountedAt
        /\ \A q \in Paths : q # p => pc'[q] = pc[q]
    BY <2>1, Going DEF PC, CountedAt, Critical
  <2>3. Counted' = Counted
    BY <1>r, <2>2 DEF Counted
  <2>4. MutexInv'
    BY <2>1, <2>2 DEF CountInv, MutexInv, Critical
  <2>5. ThreadInv'
    BY <2>1, <2>2 DEF CountInv, ThreadInv, MutexInv, At, Critical
  <2> QED BY <1>c, <2>1, <2>3, <2>4, <2>5 DEF CountInv
<1>5. ASSUME NEW p \in Paths, OpenCount(p) PROVE CountInv'
  <2>1. /\ pc[p] = "openCount" /\ count' = count + 1 /\ threads' = threads
        /\ cmutex' = IF count' = 1 THEN cmutex ELSE cmutex + 1
        /\ pc'[p] = IF count' = 1 THEN "openStart" ELSE "open"
        /\ \A q \in Paths : q # p => pc'[q] = pc[q]
    BY <1>5, Going DEF OpenCount, At, PC
  <2>2. IsAB(p) /\ cmutex = 0 /\ \A q \in Paths : q # p => pc[q] \notin Critical
    BY <1>t, <2>1 DEF Placed, ABPlaces, CountInv, MutexInv, Critical
  <2>3. Counted' = Counted \cup {p} /\ p \notin Counted
    BY <1>r, <2>1, <2>2 DEF Counted, CountedAt
  <2>4. count' = Cardinality(Counted')
    BY <1>c, <2>1, <2>3, FS_AddElement
  <2>5. MutexInv'
    BY <2>1, <2>2 DEF MutexInv, Critical
  <2>6. threads = IF count = 0 THEN 0 ELSE 1
    BY <2>1, <2>2 DEF CountInv, ThreadInv, Critical
  <2>7. ThreadInv'
    BY <1>t, <2>1, <2>2, <2>6 DEF ThreadInv, At, Critical
  <2> QED BY <2>4, <2>5, <2>7 DEF CountInv
<1>6. ASSUME NEW p \in Paths, OpenStart(p) PROVE CountInv'
  <2>1. /\ pc[p] = "openStart" /\ count' = count /\ threads' = threads + 1 /\ cmutex' = cmutex + 1
        /\ pc'[p] = "open"
        /\ \A q \in Paths : q # p => pc'[q] = pc[q]
    BY <1>6, Going DEF OpenStart, At, PC
  <2>2. cmutex = 0 /\ \A q \in Paths : q # p => pc[q] \notin Critical
    BY <1>t, <2>1 DEF CountInv, MutexInv, Critical
  <2>3. Counted' = Counted
    BY <1>r, <2>1 DEF Counted, CountedAt
  <2>4. MutexInv'
    BY <2>1, <2>2 DEF MutexInv, Critical
  <2>5. threads = 0 /\ count = 1
    BY <2>1 DEF CountInv, ThreadInv, At
  <2>6. ThreadInv'
    BY <2>1, <2>2, <2>5 DEF ThreadInv, At, Critical
  <2> QED BY <1>c, <2>1, <2>3, <2>4, <2>6 DEF CountInv
<1>7. ASSUME NEW p \in Paths, RelTest(p) PROVE CountInv'
  <2>1. /\ pc[p] = "relTest" /\ UNCHANGED <<cmutex, count, threads>>
        /\ pc'[p] = IF count = 1 THEN "relStop" ELSE "relDec"
        /\ \A q \in Paths : q # p => pc'[q] = pc[q]
    BY <1>7, Going DEF RelTest, At, PC, clients
  <2>2. cmutex = 0 /\ \A q \in Paths : q # p => pc[q] \notin Critical
    BY <1>t, <2>1 DEF CountInv, MutexInv, Critical
  <2>3. Counted' = Counted
    BY <1>r, <2>1 DEF Counted, CountedAt
  <2>4. MutexInv'
    BY <2>1, <2>2 DEF MutexInv, Critical
  <2>5. threads = IF count = 0 THEN 0 ELSE 1
    BY <2>1, <2>2 DEF CountInv, ThreadInv, Critical
  <2>6. count # 0
    BY <1>c, <1>p, <2>1, FS_EmptySet DEF Critical
  <2>7. ThreadInv'
    BY <2>1, <2>2, <2>5, <2>6 DEF ThreadInv, At, Critical
  <2> QED BY <1>c, <2>1, <2>3, <2>4, <2>7 DEF CountInv
<1>8. ASSUME NEW p \in Paths, RelStop(p) PROVE CountInv'
  <2>1. /\ pc[p] = "relStop" /\ UNCHANGED <<cmutex, count>> /\ threads' = threads - 1
        /\ pc'[p] = "relDec"
        /\ \A q \in Paths : q # p => pc'[q] = pc[q]
    BY <1>8, Going DEF RelStop, At, PC
  <2>2. cmutex = 0 /\ \A q \in Paths : q # p => pc[q] \notin Critical
    BY <1>t, <2>1 DEF CountInv, MutexInv, Critical
  <2>3. Counted' = Counted
    BY <1>r, <2>1 DEF Counted, CountedAt
  <2>4. MutexInv'
    BY <2>1, <2>2 DEF MutexInv, Critical
  <2>5. threads = 1 /\ count = 1
    BY <2>1 DEF CountInv, ThreadInv, At
  <2>6. ThreadInv'
    BY <2>1, <2>2, <2>5 DEF ThreadInv, At, Critical
  <2> QED BY <1>c, <2>1, <2>3, <2>4, <2>6 DEF CountInv
<1>9. ASSUME NEW p \in Paths, RelDec(p) PROVE CountInv'
  <2>1. /\ pc[p] = "relDec" /\ threads' = threads /\ count' = count - 1 /\ cmutex' = cmutex + 1
        /\ pc'[p] = "release"
        /\ \A q \in Paths : q # p => pc'[q] = pc[q]
    BY <1>9, Going DEF RelDec, At, PC
  <2>2. cmutex = 0 /\ \A q \in Paths : q # p => pc[q] \notin Critical
    BY <1>t, <2>1 DEF CountInv, MutexInv, Critical
  <2>3. Counted' = Counted \ {p} /\ p \in Counted
    BY <1>p, <1>r, <2>1 DEF Counted, CountedAt, Critical
  <2>4. count' = Cardinality(Counted')
    BY <1>c, <2>1, <2>3, FS_RemoveElement
  <2>5. MutexInv'
    BY <2>1, <2>2 DEF MutexInv, Critical
  <2>6. threads = IF count = 1 THEN 0 ELSE 1
    BY <2>1 DEF CountInv, ThreadInv, At
  <2>7. ThreadInv'
    BY <1>t, <2>1, <2>2, <2>6 DEF ThreadInv, At, Critical
  <2> QED BY <2>4, <2>5, <2>7 DEF CountInv
<1>10. CASE Still
  <2>1. UNCHANGED <<pc, cmutex, count, threads>>
    BY <1>10, StillPut DEF clients
  <2>2. Counted' = Counted
    BY <1>r, <2>1 DEF Counted
  <2> QED BY <1>c, <2>1, <2>2 DEF CountInv, MutexInv, ThreadInv, At
<1> QED BY <1>2, <1>3, <1>4, <1>5, <1>6, <1>7, <1>8, <1>9, <1>10 DEF Next, Still, Opening, Closing

-----------------------------------------------------------------------------
\* The buffers and the mappings, when the first opens do not overlap.
LEMMA BufStep ==
    TypeOK /\ Placed /\ GivenInv /\ BufInv /\ "together" \notin env /\ [Next]_vars => BufInv'
<1> SUFFICES ASSUME TypeOK, Placed, GivenInv, BufInv, "together" \notin env, [Next]_vars
             PROVE  BufInv'
  OBVIOUS
<1>r. minor' = minor /\ \A q \in Paths : IsAB(q)' <=> IsAB(q)
  BY RigidStep DEF rigid, IsAB
<1>t. /\ pc \in [Paths -> PC] /\ buf \in [AB -> Nat] /\ given \in Nat /\ AB = {0, 1}
      /\ held \in [Paths -> [AB -> Nat]] /\ mapped \in [Paths -> Memory]
  BY PathSets DEF TypeOK, Buffers, AB
<1> DEFINE Alloc2 == {"allocA", "allocB"}
\* A step that neither allocates nor maps, of a path that stays in its phase.
<1>1. ASSUME NEW p \in Paths, NEW l \in PC, Goto(p, l), UNCHANGED <<buf, held, mapped>>,
             l \notin Alloc2 /\ pc[p] \notin Alloc2,
             IsAB(p) /\ l # "closed" => buf[0] # 0 /\ buf[1] # 0,
             IsAB(p) /\ l \notin {"closed", "copy"} => held[p] = buf,
             IsAB(p) /\ mapped[p] # Unmapped => l \in {"open", "ioctl", "action"}
      PROVE  BufInv'
  <2>1. pc'[p] = l /\ \A q \in Paths : q # p => pc'[q] = pc[q]
    BY <1>1, Going
  <2>2. Allocating' <=> Allocating
    BY <1>1, <2>1 DEF Allocating
  <2> QED BY <1>1, <1>r, <2>1, <2>2 DEF BufInv, At
<1>2. ASSUME NEW p \in Paths, Open(p) PROVE BufInv'
  <2>1. CASE IsAB(p) /\ buf[0] = 0
    <3>1. Goto(p, "allocA") /\ UNCHANGED <<buf, held, mapped>> /\ ~ Allocating /\ pc[p] = "closed"
      BY <1>2, <2>1, Kinds DEF Open, buffers, At
    <3>2. pc'[p] = "allocA" /\ \A q \in Paths : q # p => pc'[q] = pc[q]
      BY <3>1, Going DEF PC
    <3>3. Allocating' /\ buf[1] = 0
      BY <2>1, <3>1, <3>2 DEF Allocating, BufInv
    <3>4. \A q \in Paths : IsAB(q) => pc[q] \in {"closed", "allocA", "allocB"}
      BY <2>1 DEF BufInv
    <3> QED BY <1>r, <2>1, <3>1, <3>2, <3>3, <3>4 DEF BufInv, At, Allocating
  <2>2. CASE IsAB(p) /\ buf[0] # 0
    <3>1. /\ Goto(p, "copy") /\ UNCHANGED <<buf, held, mapped>> /\ ~ Allocating /\ pc[p] = "closed"
      BY <1>2, <2>2, Kinds DEF Open, buffers, At
    <3>2. mapped[p] = Unmapped /\ buf[1] # 0
      BY <2>2, <3>1 DEF BufInv
    <3> QED BY <1>1, <2>2, <3>1, <3>2 DEF PC
  <2>3. CASE ~ IsAB(p)
    <3>1. /\ \E l \in {"openBusy", "open"} : Goto(p, l)
          /\ UNCHANGED <<buf, held, mapped>> /\ pc[p] = "closed"
      BY <1>2, <2>3 DEF Open, buffers, At
    <3> QED BY <1>1, <2>3, <3>1 DEF PC
  <2> QED BY <2>1, <2>2, <2>3
<1>3. ASSUME NEW p \in Paths, AllocA(p) PROVE BufInv'
  <2>1. /\ pc[p] = "allocA" /\ pc'[p] = "allocB" /\ \A q \in Paths : q # p => pc'[q] = pc[q]
        /\ buf'[0] = given + 1 /\ buf'[1] = buf[1] /\ UNCHANGED <<held, mapped>>
    BY <1>3, <1>t, Going DEF AllocA, Alloc, At, PC
  <2>2. /\ buf[0] = 0 /\ buf[1] = 0 /\ buf'[0] # 0
        /\ \A q \in Paths : IsAB(q) => pc[q] \in {"closed", "allocA", "allocB"}
        /\ \A q \in Paths : IsAB(q) => mapped[q] = Unmapped
        /\ \A q \in Paths : q # p => pc[q] \notin Alloc2
    BY <1>t, <2>1 DEF BufInv, At
  <2>3. Allocating'
    BY <2>1 DEF Allocating
  <2> QED BY <1>r, <2>1, <2>2, <2>3 DEF BufInv, At
<1>4. ASSUME NEW p \in Paths, AllocB(p) PROVE BufInv'
  <2>1. /\ pc[p] = "allocB" /\ pc'[p] = "copy" /\ \A q \in Paths : q # p => pc'[q] = pc[q]
        /\ buf'[1] = given + 1 /\ buf'[0] = buf[0] /\ UNCHANGED <<held, mapped>>
    BY <1>4, <1>t, Going DEF AllocB, Alloc, At, PC
  <2>2. /\ buf[0] # 0 /\ buf[1] = 0 /\ buf'[1] # 0
        /\ \A q \in Paths : IsAB(q) => pc[q] \in {"closed", "allocA", "allocB"}
        /\ \A q \in Paths : IsAB(q) => mapped[q] = Unmapped
        /\ \A q \in Paths : q # p => pc[q] \notin Alloc2
    BY <1>t, <2>1 DEF BufInv, At
  <2>3. ~ Allocating'
    BY <2>1, <2>2 DEF Allocating
  <2> QED BY <1>r, <2>1, <2>2, <2>3 DEF BufInv, At
<1>5. ASSUME NEW p \in Paths, CopyBuffers(p) PROVE BufInv'
  <2>1. /\ pc[p] = "copy" /\ pc'[p] = "openDown" /\ \A q \in Paths : q # p => pc'[q] = pc[q]
        /\ UNCHANGED <<buf, mapped>> /\ held'[p] = buf
        /\ \A q \in Paths : q # p => held'[q] = held[q]
    BY <1>5, <1>t, Going DEF CopyBuffers, At, PC
  <2>2. IsAB(p) /\ (Allocating' <=> Allocating)
    BY <2>1 DEF Placed, ABPlaces, Allocating
  <2> QED BY <1>r, <2>1, <2>2 DEF BufInv, At
<1>6. ASSUME NEW p \in Paths, Mmap(p) PROVE BufInv'
  <2>1. /\ UNCHANGED <<pc, buf, held>> /\ pc[p] = "open" /\ mapped'[p] = Target(p)
        /\ \A q \in Paths : q # p => mapped'[q] = mapped[q]
    BY <1>6, <1>t DEF Mmap, At
  <2>2. IsAB(p) => Target(p) = <<"AB", buf[minor[p] % 2]>>
    BY Kinds
  <2>3. Allocating' <=> Allocating
    BY <2>1 DEF Allocating
  <2> QED BY <1>r, <2>1, <2>2, <2>3 DEF BufInv, At
<1>7. ASSUME NEW p \in Paths, Close(p) PROVE BufInv'
  <2>1. /\ UNCHANGED <<buf, held>> /\ pc[p] = "open" /\ pc'[p] \in {"relDown", "release"}
        /\ mapped'[p] = Unmapped
        /\ \A q \in Paths : q # p => mapped'[q] = mapped[q] /\ pc'[q] = pc[q]
    BY <1>7, <1>t, Going DEF Close, At, PC
  <2>2. Allocating' <=> Allocating
    BY <2>1 DEF Allocating
  <2> QED BY <1>r, <2>1, <2>2 DEF BufInv, At
<1>8. ASSUME NEW p \in Paths, Release(p) PROVE BufInv'
  <2>1. /\ UNCHANGED <<buf, mapped>> /\ pc[p] = "release" /\ pc'[p] = "closed"
        /\ \A q \in Paths : q # p => held'[q] = held[q] /\ pc'[q] = pc[q]
    BY <1>8, <1>t, Going DEF Release, At, PC
  <2>2. Allocating' <=> Allocating
    BY <2>1 DEF Allocating
  <2> QED BY <1>r, <2>1, <2>2 DEF BufInv, At
<1>9. ASSUME NEW p \in Paths, OpenBusy(p) \/ OpenBusySignal(p) PROVE BufInv'
  <2>1. /\ \E l \in {"open", "closed"} : Goto(p, l)
        /\ UNCHANGED <<buf, held, mapped>> /\ pc[p] = "openBusy"
    BY <1>9 DEF OpenBusy, OpenBusySignal, buffers, At
  <2>2. ~ IsAB(p)
    BY <2>1, Kinds DEF Placed, At
  <2> QED BY <1>1, <2>1, <2>2 DEF PC
<1>10. ASSUME NEW p \in Paths, Ioctl(p) \/ Opening(p) \/ Working(p) \/ Closing(p) \/ Disturb(p),
              ~ OpenBusy(p), ~ OpenBusySignal(p), ~ AllocA(p), ~ AllocB(p), ~ CopyBuffers(p),
              ~ Release(p)
       PROVE  BufInv'
  <2>1. /\ \E l \in PC \ {"closed", "allocA", "allocB", "copy"} :
             Goto(p, l) /\ (pc[p] \in {"open", "ioctl", "action"} => l \in {"open", "ioctl", "action"})
        /\ UNCHANGED <<buf, held, mapped>> /\ pc[p] \notin {"closed", "allocA", "allocB", "copy"}
    BY <1>10 DEF Ioctl, Opening, Working, Closing, Disturb, OpenDown, OpenCount, OpenStart, IoctlDown,
         IoctlDone, RelDown, RelTest, RelStop, RelDec, OpenDownSignal, IoctlSignal, IoctlFault,
         RelDownSignal, At, PC, buffers
  <2>2. IsAB(p) => /\ buf[0] # 0 /\ buf[1] # 0 /\ held[p] = buf
                   /\ mapped[p] # Unmapped => pc[p] \in {"open", "ioctl", "action"}
    BY <2>1 DEF BufInv
  <2> QED BY <1>1, <2>1, <2>2
<1>11. CASE Probe \/ ProbeUp \/ UNCHANGED vars
  <2>1. UNCHANGED <<pc, buf, held, mapped>>
    BY <1>11 DEF Probe, ProbeUp, vars, buffers
  <2> QED BY <1>r, <2>1 DEF BufInv, At, Allocating
<1> QED BY <1>2, <1>3, <1>4, <1>5, <1>6, <1>7, <1>8, <1>9, <1>10, <1>11
        DEF Next, Opening, Closing, Disturb

-----------------------------------------------------------------------------
\* The inductive invariant at the start.
LEMMA ClientsInit == Init => ClientsInv
<1> SUFFICES ASSUME Init PROVE ClientsInv
  OBVIOUS
<1>1. \A p \in Paths : pc[p] = "closed" /\ mapped[p] = Unmapped
  BY DEF Init
<1>2. 0 \in Buffers /\ Cardinality(Paths) \in Nat
  BY PathSets DEF Buffers
<1>e. Cardinality({}) = 0
  BY FS_EmptySet
<1>3. TypeOK
  <2>1. [minor |-> minor, env |-> env] \in Settings
    <3>1. PICK s \in Settings : minor = s.minor /\ env = s.env
      BY DEF Init
    <3>2. s \in [minor : [Paths -> 0 .. 255], env : SUBSET Happenings]
      BY SettingsAssumption
    <3>3. s = [minor |-> s.minor, env |-> s.env]
      BY <3>2
    <3> QED BY <3>1, <3>3
  <2>2. mapped \in [Paths -> Memory]
    BY <1>2 DEF Init, Unmapped, Memory
  <2>3. held \in [Paths -> [AB -> Buffers]] /\ buf \in [AB -> Buffers] /\ given \in Buffers
    BY <1>2 DEF Init, NoBuffers
  <2>4. probing \in BOOLEAN
    BY DEF Init
  <2>5. /\ pc \in [Paths -> PC] /\ busy \in {0, 1} /\ has \subseteq Paths
        /\ cmutex \in Nat /\ count \in Int /\ threads \in Nat
    BY DEF Init, PC
  <2> QED BY <2>1, <2>2, <2>3, <2>4, <2>5 DEF TypeOK
<1>4. Placed
  BY <1>1 DEF Placed, ABPlaces, At
<1>5. GivenInv
  <2>1. AtA = {} /\ AtB = {}
    BY <1>1 DEF AtA, AtB, At
  <2>2. given = 0
    BY DEF Init
  <2>3. \A p \in Paths : ~ At(p, "allocB")
    BY <1>1 DEF At
  <2>4. given + 2 * Cardinality(AtA) + Cardinality(AtB) <= 2 * Cardinality(Paths)
    BY <1>2, <1>e, <2>1, <2>2
  <2> QED BY <2>2, <2>3, <2>4 DEF GivenInv, AtA, AtB
<1>6. BusyInv
  BY <1>1, <1>e DEF Init, BusyInv, InUse, At
<1>8. CountInv
  <2>1. Counted = {}
    BY <1>1 DEF Counted, CountedAt
  <2> QED BY <1>1, <1>e, <2>1 DEF Init, CountInv, MutexInv, ThreadInv, Critical, At
<1>9. BufInv
  <2>1. buf[0] = 0 /\ buf[1] = 0
    BY DEF Init, NoBuffers, AB
  <2> QED BY <1>1, <2>1 DEF BufInv, At
<1> QED BY <1>3, <1>4, <1>5, <1>6, <1>8, <1>9 DEF ClientsInv

\* ... and in every reachable state.
LEMMA ClientsSafe == Spec => []ClientsInv
<1>1. ClientsInv /\ [Next]_vars => ClientsInv'
  <2> SUFFICES ASSUME ClientsInv, [Next]_vars PROVE ClientsInv'
    OBVIOUS
  <2>1. TypeOK /\ Placed /\ GivenInv /\ BusyInv
    BY DEF ClientsInv
  <2>2. env' = env
    BY RigidStep DEF rigid
  <2>3. "signal" \in env' \/ CountInv'
    BY <2>1, <2>2, CountStep DEF ClientsInv
  <2>4. "together" \in env' \/ BufInv'
    BY <2>1, <2>2, BufStep DEF ClientsInv
  <2>5. TypeOK' /\ Placed' /\ GivenInv' /\ BusyInv'
    BY <2>1, TypeStep, PlacedStep, GivenStep, BusyStep
  <2> QED BY <2>3, <2>4, <2>5 DEF ClientsInv
<1> QED BY <1>1, ClientsInit, PTL DEF Spec

\* The variables have their types: the counts of the semaphores, of threads and
\* of paths stay natural numbers, and no more buffers are allocated than two
\* for each path, however opens, signals and faults interleave.
THEOREM ClientsTyped == Spec => []TypeOK
<1>1. ClientsInv => TypeOK
  BY DEF ClientsInv
<1> QED BY <1>1, ClientsSafe, PTL

\* The busy semaphore is with one path, with the reader of the attribute, or
\* free: BusyBalanced, for every set of paths and devices.
THEOREM BusySafe == Spec => []BusyBalanced
<1>1. ClientsInv => BusyBalanced
  <2> SUFFICES ASSUME ClientsInv PROVE BusyBalanced
    OBVIOUS
  <2>1. TypeOK /\ Placed /\ BusyInv
    BY DEF ClientsInv
  <2>2. ASSUME "fault" \notin env, NEW p \in Paths, pc[p] \in {"ioctl", "openBusy"}
        PROVE  p \notin has
    BY <2>1, <2>2 DEF BusyInv, InUse, At
  <2> QED BY <2>1, <2>2 DEF BusyInv, BusyBalanced
<1> QED BY <1>1, ClientsSafe, PTL

\* One path at a time uses the card's messages: ExclusiveUse, for every set of
\* paths and devices, whatever was interrupted or failed.
THEOREM UseExcludes == Spec => []ExclusiveUse
<1>1. ClientsInv => ExclusiveUse
  <2> SUFFICES ASSUME ClientsInv, NEW p \in Paths, NEW q \in Paths, InUse(p), InUse(q), p # q
               PROVE  FALSE
    BY DEF ExclusiveUse
  <2>1. p \in has /\ q \in has /\ has \in SUBSET Paths /\ busy \in {0, 1}
    BY DEF ClientsInv, BusyInv, TypeOK
  <2>2. Cardinality(has) >= 2 /\ Cardinality(has) \in Nat
    BY <2>1, TwoInSet, PathSets
  <2>3. busy + Cardinality(has) + (IF probing THEN 1 ELSE 0) = 1
    BY DEF ClientsInv, BusyInv
  <2> QED BY <2>1, <2>2, <2>3
<1> QED BY <1>1, ClientsSafe, PTL

\* The backstop thread runs while a client is there: BackstopWhileOpen.
THEOREM BackstopSafe == Spec => []BackstopWhileOpen
<1>1. ClientsInv => BackstopWhileOpen
  <2> SUFFICES ASSUME ClientsInv, "signal" \notin env
               PROVE  /\ Clients # {} => threads = 1
                      /\ (\A p \in ABPaths :
                            pc[p] \in {"closed", "allocA", "allocB", "copy", "openDown", "release"})
                           => threads = 0 /\ count = 0 /\ cmutex = 1
    BY DEF BackstopWhileOpen
  <2>1. TypeOK /\ Placed /\ CountInv
    BY DEF ClientsInv
  <2>2. IsFiniteSet(Counted) /\ count = Cardinality(Counted) /\ count \in Nat /\ Counted \in SUBSET Paths
    BY <2>1, PathSets DEF CountInv, Counted
  <2>3. ASSUME NEW c \in Clients PROVE threads = 1
    <3>1. c \in Counted /\ c \in Paths /\ pc[c] \notin {"openStart", "relDec"}
      BY <2>3 DEF Clients, ABPaths, Counted, CountedAt
    <3>2. count # 0
      BY <2>2, <3>1, FS_EmptySet
    <3>3. ASSUME NEW q \in Paths, pc[q] \in {"openStart", "relDec"} PROVE count >= 2
      <4>1. q \in Counted /\ q # c
        BY <2>1, <3>1, <3>3 DEF Placed, ABPlaces, Counted, CountedAt
      <4> QED BY <2>2, <3>1, <4>1, TwoInSet
    <3> QED BY <2>1, <2>2, <3>2, <3>3 DEF CountInv, ThreadInv, At
  <2>4. ASSUME \A p \in ABPaths :
                  pc[p] \in {"closed", "allocA", "allocB", "copy", "openDown", "release"}
        PROVE  threads = 0 /\ count = 0 /\ cmutex = 1
    <3>1. Counted = {}
      BY <2>4 DEF ABPaths, Counted, CountedAt
    <3>2. \A q \in Paths : pc[q] \notin Critical
      BY <2>1, <2>4 DEF Placed, ABPlaces, ABPaths, Critical
    <3>3. count = 0
      BY <2>2, <3>1, FS_EmptySet
    <3> QED BY <2>1, <3>2, <3>3 DEF CountInv, MutexInv, ThreadInv, Critical
  <2> QED BY <2>3, <2>4
<1> QED BY <1>1, ClientsSafe, PTL

\* What a client has mapped is what the card fills for it: MappedIsFilled.
THEOREM MappingSafe == Spec => []MappedIsFilled
<1>1. ClientsInv => MappedIsFilled
  <2> SUFFICES ASSUME ClientsInv, "together" \notin env, NEW p \in ABPaths
               PROVE  /\ mapped[p] # Unmapped => mapped[p] = <<"AB", held[p][minor[p] % 2]>>
                      /\ pc[p] \in {"open", "ioctl", "action"} =>
                            \A i \in AB : held[p][i] # 0 /\ held[p][i] = buf[i]
    BY DEF MappedIsFilled
  <2>1. TypeOK /\ BufInv /\ p \in Paths /\ IsAB(p)
    BY DEF ClientsInv, ABPaths
  <2>2. pc[p] \in {"open", "ioctl", "action"} => held[p] = buf /\ buf[0] # 0 /\ buf[1] # 0
    BY <2>1 DEF BufInv
  <2>3. mapped[p] # Unmapped =>
          pc[p] \in {"open", "ioctl", "action"} /\ mapped[p] = <<"AB", buf[minor[p] % 2]>>
    BY <2>1 DEF BufInv
  <2>4. AB = {0, 1}
    BY DEF AB
  <2> QED BY <2>2, <2>3, <2>4
<1> QED BY <1>1, ClientsSafe, PTL
=============================================================================
