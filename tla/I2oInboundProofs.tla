-------------------------- MODULE I2oInboundProofs --------------------------
(***************************************************************************)
(* Proofs about I2oInbound, for every set of message frames and every size *)
(* of the stream buffer: the handlers use the stream buffer as its         *)
(* specification requires, and, when calls of streamPut do not overlap, no *)
(* frame is lost or given to two places and no wakeup is lost.             *)
(*                                                                         *)
(* What is known of the ring comes from StreamBufProofs, of which R is an  *)
(* instance; that the put appends to and the get takes from the contents   *)
(* of the ring is all that the conservation of frames needs of it.         *)
(***************************************************************************)
EXTENDS I2oInbound, FiniteSetTheorems, SequenceTheorems, TLAPS

R == INSTANCE StreamBufProofs WITH Data <- MFAs, Invalid <- NoMfa

\* The unread words of the ring, the oldest first.
Queue == S!Contents(iget, iput)

-----------------------------------------------------------------------------
(***************************************************************************)
(* The ring, in the terms of I2oInbound.                                   *)
(***************************************************************************)
USE DEF S!Init, R!Init, S!Next, R!Next, S!vars, R!vars, S!RingInv, R!RingInv, S!TypeOK, R!TypeOK,
        S!PutBackSlotKept, R!PutBackSlotKept, S!TakesQueuedWord, R!TakesQueuedWord,
        S!OneInside, R!OneInside, S!Claim, R!Claim, S!Inside, R!Inside,
        S!IsFull, R!IsFull, S!IsEmpty, R!IsEmpty, S!Inc, R!Inc, S!Dist, R!Dist,
        S!Slots, R!Slots, S!Get0, R!Get0, S!Put0, R!Put0, S!Wrap, R!Wrap,
        S!Contents, R!Contents, S!Put, R!Put, S!Get, R!Get, S!PutBack, R!PutBack,
        S!PutCheck, R!PutCheck, S!PutStore, R!PutStore, S!PutAdvance, R!PutAdvance,
        S!PutReturn, R!PutReturn, S!GetCheck, R!GetCheck, S!GetTake, R!GetTake,
        S!GetReturn, R!GetReturn

\* The empty ring is well typed and satisfies the ring's invariant.
LEMMA RingInitHere == S!Init => S!TypeOK /\ S!RingInv
<1>1. R!Init => R!RingInv
  BY RingAssumption, MfaAssumption, R!RingInit
<1>2. R!Init => R!TypeOK
  BY RingAssumption, MfaAssumption, R!TypeInit
<1> QED BY <1>1, <1>2

\* Every step of the ring keeps its types.
LEMMA RingTypeHere == S!TypeOK /\ [S!Next]_(S!vars) => S!TypeOK'
<1>1. R!TypeOK /\ [R!Next]_(R!vars) => R!TypeOK'
  BY RingAssumption, MfaAssumption, R!TypeStep
<1> QED BY <1>1

\* When puts do not overlap, every step of the ring keeps its invariant.
LEMMA RingStepHere == S!RingInv /\ ~ Overlap /\ [S!Next]_(S!vars) => S!RingInv'
<1>1. R!RingInv /\ ~ Overlap /\ [R!Next]_(R!vars) => R!RingInv'
  BY RingAssumption, MfaAssumption, R!RingStep
<1> QED BY <1>1

\* The store of a word is not seen before the index is.
LEMMA StoreHere ==
    ASSUME S!RingInv, NEW p \in Producers, S!PutStore(p)
    PROVE  Queue' = Queue
<1>1. R!RingInv /\ R!PutStore(p)
  OBVIOUS
<1>2. R!Contents(iget, iput)' = R!Contents(iget, iput)
  BY <1>1, RingAssumption, MfaAssumption, R!StoreInvisible
<1> QED BY <1>2 DEF Queue

\* The store of the index appends the word.
LEMMA AdvanceHere ==
    ASSUME S!RingInv, NEW p \in Producers, S!PutAdvance(p)
    PROVE  pput[p].data \in MFAs /\ Queue' = Append(Queue, pput[p].data)
<1>1. R!RingInv /\ R!PutAdvance(p)
  OBVIOUS
<1>2. /\ pput[p].data \in MFAs
      /\ R!Contents(iget, iput)' = Append(R!Contents(iget, iput), pput[p].data)
  BY <1>1, RingAssumption, MfaAssumption, R!AdvanceAppends
<1> QED BY <1>2 DEF Queue

\* The locked part of streamGet takes the oldest word.
LEMMA TakeHere ==
    ASSUME S!RingInv, S!GetTake
    PROVE  /\ Queue # <<>> /\ pget'.data = Head(Queue) /\ Queue' = Tail(Queue)
<1>1. R!RingInv /\ R!GetTake
  OBVIOUS
<1>2. /\ R!Contents(iget, iput) # <<>>
      /\ pget'.data = Head(R!Contents(iget, iput))
      /\ R!Contents(iget, iput)' = Tail(R!Contents(iget, iput))
  BY <1>1, RingAssumption, MfaAssumption, R!TakeIsGet
<1> QED BY <1>2 DEF Queue

\* The contents of the ring are a sequence of NumEntries words.
LEMMA QueueSeq ==
    ASSUME S!TypeOK
    PROVE  /\ S!NumEntries \in Nat
           /\ Queue \in Seq(MFAs \cup {NoMfa}) /\ Len(Queue) = S!NumEntries
<1>1. R!TypeOK /\ iget \in R!Slots /\ iput \in R!Slots
  OBVIOUS
<1>2. /\ R!Dist(iget, iput) \in 0 .. N - 1
      /\ R!Contents(iget, iput) \in Seq(MFAs \cup {NoMfa})
      /\ Len(R!Contents(iget, iput)) = R!Dist(iget, iput)
  BY <1>1, RingAssumption, MfaAssumption, R!ContentsSeq
<1>3. R!Dist(iget, iput) \in Nat
  BY <1>2, RingAssumption
<1> QED BY <1>2, <1>3 DEF Queue, S!NumEntries

HIDE DEF S!Init, R!Init, S!Next, R!Next, S!vars, R!vars, S!RingInv, R!RingInv, S!TypeOK, R!TypeOK,
         S!PutBackSlotKept, R!PutBackSlotKept, S!TakesQueuedWord, R!TakesQueuedWord,
         S!OneInside, R!OneInside, S!Claim, R!Claim, S!Inside, R!Inside,
         S!IsFull, R!IsFull, S!IsEmpty, R!IsEmpty, S!Inc, R!Inc, S!Dist, R!Dist,
         S!Slots, R!Slots, S!Get0, R!Get0, S!Put0, R!Put0, S!Wrap, R!Wrap,
         S!Contents, R!Contents, S!Put, R!Put, S!Get, R!Get, S!PutBack, R!PutBack,
         S!PutCheck, R!PutCheck, S!PutStore, R!PutStore, S!PutAdvance, R!PutAdvance,
         S!PutReturn, R!PutReturn, S!GetCheck, R!GetCheck, S!GetTake, R!GetTake,
         S!GetReturn, R!GetReturn

-----------------------------------------------------------------------------
(***************************************************************************)
(* Counting.                                                               *)
(***************************************************************************)
Count(s, m) == Cardinality({i \in DOMAIN s : s[i] = m})

\* Whether m is in a set, as a number.
LEMMA OneOrNone ==
    \A m, T : Cardinality({m} \cap T) = IF m \in T THEN 1 ELSE 0
<1> SUFFICES ASSUME NEW m, NEW T PROVE Cardinality({m} \cap T) = IF m \in T THEN 1 ELSE 0
  OBVIOUS
<1>1. CASE m \in T
  <2>1. {m} \cap T = {m}
    BY <1>1
  <2> QED BY <1>1, <2>1, FS_Singleton
<1>2. CASE m \notin T
  <2>1. {m} \cap T = {}
    BY <1>2
  <2> QED BY <1>2, <2>1, FS_EmptySet
<1> QED BY <1>1, <1>2

\* The places of m in a sequence are finitely many.
LEMMA CountNat ==
    ASSUME NEW T, NEW s \in Seq(T), NEW m
    PROVE  IsFiniteSet({i \in DOMAIN s : s[i] = m}) /\ Count(s, m) \in Nat
<1>1. DOMAIN s = 1 .. Len(s) /\ Len(s) \in Nat
  OBVIOUS
<1>2. IsFiniteSet(1 .. Len(s))
  BY <1>1, FS_Interval
<1>3. IsFiniteSet({i \in DOMAIN s : s[i] = m})
  BY <1>1, <1>2, FS_Subset
<1> QED BY <1>3, FS_CardinalityType DEF Count

\* Appending adds one place to those of the value appended.
LEMMA CountAppend ==
    ASSUME NEW T, NEW s \in Seq(T), NEW e \in T, NEW m
    PROVE  Count(Append(s, e), m) = Count(s, m) + (IF e = m THEN 1 ELSE 0)
<1> DEFINE A == {i \in DOMAIN s : s[i] = m}
           B == {i \in DOMAIN Append(s, e) : Append(s, e)[i] = m}
<1>c. Count(s, m) = Cardinality(A) /\ Count(Append(s, e), m) = Cardinality(B)
  BY DEF Count
<1>0. IsFiniteSet(A) /\ Cardinality(A) \in Nat
  BY CountNat DEF Count
<1>1. /\ DOMAIN s = 1 .. Len(s) /\ Len(s) \in Nat
      /\ DOMAIN Append(s, e) = 1 .. Len(s) + 1
      /\ \A i \in 1 .. Len(s) : Append(s, e)[i] = s[i]
      /\ Append(s, e)[Len(s) + 1] = e
  BY AppendProperties
<1>2. CASE e = m
  <2>1. B = A \cup {Len(s) + 1} /\ Len(s) + 1 \notin A
    BY <1>1, <1>2
  <2> HIDE DEF A, B
  <2>2. Cardinality(B) = Cardinality(A) + 1
    BY <1>0, <2>1, FS_AddElement, Zenon
  <2> QED BY <1>2, <1>c, <2>2
<1>3. CASE e # m
  <2>1. B = A
    BY <1>1, <1>3
  <2> HIDE DEF A, B
  <2> QED BY <1>0, <1>3, <1>c, <2>1
<1> QED BY <1>2, <1>3

\* The tail has one place less for the value that was first.
LEMMA CountTail ==
    ASSUME NEW T, NEW s \in Seq(T), s # <<>>, NEW m
    PROVE  Count(Tail(s), m) = Count(s, m) - (IF Head(s) = m THEN 1 ELSE 0)
<1> DEFINE A == {i \in DOMAIN s : s[i] = m}
           B == {i \in DOMAIN Tail(s) : Tail(s)[i] = m}
           f == [i \in B |-> i + 1]
<1>c. Count(s, m) = Cardinality(A) /\ Count(Tail(s), m) = Cardinality(B)
  BY DEF Count
<1>0. IsFiniteSet(A) /\ Cardinality(A) \in Nat
  BY CountNat DEF Count
<1>1. /\ DOMAIN s = 1 .. Len(s) /\ Len(s) \in Nat /\ Len(s) > 0 /\ Head(s) = s[1]
      /\ Tail(s) \in Seq(T) /\ DOMAIN Tail(s) = 1 .. Len(s) - 1
      /\ \A i \in 1 .. Len(s) - 1 : Tail(s)[i] = s[i + 1]
  BY HeadTailProperties
<1>2. IsFiniteSet(B)
  BY <1>1, CountNat
<1>3. f \in Bijection(B, A \ {1})
  <2>1. f \in [B -> A \ {1}]
    BY <1>1
  <2>2. \A i, j \in B : f[i] = f[j] => i = j
    BY <1>1
  <2>3. \A j \in A \ {1} : \E i \in B : f[i] = j
    <3> SUFFICES ASSUME NEW j \in A \ {1} PROVE \E i \in B : f[i] = j
      OBVIOUS
    <3>1. j - 1 \in B /\ (j - 1) + 1 = j
      BY <1>1
    <3> QED BY <3>1
  <2> HIDE DEF A, B, f
  <2> QED BY <2>1, <2>2, <2>3 DEF Bijection, Injection, Surjection, IsInjective
<1>4. Cardinality(A \ {1}) = Cardinality(B)
  <2> HIDE DEF A, B, f
  <2> QED BY <1>2, <1>3, FS_Bijection DEF ExistsBijection
<1>5. 1 \in A <=> Head(s) = m
  BY <1>1
<1>6. Cardinality(A \ {1}) = IF 1 \in A THEN Cardinality(A) - 1 ELSE Cardinality(A)
  <2> HIDE DEF A, B, f
  <2> QED BY <1>0, FS_RemoveElement
<1> HIDE DEF A, B, f
<1> QED BY <1>0, <1>4, <1>5, <1>6, <1>c

-----------------------------------------------------------------------------
(***************************************************************************)
(* The places of the handlers and of the ring's callers go together.       *)
(***************************************************************************)

\* A producer is inside streamPut exactly when its handler has called it, with
\* the frame it has in hand; it has one in hand from the read of OQP to its
\* return.  The tasklet likewise, with streamGet and the frame of its dispatch.
Linked ==
    /\ \A p \in Producers :
         /\ pc[p] = "putting" <=> pput[p].pc # "idle"
         /\ pc[p] \in {"consume", "putting"} <=> hand[p] # NoMfa
         /\ pput[p].pc # "idle" => pput[p].data = hand[p]
    /\ tpc = "getting" <=> pget.pc # "idle"
    /\ tpc = "dispatch" <=> thand # NoMfa
    /\ pget.pc # "done" => pget.data = NoMfa

UseInv == TypeOK /\ Linked

\* The steps, with the producers that share an action under one quantifier.
LEMMA NextCases ==
    ASSUME [Next]_vars
    PROVE  \/ \E m \in MFAs : CardPost(m)
           \/ IsrEnter \/ IsrBadMfa
           \/ \E p \in Producers : \E from \in {"read", "idle"} : ReadMfa(p, from)
           \/ \E p \in Producers : Consume(p) \/ ConsumePut(p) \/ ConsumeDiscard(p)
                                   \/ ConsumeSchedule(p)
           \/ TaskletRun \/ TaskletGet \/ TaskletGot \/ TaskletReturn
           \/ UNCHANGED vars
BY DEF Next, Isr, Backstop, Tasklet, Producer, IsrRead, BackstopRead, Producers

\* At the start nobody is inside and nobody has a frame.
LEMMA UseInit == Init => UseInv /\ S!Init
<1> SUFFICES ASSUME Init PROVE UseInv /\ S!Init
  OBVIOUS
<1>1. S!Init /\ S!TypeOK
  BY RingInitHere DEF Init
<1>2. TypeOK
  <2>1. masked \in BOOLEAN /\ sched \in BOOLEAN
    BY Zenon DEF Init
  <2>2. outq \in Seq(MFAs) /\ bad \in 0 .. BadMfaThreshold + 1
    BY ThresholdAssumption DEF Init
  <2> QED BY <1>1, <2>1, <2>2 DEF Init, TypeOK
<1>3. Linked
  BY <1>1 DEF Init, Linked, S!Init, S!Put0, S!Get0
<1> QED BY <1>1, <1>2, <1>3 DEF UseInv

\* Every step of the handlers is a step of the ring or leaves it alone.
LEMMA UseStep == UseInv /\ [Next]_vars => [S!Next]_(S!vars)
<1> SUFFICES ASSUME UseInv, [Next]_vars PROVE [S!Next]_(S!vars)
  OBVIOUS
<1>0. ASSUME UNCHANGED streambuf PROVE [S!Next]_(S!vars)
  BY <1>0 DEF streambuf, S!vars
<1>1. ASSUME NEW m \in MFAs, CardPost(m) PROVE [S!Next]_(S!vars)
  BY <1>0, <1>1 DEF CardPost
<1>2. CASE IsrEnter \/ IsrBadMfa
  BY <1>0, <1>2 DEF IsrEnter, IsrBadMfa
<1>3. ASSUME NEW p \in Producers, NEW from, ReadMfa(p, from) PROVE [S!Next]_(S!vars)
  BY <1>0, <1>3 DEF ReadMfa
<1>4. ASSUME NEW p \in Producers, Consume(p) PROVE [S!Next]_(S!vars)
  <2>1. hand[p] \in MFAs
    BY <1>4 DEF UseInv, TypeOK, Linked, Consume
  <2> QED BY <1>4, <2>1 DEF Consume, S!Next, S!Put
<1>5. ASSUME NEW p \in Producers, ConsumePut(p) PROVE [S!Next]_(S!vars)
  BY <1>5 DEF ConsumePut, S!Next, S!Put
<1>6. ASSUME NEW p \in Producers, ConsumeDiscard(p) \/ ConsumeSchedule(p) PROVE [S!Next]_(S!vars)
  BY <1>6 DEF ConsumeDiscard, ConsumeSchedule, S!Next, S!Put
<1>7. CASE TaskletRun \/ TaskletReturn
  BY <1>0, <1>7 DEF TaskletRun, TaskletReturn
<1>8. CASE TaskletGet \/ TaskletGot
  BY <1>8 DEF TaskletGet, TaskletGot, S!Next, S!Get
<1>9. CASE UNCHANGED vars
  BY <1>0, <1>9 DEF vars, streambuf
<1> QED BY NextCases, <1>1, <1>2, <1>3, <1>4, <1>5, <1>6, <1>7, <1>8, <1>9

\* The link and the types are kept by every step.
LEMMA UseInvStep == UseInv /\ [Next]_vars => UseInv'
<1> SUFFICES ASSUME UseInv, [Next]_vars PROVE UseInv'
  OBVIOUS
<1> USE DEF UseInv
<1>t. S!TypeOK /\ S!TypeOK'
  BY UseStep, RingTypeHere DEF TypeOK
<1>p. /\ pput \in [Producers -> [pc : {"idle", "store", "advance", "refused", "done"},
                               data : MFAs \cup {NoMfa}, i : S!Slots]]
      /\ pget \in [pc : {"idle", "take", "done"}, data : MFAs \cup {NoMfa}]
  BY <1>t DEF S!TypeOK
<1>1. ASSUME NEW m \in MFAs, CardPost(m) PROVE UseInv'
  <2>1. TypeOK'
    BY <1>1, <1>t DEF CardPost, TypeOK, tasklet
  <2> QED BY <1>1, <2>1 DEF CardPost, Linked, tasklet, streambuf
<1>2. CASE IsrEnter \/ IsrBadMfa
  <2>0. masked' \in BOOLEAN
    BY <1>2, Zenon DEF IsrEnter, IsrBadMfa, TypeOK
  <2>1. TypeOK'
    BY <1>2, <1>t, <2>0, ThresholdAssumption DEF IsrEnter, IsrBadMfa, TypeOK, tasklet, card
  <2> QED BY <1>2, <2>1 DEF IsrEnter, IsrBadMfa, Linked, tasklet, streambuf, TypeOK
<1>3. ASSUME NEW p \in Producers, NEW from \in {"read", "idle"}, ReadMfa(p, from) PROVE UseInv'
  <2>1. Head(outq) \in MFAs /\ Tail(outq) \in Seq(MFAs)
    BY <1>3 DEF ReadMfa, TypeOK
  <2>2. TypeOK'
    BY <1>3, <1>t, <2>1, ThresholdAssumption DEF ReadMfa, TypeOK, tasklet
  <2> QED BY <1>3, <2>1, <2>2, MfaAssumption DEF ReadMfa, Linked, tasklet, streambuf, TypeOK
<1>4. ASSUME NEW p \in Producers, Consume(p) PROVE UseInv'
  <2>1. TypeOK'
    BY <1>4, <1>t DEF Consume, TypeOK, tasklet, card
  <2> QED BY <1>4, <1>p, <2>1 DEF Consume, Linked, tasklet, TypeOK, S!PutCheck, S!Put0
<1>5. ASSUME NEW p \in Producers, ConsumePut(p) PROVE UseInv'
  <2>1. TypeOK'
    BY <1>5, <1>t DEF ConsumePut, TypeOK, tasklet, card
  <2> QED BY <1>5, <1>p, <2>1 DEF ConsumePut, Linked, tasklet, TypeOK, S!PutStore, S!PutAdvance
<1>6. ASSUME NEW p \in Producers, ConsumeDiscard(p) \/ ConsumeSchedule(p) PROVE UseInv'
  <2>1. hand[p] \in MFAs
    BY <1>6 DEF TypeOK, Linked, ConsumeDiscard, ConsumeSchedule
  <2>2. TypeOK'
    BY <1>6, <1>t, <2>1 DEF ConsumeDiscard, ConsumeSchedule, TypeOK, tasklet, card
  <2> QED BY <1>6, <1>p, <2>2 DEF ConsumeDiscard, ConsumeSchedule, Linked, tasklet, TypeOK,
                                  S!PutReturn, S!Put0
<1>7. CASE TaskletRun \/ TaskletReturn
  <2>1. TypeOK'
    BY <1>7, <1>t DEF TaskletRun, TaskletReturn, TypeOK, Linked, card
  <2> QED BY <1>7, <2>1 DEF TaskletRun, TaskletReturn, Linked, streambuf, TypeOK
<1>8. CASE TaskletGet
  <2>1. TypeOK'
    BY <1>8, <1>t DEF TaskletGet, TypeOK, card
  <2> QED BY <1>8, <1>p, <2>1 DEF TaskletGet, Linked, TypeOK, S!GetCheck, S!GetTake, S!Get0
<1>9. CASE TaskletGot
  <2>1. TypeOK'
    BY <1>9, <1>t, <1>p DEF TaskletGot, TypeOK, card
  <2> QED BY <1>9, <1>p, <2>1 DEF TaskletGot, Linked, TypeOK, S!GetReturn, S!Get0
<1>10. CASE UNCHANGED vars
  BY <1>10, <1>t DEF vars, TypeOK, Linked
<1> QED BY NextCases, <1>1, <1>2, <1>3, <1>4, <1>5, <1>6, <1>7, <1>8, <1>9, <1>10

\* Types, and the link between the handlers and the ring, for every behaviour,
\* overlapping puts included.
THEOREM UseSafe == Spec => []UseInv
<1>1. Init => UseInv
  BY UseInit
<1> QED BY <1>1, UseInvStep, PTL DEF Spec

\* The interrupt handler, the backstop thread and the tasklet call the stream
\* buffer as its specification requires: every behaviour of the message path is
\* one of the ring.
THEOREM UsesRing == Spec => RingUse
<1>1. Init => S!Init
  BY UseInit
<1>2. UseInv /\ [Next]_vars => [S!Next]_(S!vars)
  BY UseStep
<1> QED BY <1>1, <1>2, UseSafe, PTL DEF Spec, RingUse, S!Spec

-----------------------------------------------------------------------------
(***************************************************************************)
(* From here on puts do not overlap.                                       *)
(***************************************************************************)

\* What the ring has for the tasklet are frames, never STREAM_MFA_INVALID.
QueuedFrames == Queue \in Seq(MFAs)

MfaInv == UseInv /\ S!RingInv /\ QueuedFrames /\ MfaConserved

\* The producers that have frame m and have not yet published it.
Carriers(m) == {p \in Producers : hand[p] = m /\ pput[p].pc # "done"}

\* Copies, as a sum of numbers.
LEMMA CopiesSum ==
    ASSUME UseInv, NEW m \in MFAs
    PROVE  /\ Copies(m) = (IF m \in cardFree THEN 1 ELSE 0) + Count(outq, m)
                           + Cardinality(Carriers(m)) + Count(Queue, m)
                           + (IF m = pget.data THEN 1 ELSE 0) + (IF m = thand THEN 1 ELSE 0)
           /\ Count(outq, m) \in Nat /\ Count(Queue, m) \in Nat
           /\ IsFiniteSet(Carriers(m)) /\ Cardinality(Carriers(m)) \in Nat
<1>1. /\ S!NumEntries \in Nat
      /\ Queue \in Seq(MFAs \cup {NoMfa}) /\ Len(Queue) = S!NumEntries
  BY QueueSeq DEF UseInv, TypeOK
<1>2. Count(Queue, m) \in Nat /\ Count(outq, m) \in Nat
  BY <1>1, CountNat DEF UseInv, TypeOK
<1>3. IsFiniteSet(Carriers(m)) /\ Cardinality(Carriers(m)) \in Nat
  <2>1. IsFiniteSet(Producers)
    <3>1. Producers = {"isr"} \cup {"backstop"}
      BY DEF Producers
    <3>2. IsFiniteSet({"isr"})
      BY FS_Singleton
    <3> QED BY <3>1, <3>2, FS_AddElement
  <2>2. Carriers(m) \in SUBSET Producers
    BY DEF Carriers
  <2>3. IsFiniteSet(Carriers(m))
    BY <2>1, <2>2, FS_Subset
  <2> QED BY <2>3, FS_CardinalityType
<1>4. Cardinality({k \in 1 .. S!NumEntries : S!Contents(iget, iput)[k] = m}) = Count(Queue, m)
  <2>1. DOMAIN Queue = 1 .. S!NumEntries
    BY <1>1
  <2> QED BY <2>1 DEF Count, Queue
<1>5. /\ Cardinality({m} \cap cardFree) = IF m \in cardFree THEN 1 ELSE 0
      /\ Cardinality({m} \cap {pget.data}) = IF m = pget.data THEN 1 ELSE 0
      /\ Cardinality({m} \cap {thand}) = IF m = thand THEN 1 ELSE 0
  BY OneOrNone
<1>6. Cardinality({p \in Producers : hand[p] = m /\ pput[p].pc # "done"}) = Cardinality(Carriers(m))
  BY DEF Carriers
<1>7. Cardinality({i \in DOMAIN outq : outq[i] = m}) = Count(outq, m)
  BY DEF Count
<1> QED BY <1>2, <1>3, <1>4, <1>5, <1>6, <1>7 DEF Copies

\* The same of the next state.
LEMMA CopiesSumNext ==
    ASSUME NEW m \in MFAs
    PROVE  UseInv' => (Copies(m) = (IF m \in cardFree THEN 1 ELSE 0) + Count(outq, m)
                           + Cardinality(Carriers(m)) + Count(Queue, m)
                           + (IF m = pget.data THEN 1 ELSE 0) + (IF m = thand THEN 1 ELSE 0))'
<1>1. UseInv => Copies(m) = (IF m \in cardFree THEN 1 ELSE 0) + Count(outq, m)
                           + Cardinality(Carriers(m)) + Count(Queue, m)
                           + (IF m = pget.data THEN 1 ELSE 0) + (IF m = thand THEN 1 ELSE 0)
  BY CopiesSum
<1> QED BY <1>1, PTL

\* At the start every frame is with the card.
LEMMA MfaInit == Init => MfaInv
<1> SUFFICES ASSUME Init PROVE MfaInv
  OBVIOUS
<1>1. UseInv /\ S!Init /\ S!RingInv
  BY UseInit, RingInitHere
<1>2. Queue = <<>>
  BY <1>1, RingAssumption DEF Queue, S!Init, S!Contents, S!Dist
<1>3. ASSUME NEW m \in MFAs PROVE Copies(m) = 1
  <2>1. Count(<<>>, m) = 0
    <3>1. {i \in DOMAIN <<>> : <<>>[i] = m} = {}
      OBVIOUS
    <3> QED BY <3>1, FS_EmptySet DEF Count
  <2>2. Carriers(m) = {}
    BY MfaAssumption DEF Carriers, Init
  <2>3. Cardinality(Carriers(m)) = 0
    BY <2>2, FS_EmptySet
  <2>4. m # pget.data /\ m # thand /\ m \in cardFree /\ outq = <<>>
    BY <1>1, MfaAssumption DEF Init, S!Init, S!Get0
  <2> QED BY <1>1, <1>2, <2>1, <2>3, <2>4, CopiesSum
<1> QED BY <1>1, <1>2, <1>3 DEF MfaInv, QueuedFrames, MfaConserved

\* A frame is counted in one place.
LEMMA OnePlace ==
    ASSUME MfaInv, NEW m \in MFAs
    PROVE  1 = (IF m \in cardFree THEN 1 ELSE 0) + Count(outq, m)
                           + Cardinality(Carriers(m)) + Count(Queue, m)
                           + (IF m = pget.data THEN 1 ELSE 0) + (IF m = thand THEN 1 ELSE 0)
BY CopiesSum DEF MfaInv, MfaConserved

\* Adding a producer to the carriers, or taking one away.
LEMMA CarriersCount ==
    ASSUME UseInv, NEW m \in MFAs, NEW p \in Producers
    PROVE  /\ p \notin Carriers(m) =>
                Cardinality(Carriers(m) \cup {p}) = Cardinality(Carriers(m)) + 1
           /\ p \in Carriers(m) =>
                Cardinality(Carriers(m) \ {p}) = Cardinality(Carriers(m)) - 1
<1>1. IsFiniteSet(Carriers(m))
  BY CopiesSum
<1> QED BY <1>1, FS_AddElement, FS_RemoveElement

\* Every step moves a frame from one place to another, or moves none.
LEMMA MfaStep == MfaInv /\ ~ Overlap /\ [Next]_vars => MfaInv'
<1> SUFFICES ASSUME MfaInv, ~ Overlap, [Next]_vars PROVE MfaInv'
  OBVIOUS
<1>u. UseInv /\ UseInv' /\ S!RingInv /\ S!RingInv'
  BY UseStep, UseInvStep, RingStepHere DEF MfaInv
<1>t. /\ pput \in [Producers -> [pc : {"idle", "store", "advance", "refused", "done"},
                               data : MFAs \cup {NoMfa}, i : S!Slots]]
      /\ pget \in [pc : {"idle", "take", "done"}, data : MFAs \cup {NoMfa}]
      /\ outq \in Seq(MFAs) /\ Queue \in Seq(MFAs) /\ Queue \in Seq(MFAs \cup {NoMfa})
      /\ hand \in [Producers -> MFAs \cup {NoMfa}] /\ thand \in MFAs \cup {NoMfa}
      /\ pc \in [Producers -> {"idle", "read", "consume", "putting"}]
  BY <1>u, QueueSeq DEF MfaInv, UseInv, TypeOK, S!TypeOK, QueuedFrames
<1>l. Linked
  BY <1>u DEF UseInv
<1>q. ASSUME UNCHANGED <<buffers, iput, iget>> PROVE Queue' = Queue
  BY <1>q DEF Queue, S!Contents, S!Dist, S!Wrap
<1> SUFFICES QueuedFrames' /\ \A m \in MFAs : Copies(m)' = 1
  BY <1>u DEF MfaInv, MfaConserved
<1>s. ASSUME QueuedFrames',
             \A m \in MFAs :
               1 = (IF m \in cardFree' THEN 1 ELSE 0) + Count(outq', m)
                   + Cardinality(Carriers(m)') + Count(Queue', m)
                   + (IF m = pget'.data THEN 1 ELSE 0) + (IF m = thand' THEN 1 ELSE 0)
      PROVE  QueuedFrames' /\ \A m \in MFAs : Copies(m)' = 1
  <2>1. ASSUME NEW m \in MFAs
        PROVE  Copies(m)' = ((IF m \in cardFree THEN 1 ELSE 0) + Count(outq, m)
                             + Cardinality(Carriers(m)) + Count(Queue, m)
                             + (IF m = pget.data THEN 1 ELSE 0) + (IF m = thand THEN 1 ELSE 0))'
    BY <1>u, CopiesSumNext
  <2> QED BY <1>s, <2>1
<1>n. \A m \in MFAs : m # NoMfa
  BY MfaAssumption
<1>o. \A m \in MFAs :
        /\ 1 = (IF m \in cardFree THEN 1 ELSE 0) + Count(outq, m)
               + Cardinality(Carriers(m)) + Count(Queue, m)
               + (IF m = pget.data THEN 1 ELSE 0) + (IF m = thand THEN 1 ELSE 0)
        /\ Count(outq, m) \in Nat /\ Count(Queue, m) \in Nat /\ Cardinality(Carriers(m)) \in Nat
  BY <1>u, OnePlace, CopiesSum
<1> DEFINE Goal == QueuedFrames' /\ \A m \in MFAs : Copies(m)' = 1
<1>k. ASSUME Queue' = Queue PROVE QueuedFrames'
  BY <1>k, <1>t DEF QueuedFrames
<1>1. ASSUME NEW x \in MFAs, CardPost(x) PROVE Goal
  <2>1. /\ Queue' = Queue /\ \A m \in MFAs : Carriers(m)' = Carriers(m)
        /\ pget' = pget /\ thand' = thand
        /\ x \in cardFree /\ cardFree' = cardFree \ {x} /\ outq' = Append(outq, x)
    BY <1>1, <1>q DEF CardPost, Carriers, streambuf, tasklet
  <2>2. \A m \in MFAs : Count(outq', m) = Count(outq, m) + (IF x = m THEN 1 ELSE 0)
    BY <1>t, <2>1, CountAppend
  <2> QED BY <1>s, <1>k, <1>o, <2>1, <2>2
<1>2. CASE IsrEnter \/ IsrBadMfa \/ TaskletRun \/ UNCHANGED vars
  <2>1. /\ Queue' = Queue /\ \A m \in MFAs : Carriers(m)' = Carriers(m)
        /\ pget' = pget /\ thand' = thand /\ cardFree' = cardFree /\ outq' = outq
    BY <1>2, <1>q DEF IsrEnter, IsrBadMfa, TaskletRun, vars, Carriers, streambuf, tasklet, card
  <2> QED BY <1>s, <1>k, <1>o, <2>1
<1>3. ASSUME NEW p \in Producers, NEW from \in {"read", "idle"}, ReadMfa(p, from) PROVE Goal
  <2>1. /\ Queue' = Queue
        /\ pget' = pget /\ thand' = thand /\ cardFree' = cardFree
        /\ outq # <<>> /\ outq' = Tail(outq) /\ Head(outq) \in MFAs
    BY <1>3, <1>q, <1>t DEF ReadMfa, streambuf, tasklet
  <2>2. \A m \in MFAs : Count(outq', m) = Count(outq, m) - (IF Head(outq) = m THEN 1 ELSE 0)
    BY <1>t, <2>1, CountTail
  <2>3. \A m \in MFAs :
          /\ p \notin Carriers(m)
          /\ Carriers(m)' = IF Head(outq) = m THEN Carriers(m) \cup {p} ELSE Carriers(m)
    BY <1>3, <1>t, <1>l, <1>n DEF ReadMfa, Carriers, Linked, streambuf
  <2>4. \A m \in MFAs : Cardinality(Carriers(m)')
                          = Cardinality(Carriers(m)) + (IF Head(outq) = m THEN 1 ELSE 0)
    BY <1>u, <1>o, <2>3, CarriersCount
  <2>5. QueuedFrames'
    BY <1>k, <2>1
  <2>6. ASSUME NEW m \in MFAs
        PROVE  1 = (IF m \in cardFree' THEN 1 ELSE 0) + Count(outq', m)
                   + Cardinality(Carriers(m)') + Count(Queue', m)
                   + (IF m = pget'.data THEN 1 ELSE 0) + (IF m = thand' THEN 1 ELSE 0)
    <3> DEFINE one == IF Head(outq) = m THEN 1 ELSE 0
    <3>1. /\ Count(outq', m) = Count(outq, m) - one
          /\ Cardinality(Carriers(m)') = Cardinality(Carriers(m)) + one
          /\ one \in Nat
      BY <2>2, <2>4
    <3>2. Queue' = Queue /\ pget' = pget /\ thand' = thand /\ cardFree' = cardFree
      BY <2>1
    <3> HIDE DEF one
    <3> QED BY <1>o, <3>1, <3>2
  <2> QED BY <1>s, <2>5, <2>6
<1>4. ASSUME NEW p \in Producers, Consume(p) PROVE Goal
  <2>1. /\ Queue' = Queue /\ pget' = pget /\ thand' = thand /\ cardFree' = cardFree /\ outq' = outq
    BY <1>4, <1>q DEF Consume, S!PutCheck, card, tasklet
  <2>2. \A m \in MFAs : Carriers(m)' = Carriers(m)
    BY <1>4, <1>t DEF Consume, S!PutCheck, S!Put0, Carriers
  <2> QED BY <1>s, <1>k, <1>o, <2>1, <2>2
<1>5. ASSUME NEW p \in Producers, ConsumePut(p), S!PutStore(p) PROVE Goal
  <2>1. /\ Queue' = Queue /\ pget' = pget /\ thand' = thand /\ cardFree' = cardFree /\ outq' = outq
    BY <1>5, <1>u, StoreHere DEF ConsumePut, S!PutStore, card, tasklet
  <2>2. \A m \in MFAs : Carriers(m)' = Carriers(m)
    BY <1>5, <1>t DEF ConsumePut, S!PutStore, Carriers
  <2> QED BY <1>s, <1>k, <1>o, <2>1, <2>2
<1>6. ASSUME NEW p \in Producers, ConsumePut(p), S!PutAdvance(p) PROVE Goal
  <2>1. /\ pget' = pget /\ thand' = thand /\ cardFree' = cardFree /\ outq' = outq
        /\ hand[p] = pput[p].data
    BY <1>6, <1>l DEF ConsumePut, S!PutAdvance, card, tasklet, Linked
  <2>2. hand[p] \in MFAs /\ Queue' = Append(Queue, hand[p])
    BY <1>6, <1>u, <2>1, AdvanceHere
  <2>3. QueuedFrames'
    BY <1>t, <2>2 DEF QueuedFrames
  <2>4. \A m \in MFAs : Count(Queue', m) = Count(Queue, m) + (IF hand[p] = m THEN 1 ELSE 0)
    BY <1>t, <2>2, CountAppend
  <2>5. \A m \in MFAs : Carriers(m)' = IF hand[p] = m THEN Carriers(m) \ {p} ELSE Carriers(m)
    BY <1>6, <1>t DEF ConsumePut, S!PutAdvance, Carriers
  <2>6. p \in Carriers(hand[p])
    BY <1>6 DEF S!PutAdvance, Carriers
  <2>7. \A m \in MFAs : Cardinality(Carriers(m)')
                          = Cardinality(Carriers(m)) - (IF hand[p] = m THEN 1 ELSE 0)
    BY <1>u, <1>o, <2>5, <2>6, CarriersCount
  <2> QED BY <1>s, <1>o, <2>1, <2>3, <2>4, <2>7
<1>7. ASSUME NEW p \in Producers, ConsumeDiscard(p) PROVE Goal
  <2>1. /\ Queue' = Queue /\ pget' = pget /\ thand' = thand /\ outq' = outq
        /\ cardFree' = cardFree \cup {hand[p]}
    BY <1>7, <1>q DEF ConsumeDiscard, S!PutReturn, tasklet
  <2>2. hand[p] \in MFAs /\ p \in Carriers(hand[p])
    BY <1>7, <1>t, <1>l DEF ConsumeDiscard, Linked, Carriers
  <2>3. \A m \in MFAs : Carriers(m)' = IF hand[p] = m THEN Carriers(m) \ {p} ELSE Carriers(m)
    BY <1>7, <1>t, <1>n DEF ConsumeDiscard, S!PutReturn, S!Put0, Carriers
  <2>4. \A m \in MFAs : Cardinality(Carriers(m)')
                          = Cardinality(Carriers(m)) - (IF hand[p] = m THEN 1 ELSE 0)
    BY <1>u, <1>o, <2>2, <2>3, CarriersCount
  <2>5. hand[p] \notin cardFree
    <3>1. IsFiniteSet(Carriers(hand[p])) /\ Carriers(hand[p]) # {}
      BY <1>u, <2>2, CopiesSum
    <3>2. Cardinality(Carriers(hand[p])) # 0
      BY <3>1, FS_EmptySet
    <3> QED BY <1>o, <2>2, <3>2
  <2> QED BY <1>s, <1>k, <1>o, <2>1, <2>2, <2>4, <2>5
<1>8. ASSUME NEW p \in Producers, ConsumeSchedule(p) PROVE Goal
  <2>1. /\ Queue' = Queue /\ pget' = pget /\ thand' = thand /\ cardFree' = cardFree /\ outq' = outq
    BY <1>8, <1>q DEF ConsumeSchedule, S!PutReturn, card
  <2>2. \A m \in MFAs : Carriers(m)' = Carriers(m)
    BY <1>8, <1>t, <1>n DEF ConsumeSchedule, S!PutReturn, S!Put0, Carriers
  <2> QED BY <1>s, <1>k, <1>o, <2>1, <2>2
<1>9. CASE TaskletGet /\ S!GetCheck
  <2>1. /\ Queue' = Queue /\ thand' = thand /\ cardFree' = cardFree /\ outq' = outq
        /\ pget'.data = NoMfa /\ pget.data = NoMfa
    BY <1>9, <1>q, <1>l DEF TaskletGet, S!GetCheck, S!Get0, card, Linked
  <2>2. \A m \in MFAs : Carriers(m)' = Carriers(m)
    BY <1>9 DEF TaskletGet, S!GetCheck, Carriers
  <2> QED BY <1>s, <1>k, <1>o, <2>1, <2>2
<1>10. CASE TaskletGet /\ S!GetTake
  <2>1. /\ thand' = thand /\ cardFree' = cardFree /\ outq' = outq /\ pget.data = NoMfa
    BY <1>10, <1>l DEF TaskletGet, S!GetTake, card, Linked
  <2>2. Queue # <<>> /\ Queue' = Tail(Queue) /\ pget'.data = Head(Queue)
    BY <1>10, <1>u, TakeHere
  <2>3. QueuedFrames'
    BY <1>t, <2>2 DEF QueuedFrames
  <2>4. \A m \in MFAs : Count(Queue', m) = Count(Queue, m) - (IF Head(Queue) = m THEN 1 ELSE 0)
    BY <1>t, <2>2, CountTail
  <2>5. \A m \in MFAs : Carriers(m)' = Carriers(m)
    BY <1>10 DEF TaskletGet, S!GetTake, Carriers
  <2> QED BY <1>s, <1>o, <1>n, <2>1, <2>2, <2>3, <2>4, <2>5
<1>11. CASE TaskletGot
  <2>1. /\ Queue' = Queue /\ cardFree' = cardFree /\ outq' = outq
        /\ thand = NoMfa /\ thand' = pget.data /\ pget'.data = NoMfa
    BY <1>11, <1>q, <1>l DEF TaskletGot, S!GetReturn, S!Get0, card, Linked
  <2>2. \A m \in MFAs : Carriers(m)' = Carriers(m)
    BY <1>11 DEF TaskletGot, S!GetReturn, Carriers
  <2> QED BY <1>s, <1>k, <1>o, <1>n, <2>1, <2>2
<1>12. CASE TaskletReturn
  <2>1. /\ Queue' = Queue /\ outq' = outq /\ pget' = pget
        /\ cardFree' = cardFree \cup {thand} /\ thand' = NoMfa /\ thand \in MFAs
    BY <1>12, <1>q, <1>l, <1>t DEF TaskletReturn, streambuf, Linked
  <2>2. \A m \in MFAs : Carriers(m)' = Carriers(m)
    BY <1>12 DEF TaskletReturn, streambuf, Carriers
  <2>3. thand \notin cardFree
    BY <1>o, <2>1
  <2> QED BY <1>s, <1>k, <1>o, <1>n, <2>1, <2>2, <2>3
<1>13. TaskletGet => S!GetCheck \/ S!GetTake
  BY DEF TaskletGet
<1>14. \A p \in Producers : ConsumePut(p) => S!PutStore(p) \/ S!PutAdvance(p)
  BY DEF ConsumePut
<1> QED BY NextCases, <1>1, <1>2, <1>3, <1>4, <1>5, <1>6, <1>7, <1>8, <1>9, <1>10, <1>11, <1>12,
           <1>13, <1>14

\* When calls of streamPut do not overlap, no frame is lost and none is in two
\* places, from the outbound queue of the card over the interrupt handler or the
\* backstop thread, the ring and the tasklet back to the card, whatever frames
\* the card posts, however the ring fills up and whichever reads are bad.
THEOREM FramesConserved == ~ Overlap => (Spec => []MfaConserved)
<1> SUFFICES ASSUME ~ Overlap PROVE Spec => []MfaConserved
  OBVIOUS
<1>1. MfaInv /\ [Next]_vars => MfaInv'
  BY MfaStep
<1>2. MfaInv => MfaConserved
  BY DEF MfaInv
<1> QED BY MfaInit, <1>1, <1>2, PTL DEF Spec

-----------------------------------------------------------------------------
\* Every step leaves somebody who will come for the frames in the ring.
LEMMA WakeupStep == MfaInv /\ NoLostWakeup /\ [Next]_vars => NoLostWakeup'
<1> SUFFICES ASSUME MfaInv, NoLostWakeup, [Next]_vars PROVE NoLostWakeup'
  OBVIOUS
<1>t. /\ pput \in [Producers -> [pc : {"idle", "store", "advance", "refused", "done"},
                               data : MFAs \cup {NoMfa}, i : S!Slots]]
      /\ pget \in [pc : {"idle", "take", "done"}, data : MFAs \cup {NoMfa}]
      /\ Queue \in Seq(MFAs)
  BY DEF MfaInv, UseInv, TypeOK, S!TypeOK, QueuedFrames
<1>l. Linked
  BY DEF MfaInv, UseInv
<1>n. ASSUME UNCHANGED <<iput, iget>> PROVE S!NumEntries' = S!NumEntries
  BY <1>n DEF S!NumEntries, S!Dist
<1>1. ASSUME UNCHANGED <<sched, tpc, streambuf>> PROVE NoLostWakeup'
  BY <1>1, <1>n DEF NoLostWakeup, streambuf
<1>2. ASSUME \/ \E m \in MFAs : CardPost(m)
             \/ IsrEnter \/ IsrBadMfa
             \/ \E p \in Producers : \E from \in {"read", "idle"} : ReadMfa(p, from)
             \/ UNCHANGED vars
      PROVE  NoLostWakeup'
  BY <1>1, <1>2 DEF CardPost, IsrEnter, IsrBadMfa, ReadMfa, vars, tasklet, streambuf
<1>3. ASSUME NEW p \in Producers, Consume(p) PROVE NoLostWakeup'
  BY <1>3, <1>n, <1>t DEF Consume, S!PutCheck, S!Put0, NoLostWakeup, tasklet
<1>4. ASSUME NEW p \in Producers, ConsumePut(p) PROVE NoLostWakeup'
  <2>1. CASE S!PutStore(p)
    BY <1>4, <2>1, <1>n, <1>t DEF ConsumePut, S!PutStore, NoLostWakeup, tasklet
  <2>2. CASE S!PutAdvance(p)
    BY <1>4, <2>2, <1>t DEF ConsumePut, S!PutAdvance, NoLostWakeup
  <2> QED BY <1>4, <2>1, <2>2 DEF ConsumePut
<1>5. ASSUME NEW p \in Producers, ConsumeDiscard(p) PROVE NoLostWakeup'
  BY <1>5, <1>n, <1>t DEF ConsumeDiscard, S!PutReturn, S!Put0, NoLostWakeup, tasklet
<1>6. ASSUME NEW p \in Producers, ConsumeSchedule(p) PROVE NoLostWakeup'
  BY <1>6 DEF ConsumeSchedule, NoLostWakeup
<1>7. CASE TaskletRun
  BY <1>7, <1>n, <1>l DEF TaskletRun, NoLostWakeup, streambuf, Linked
<1>8. CASE TaskletGet /\ S!GetCheck
  <2>1. S!IsEmpty => S!NumEntries = 0
    BY RingAssumption DEF S!IsEmpty, S!NumEntries, S!Dist, MfaInv, UseInv, TypeOK, S!TypeOK, S!Slots
  <2> QED BY <1>8, <1>n, <1>l, <2>1 DEF TaskletGet, S!GetCheck, S!Get0, NoLostWakeup, Linked
<1>9. CASE TaskletGet /\ S!GetTake
  <2>1. Queue # <<>> /\ pget'.data = Head(Queue)
    BY <1>9, TakeHere DEF MfaInv
  <2>2. pget'.data # NoMfa
    BY <1>t, <2>1, MfaAssumption
  <2>3. tpc' # "idle"
    BY <1>9 DEF TaskletGet
  <2> QED BY <2>2, <2>3 DEF NoLostWakeup
<1>10. CASE TaskletGot
  BY <1>10, <1>n, <1>l DEF TaskletGot, S!GetReturn, S!Get0, NoLostWakeup, Linked
<1>11. CASE TaskletReturn
  BY <1>11, <1>n, <1>l DEF TaskletReturn, NoLostWakeup, streambuf, Linked
<1>12. TaskletGet => S!GetCheck \/ S!GetTake
  BY DEF TaskletGet
<1> QED BY NextCases, <1>2, <1>3, <1>4, <1>5, <1>6, <1>7, <1>8, <1>9, <1>10, <1>11, <1>12

\* When calls of streamPut do not overlap, a frame in the ring is never left
\* behind by a tasklet that has just looked: tasklet_schedule comes after the
\* index, and the tasklet ends only after it has seen the ring empty.
THEOREM WakeupKept == ~ Overlap => (Spec => []NoLostWakeup)
<1> SUFFICES ASSUME ~ Overlap PROVE Spec => []NoLostWakeup
  OBVIOUS
<1>1. MfaInv /\ [Next]_vars => MfaInv'
  BY MfaStep
<1>2. Init => NoLostWakeup
  BY DEF Init, S!Init, NoLostWakeup, S!NumEntries, S!Dist
<1> QED BY MfaInit, WakeupStep, <1>1, <1>2, PTL DEF Spec
=============================================================================
