--------------------------- MODULE StreamBufProofs ---------------------------
(***************************************************************************)
(* Proofs about StreamBuf, for every ring size, every set of words and     *)
(* every set of producers: the type invariant, and, when producers do not  *)
(* overlap, the safety of the put-back slot, of the unlocked test in       *)
(* genericIntBufGet, and the implementation of the bounded FIFO queue.     *)
(***************************************************************************)
EXTENDS StreamBuf, SequenceTheorems, TLAPS

\* The ring has at least two slots.
LEMMA NAtLeast2 == N \in Nat /\ N >= 2
BY NAssumption

\* Inc stays in the ring and only wraps at the last slot.
LEMMA IncWraps ==
    ASSUME NEW i \in Slots
    PROVE  Inc(i) \in Slots /\ Inc(i) = IF i = N - 1 THEN 0 ELSE i + 1
<1>1. CASE i = N - 1
  <2>1. (i + 1) % N = 0
    BY <1>1, NAtLeast2, SMT
  <2> QED BY <1>1, <2>1, NAtLeast2 DEF Inc, Slots
<1>2. CASE i # N - 1
  <2>1. (i + 1) % N = i + 1
    BY <1>2, NAtLeast2, SMT DEF Slots
  <2> QED BY <1>2, <2>1, NAtLeast2 DEF Inc, Slots
<1> QED BY <1>1, <1>2

-----------------------------------------------------------------------------
\* The initial ring is well typed.
LEMMA TypeInit == Init => TypeOK
BY NAtLeast2 DEF Init, TypeOK, Slots, Put0, Get0

\* Every step of a producer or of the consumer keeps the types.
LEMMA TypeStep == TypeOK /\ [Next]_vars => TypeOK'
<1> SUFFICES ASSUME TypeOK, [Next]_vars PROVE TypeOK'
  OBVIOUS
<1>1. ASSUME NEW p \in Producers, NEW d \in Data, PutCheck(p, d) PROVE TypeOK'
  BY <1>1 DEF TypeOK, PutCheck, Put0
<1>2. ASSUME NEW p \in Producers, PutStore(p) PROVE TypeOK'
  BY <1>2 DEF TypeOK, PutStore
<1>3. ASSUME NEW p \in Producers, PutAdvance(p) PROVE TypeOK'
  <2>1. pput[p].i \in Slots
    BY DEF TypeOK
  <2>2. iput' \in Slots
    BY <1>3, <2>1, IncWraps DEF PutAdvance
  <2> QED BY <1>3, <2>2 DEF TypeOK, PutAdvance
<1>4. ASSUME NEW p \in Producers, PutReturn(p) PROVE TypeOK'
  BY <1>4, NAtLeast2 DEF TypeOK, PutReturn, Put0, Slots
<1>5. CASE GetCheck
  BY <1>5 DEF TypeOK, GetCheck, Get0
<1>6. CASE GetTake
  <2>1. iget' \in Slots
    BY <1>6, IncWraps DEF GetTake, TypeOK
  <2> QED BY <1>6, <2>1 DEF TypeOK, GetTake, Get0
<1>7. CASE GetReturn
  BY <1>7 DEF TypeOK, GetReturn, Get0
<1>8. CASE PutBack
  BY <1>8 DEF TypeOK, PutBack
<1>9. CASE UNCHANGED vars
  BY <1>9 DEF TypeOK, vars
<1> QED BY <1>1, <1>2, <1>3, <1>4, <1>5, <1>6, <1>7, <1>8, <1>9 DEF Next, Put, Get

\* Whatever the interleaving of producers and consumer, even with several
\* producers inside genericIntBufPut, every index stays inside the ring.
THEOREM TypeCorrect == Spec => []TypeOK
BY TypeInit, TypeStep, PTL DEF Spec

-----------------------------------------------------------------------------
\* From here on producers do not overlap.

\* The empty ring satisfies the inductive invariant.
LEMMA RingInit == Init => RingInv
<1> SUFFICES ASSUME Init PROVE RingInv
  OBVIOUS
<1>1. TypeOK
  BY TypeInit
<1>2. PutBackSlotKept
  BY DEF Init, PutBackSlotKept, Dist
<1>3. TakesQueuedWord
  BY DEF Init, TakesQueuedWord, Get0
<1>4. \A p \in Producers : ~ Inside(p)
  BY DEF Init, Inside, Put0
<1> QED BY <1>1, <1>2, <1>3, <1>4 DEF RingInv, OneInside, Claim

\* Every step keeps the inductive invariant.
LEMMA RingStep == RingInv /\ ~ Overlap /\ [Next]_vars => RingInv'
<1> SUFFICES ASSUME RingInv, ~ Overlap, [Next]_vars PROVE RingInv'
  OBVIOUS
<1> USE NAtLeast2
<1>0. TypeOK /\ TypeOK'
  BY TypeStep DEF RingInv
<1>i. /\ iput \in Slots /\ iget \in Slots /\ iputback \in Slots
      /\ Inc(iput) \in Slots /\ Inc(iput) = IF iput = N - 1 THEN 0 ELSE iput + 1
      /\ Inc(iget) \in Slots /\ Inc(iget) = IF iget = N - 1 THEN 0 ELSE iget + 1
  BY <1>0, IncWraps DEF TypeOK
<1>1. ASSUME NEW p \in Producers, NEW d \in Data, PutCheck(p, d) PROVE RingInv'
  <2>1. PutBackSlotKept' /\ TakesQueuedWord'
    BY <1>1 DEF PutCheck, RingInv, PutBackSlotKept, TakesQueuedWord, IsEmpty, Dist
  <2>2. \A o \in Producers : o # p => ~ Inside(o)'
    BY <1>0, <1>1 DEF PutCheck, Inside, TypeOK, Put0
  <2>3. Claim(p)'
    BY <1>0, <1>1 DEF PutCheck, Claim, Inside, TypeOK, Put0, IsFull
  <2> QED BY <1>0, <2>1, <2>2, <2>3 DEF RingInv, OneInside, Claim
<1>2. ASSUME NEW p \in Producers, PutStore(p) PROVE RingInv'
  <2>1. PutBackSlotKept' /\ TakesQueuedWord'
    BY <1>2 DEF PutStore, RingInv, PutBackSlotKept, TakesQueuedWord, IsEmpty, Dist
  <2>2. Inside(p) /\ \A o \in Producers : o # p => ~ Inside(o)
    BY <1>2 DEF RingInv, OneInside, PutStore, Inside
  <2>3. \A o \in Producers : o # p => ~ Inside(o)'
    BY <1>0, <1>2, <2>2 DEF PutStore, Inside, TypeOK
  <2>4. pput[p].i = iput /\ pput[p].data \in Data /\ ~ IsFull
    BY <2>2 DEF RingInv, Claim
  <2>5. /\ pput'[p].i = pput[p].i /\ pput'[p].data = pput[p].data
        /\ buffers'[iput] = pput[p].data
    BY <1>0, <1>2, <2>4 DEF PutStore, TypeOK
  <2>6. Claim(p)'
    BY <1>2, <2>4, <2>5 DEF PutStore, Claim, IsFull
  <2> QED BY <1>0, <2>1, <2>3, <2>6 DEF RingInv, OneInside, Claim
<1>3. ASSUME NEW p \in Producers, PutAdvance(p) PROVE RingInv'
  <2>1. Inside(p) /\ \A o \in Producers : o # p => ~ Inside(o)
    BY <1>3 DEF RingInv, OneInside, PutAdvance, Inside
  <2>2. \A o \in Producers : ~ Inside(o)'
    BY <1>0, <1>3, <2>1 DEF PutAdvance, Inside, TypeOK
  <2>3. pput[p].i = iput /\ Inc(iput) # iputback
    BY <2>1 DEF RingInv, Claim, IsFull
  <2>4. iput' = Inc(iput) /\ iget' = iget /\ iputback' = iputback
    BY <1>3, <2>3 DEF PutAdvance
  <2>5. PutBackSlotKept'
    BY <1>i, <2>3, <2>4 DEF RingInv, PutBackSlotKept, Dist, Slots
  <2>6. TakesQueuedWord'
    BY <1>3, <1>i, <2>3, <2>4 DEF RingInv, TakesQueuedWord, PutAdvance, IsEmpty, PutBackSlotKept, Dist, Slots
  <2> QED BY <1>0, <2>2, <2>5, <2>6 DEF RingInv, OneInside, Claim
<1>4. ASSUME NEW p \in Producers, PutReturn(p) PROVE RingInv'
  <2>1. PutBackSlotKept' /\ TakesQueuedWord'
    BY <1>4 DEF PutReturn, RingInv, PutBackSlotKept, TakesQueuedWord, IsEmpty, Dist
  <2>2. ~ Inside(p)'
    BY <1>0, <1>4 DEF PutReturn, Inside, TypeOK, Put0
  <2>3. \A o \in Producers : o # p => pput'[o] = pput[o]
    BY <1>0, <1>4 DEF PutReturn, TypeOK
  <2>4. \A o \in Producers : o # p => (Inside(o)' <=> Inside(o)) /\ Claim(o)'
    BY <1>4, <2>3 DEF PutReturn, RingInv, Claim, Inside, IsFull
  <2> QED BY <1>0, <2>1, <2>2, <2>4 DEF RingInv, OneInside, Claim
<1>5. CASE GetCheck
  <2>1. PutBackSlotKept' /\ TakesQueuedWord'
    BY <1>0, <1>5 DEF GetCheck, RingInv, PutBackSlotKept, TakesQueuedWord, IsEmpty, Dist, Get0
  <2> QED BY <1>0, <1>5, <2>1 DEF RingInv, OneInside, Claim, GetCheck, Inside, IsFull
<1>6. CASE GetTake
  <2>1. iget # iput
    BY <1>6 DEF RingInv, TakesQueuedWord, GetTake, IsEmpty
  <2>2. iput' = iput /\ iget' = Inc(iget) /\ iputback' = iget
    BY <1>6 DEF GetTake
  <2>3. PutBackSlotKept'
    BY <1>i, <2>1, <2>2 DEF RingInv, PutBackSlotKept, Dist, Slots
  <2>4. TakesQueuedWord'
    BY <1>6 DEF GetTake, TakesQueuedWord, Get0
  <2>5. ~ IsFull => ~ IsFull'
    BY <1>6, <1>i, <2>1, <2>2 DEF IsFull, RingInv, PutBackSlotKept, Dist, Slots
  <2> QED BY <1>0, <1>6, <2>3, <2>4, <2>5 DEF RingInv, OneInside, Claim, GetTake, Inside
<1>7. CASE GetReturn
  <2>1. PutBackSlotKept' /\ TakesQueuedWord'
    BY <1>0, <1>7 DEF GetReturn, RingInv, PutBackSlotKept, TakesQueuedWord, IsEmpty, Dist, Get0
  <2> QED BY <1>0, <1>7, <2>1 DEF RingInv, OneInside, Claim, GetReturn, Inside, IsFull
<1>8. CASE PutBack
  <2>1. PutBackSlotKept'
    BY <1>8, <1>i DEF PutBack, RingInv, PutBackSlotKept, Dist, Slots
  <2>2. TakesQueuedWord'
    BY <1>8 DEF PutBack, TakesQueuedWord
  <2> QED BY <1>0, <1>8, <2>1, <2>2 DEF RingInv, OneInside, Claim, PutBack, Inside, IsFull
<1>9. CASE UNCHANGED vars
  BY <1>0, <1>9 DEF vars, RingInv, PutBackSlotKept, TakesQueuedWord, IsEmpty, Dist,
                    OneInside, Claim, Inside, IsFull
<1> QED BY <1>1, <1>2, <1>3, <1>4, <1>5, <1>6, <1>7, <1>8, <1>9 DEF Next, Put, Get

\* The inductive invariant holds as long as producers do not overlap.
THEOREM RingSafe == ~ Overlap => (Spec => []RingInv)
<1> SUFFICES ASSUME ~ Overlap PROVE Spec => []RingInv
  OBVIOUS
<1>1. RingInv /\ [Next]_vars => RingInv'
  BY RingStep
<1> QED BY RingInit, <1>1, PTL DEF Spec

\* As long as producers do not overlap, the slot genericIntBufPutBack returns
\* to is never given to a put, for every ring size.
THEOREM PutBackSafe == ~ Overlap => (Spec => []PutBackSlotKept)
<1>1. RingInv => PutBackSlotKept
  BY DEF RingInv
<1> QED BY RingSafe, <1>1, PTL

\* As long as producers do not overlap, the test for empty that
\* genericIntBufGet makes before it takes the lock still holds under the lock.
THEOREM UnlockedTestSafe == ~ Overlap => (Spec => []TakesQueuedWord)
<1>1. RingInv => TakesQueuedWord
  BY DEF RingInv
<1> QED BY RingSafe, <1>1, PTL

-----------------------------------------------------------------------------
\* A put is refused only when at most two slots do not hold unread words.
THEOREM RefusalSafe == ~ Overlap => (Spec => RefusedOnlyWhenFull)
<1> DEFINE A == \A p \in Producers : pput'[p].pc = "refused" /\ pput[p].pc # "refused"
                   => NumEntries >= N - 2
<1>1. RingInv /\ [Next]_vars => [A]_vars
  <2> SUFFICES ASSUME RingInv, Next, NEW p \in Producers,
                      pput'[p].pc = "refused", pput[p].pc # "refused"
               PROVE  NumEntries >= N - 2
    OBVIOUS
  <2> USE NAtLeast2
  <2>0. TypeOK
    BY DEF RingInv
  <2>1. IsFull
    BY <2>0 DEF Next, Put, Get, PutCheck, PutStore, PutAdvance, PutReturn, GetCheck, GetTake,
                GetReturn, PutBack, Put0, TypeOK
  <2>2. Inc(iput) = IF iput = N - 1 THEN 0 ELSE iput + 1
    BY <2>0, IncWraps DEF TypeOK
  <2> QED BY <2>0, <2>1, <2>2 DEF RingInv, PutBackSlotKept, IsFull, NumEntries, Dist, TypeOK, Slots
<1>2. (Spec => []RingInv) => (Spec => [][A]_vars)
  BY <1>1, PTL DEF Spec
<1> QED BY <1>2, RingSafe DEF RefusedOnlyWhenFull

-----------------------------------------------------------------------------
(***************************************************************************)
(* The ring implements BoundedFifo.                                        *)
(***************************************************************************)

\* The tail of a sequence, as a function.
LEMMA TailAsFunction ==
    ASSUME NEW S, NEW s \in Seq(S), Len(s) > 0
    PROVE  Tail(s) = [k \in 1 .. Len(s) - 1 |-> s[k + 1]]
<1>1. s # <<>>
  OBVIOUS
<1>2. /\ Tail(s) \in Seq(S) /\ Len(Tail(s)) = Len(s) - 1
      /\ \A i \in 1 .. Len(Tail(s)) : Tail(s)[i] = s[i + 1]
  BY <1>1, HeadTailProperties
<1>3. Tail(s) \in [1 .. Len(Tail(s)) -> S]
  BY <1>2, LenProperties
<1> QED BY <1>2, <1>3

\* A sequence with one element put in front, as a function.
LEMMA ConsAsFunction ==
    ASSUME NEW S, NEW s \in Seq(S), NEW e \in S
    PROVE  <<e>> \o s = [k \in 1 .. Len(s) + 1 |-> IF k <= 1 THEN e ELSE s[k - 1]]
<1> DEFINE t == <<e>>
<1>1. t \in Seq(S) /\ Len(t) = 1 /\ t[1] = e /\ Len(s) \in Nat
  BY LenProperties
<1> HIDE DEF t
<1>2. /\ t \o s \in Seq(S) /\ Len(t \o s) = 1 + Len(s)
      /\ \A i \in 1 .. 1 + Len(s) : (t \o s)[i] = IF i <= 1 THEN t[i] ELSE s[i - 1]
  <2>1. /\ t \o s \in Seq(S) /\ Len(t \o s) = Len(t) + Len(s)
        /\ \A i \in 1 .. Len(t) + Len(s) :
               (t \o s)[i] = IF i <= Len(t) THEN t[i] ELSE s[i - Len(t)]
    BY <1>1, ConcatProperties, Zenon
  <2> QED BY <2>1, <1>1
<1>3. t \o s \in [1 .. Len(s) + 1 -> S]
  <2>1. t \o s \in [1 .. Len(t \o s) -> S]
    BY <1>2, LenProperties, Zenon
  <2> QED BY <2>1, <1>1, <1>2
<1>4. \A i \in 1 .. Len(s) + 1 : (t \o s)[i] = IF i <= 1 THEN e ELSE s[i - 1]
  BY <1>1, <1>2
<1>5. t \o s = [k \in 1 .. Len(s) + 1 |-> IF k <= 1 THEN e ELSE s[k - 1]]
  BY <1>3, <1>4
<1> QED BY <1>5 DEF t

\* The words between two slots form a sequence as long as their distance.
LEMMA ContentsSeq ==
    ASSUME TypeOK, NEW a \in Slots, NEW b \in Slots
    PROVE  /\ Dist(a, b) \in 0 .. N - 1
           /\ \A k \in 1 .. Dist(a, b) : Wrap(a + k - 1) \in Slots
           /\ Contents(a, b) \in Seq(Data \cup {Invalid})
           /\ Len(Contents(a, b)) = Dist(a, b)
<1> USE NAtLeast2
<1>1. Dist(a, b) \in 0 .. N - 1
  BY DEF Dist, Slots
<1>2. \A k \in 1 .. Dist(a, b) : Wrap(a + k - 1) \in Slots
  BY <1>1 DEF Dist, Slots, Wrap
<1>3. Contents(a, b) \in [1 .. Dist(a, b) -> Data \cup {Invalid}]
  BY <1>1, <1>2 DEF Contents, TypeOK
<1> QED BY <1>1, <1>2, <1>3

\* The empty ring maps to the empty queue.
LEMMA FifoInit == Init => Fifo!Init
<1> SUFFICES ASSUME Init PROVE Contents(0, 0) = <<>>
  BY DEF Init, Fifo!Init
<1> QED BY NAtLeast2 DEF Contents, Dist

\* Publishing the index appends the stored word to the abstract queue.
LEMMA AdvanceAppends ==
    ASSUME RingInv, NEW p \in Producers, PutAdvance(p)
    PROVE  /\ Fifo!Put
           /\ pput[p].data \in Data
           /\ Contents(iget, iput)' = Append(Contents(iget, iput), pput[p].data)
<1> USE NAtLeast2
<1>0. TypeOK /\ TypeOK'
  <2>1. [Next]_vars
    BY DEF Next, Put
  <2> QED BY <2>1, TypeStep DEF RingInv
<1>1. /\ pput[p].i = iput /\ pput[p].data \in Data /\ Inc(iput) # iputback
      /\ buffers[iput] = pput[p].data
  BY DEF RingInv, Claim, Inside, PutAdvance, IsFull
<1>2. Inc(iput) \in Slots /\ Inc(iput) = IF iput = N - 1 THEN 0 ELSE iput + 1
  BY <1>0, IncWraps DEF TypeOK
<1>3. iput' = Inc(iput) /\ iget' = iget /\ iputback' = iputback /\ buffers' = buffers
  BY <1>1 DEF PutAdvance
<1>4. /\ iput \in Slots /\ iget \in Slots /\ iputback \in Slots
      /\ Dist(iputback, iget) + Dist(iget, iput) = Dist(iputback, iput)
  BY <1>0 DEF TypeOK, RingInv, PutBackSlotKept
<1>5. Dist(iget, iput') = Dist(iget, iput) + 1 /\ Dist(iputback, iput) < N - 1
  BY <1>1, <1>2, <1>3, <1>4 DEF Dist, Slots
<1>6. Wrap(iget + Dist(iget, iput)) = iput
  BY <1>4 DEF Wrap, Dist, Slots
<1>7. /\ Contents(iget, iput) \in Seq(Data \cup {Invalid})
      /\ Len(Contents(iget, iput)) = Dist(iget, iput)
      /\ Dist(iget, iput) \in Nat
      /\ Len(Contents(iputback, iget)) = Dist(iputback, iget)
  <2>1. /\ Contents(iget, iput) \in Seq(Data \cup {Invalid})
        /\ Len(Contents(iget, iput)) = Dist(iget, iput)
        /\ Dist(iget, iput) \in 0 .. N - 1
    BY <1>0, <1>4, ContentsSeq, Zenon
  <2>2. Len(Contents(iputback, iget)) = Dist(iputback, iget)
    BY <1>0, <1>4, ContentsSeq, Zenon
  <2> QED BY <2>1, <2>2
<1>8. Contents(iget, iput)' = [k \in 1 .. Dist(iget, iput) + 1 |-> buffers[Wrap(iget + k - 1)]]
  BY <1>3, <1>5 DEF Contents, Dist, Wrap
<1>9. Append(Contents(iget, iput), pput[p].data)
        = [k \in 1 .. Dist(iget, iput) + 1 |-> buffers[Wrap(iget + k - 1)]]
  <2>1. Append(Contents(iget, iput), pput[p].data)
          = [k \in 1 .. Dist(iget, iput) + 1 |->
               IF k <= Dist(iget, iput) THEN Contents(iget, iput)[k] ELSE pput[p].data]
    BY <1>7
  <2>2. \A k \in 1 .. Dist(iget, iput) : Contents(iget, iput)[k] = buffers[Wrap(iget + k - 1)]
    BY DEF Contents
  <2>3. buffers[Wrap(iget + (Dist(iget, iput) + 1) - 1)] = pput[p].data
    BY <1>1, <1>4, <1>6, <1>7 DEF Slots
  <2> QED BY <2>1, <2>2, <2>3, <1>7
<1>10. Contents(iget, iput)' = Append(Contents(iget, iput), pput[p].data)
  BY <1>8, <1>9
<1>11. Contents(iputback, iget)' = Contents(iputback, iget)
  BY <1>3 DEF Contents, Dist, Wrap
<1> QED BY <1>1, <1>4, <1>5, <1>7, <1>10, <1>11 DEF Fifo!Put

\* Storing the word in the free slot at iput changes nothing a reader can see.
LEMMA StoreInvisible ==
    ASSUME RingInv, NEW p \in Producers, PutStore(p)
    PROVE  UNCHANGED <<Contents(iget, iput), Contents(iputback, iget)>>
<1> USE NAtLeast2
<1>0. TypeOK
  BY DEF RingInv
<1>1. pput[p].i = iput /\ Inc(iput) # iputback
  BY DEF RingInv, Claim, Inside, PutStore, IsFull
<1>2. /\ iput' = iput /\ iget' = iget /\ iputback' = iputback
      /\ \A i \in Slots : i # iput => buffers'[i] = buffers[i]
  BY <1>0, <1>1 DEF PutStore, TypeOK
<1>3. iput \in Slots /\ iget \in Slots /\ iputback \in Slots
  BY <1>0 DEF TypeOK
<1>4. Dist(iputback, iget) + Dist(iget, iput) = Dist(iputback, iput)
  BY DEF RingInv, PutBackSlotKept
<1>5. \A k \in 1 .. Dist(iget, iput) :
          Wrap(iget + k - 1) \in Slots /\ Wrap(iget + k - 1) # iput
  BY <1>3 DEF Wrap, Dist, Slots
<1>6. \A k \in 1 .. Dist(iputback, iget) :
          Wrap(iputback + k - 1) \in Slots /\ Wrap(iputback + k - 1) # iput
  BY <1>3, <1>4 DEF Wrap, Dist, Slots
<1>7. Contents(iget, iput)' = [k \in 1 .. Dist(iget, iput) |-> buffers'[Wrap(iget + k - 1)]]
  BY <1>2 DEF Contents, Dist, Wrap
<1>8. Contents(iputback, iget)' = [k \in 1 .. Dist(iputback, iget) |-> buffers'[Wrap(iputback + k - 1)]]
  BY <1>2 DEF Contents, Dist, Wrap
<1>9. Contents(iget, iput)' = Contents(iget, iput)
  BY <1>2, <1>5, <1>7 DEF Contents
<1>10. Contents(iputback, iget)' = Contents(iputback, iget)
  BY <1>2, <1>6, <1>8 DEF Contents
<1> QED BY <1>9, <1>10

\* The locked part of genericIntBufGet takes the oldest word.
LEMMA TakeIsGet ==
    ASSUME RingInv, GetTake
    PROVE  /\ Fifo!Get
           /\ Contents(iget, iput) # <<>> /\ pget'.data = Head(Contents(iget, iput))
           /\ Contents(iget, iput)' = Tail(Contents(iget, iput))
<1> USE NAtLeast2
<1> DEFINE n == Dist(iget, iput)
<1>0. TypeOK
  BY DEF RingInv
<1>1. iget # iput
  BY DEF RingInv, TakesQueuedWord, GetTake, IsEmpty
<1>2. Inc(iget) \in Slots /\ Inc(iget) = IF iget = N - 1 THEN 0 ELSE iget + 1
  BY <1>0, IncWraps DEF TypeOK
<1>3. iput' = iput /\ iget' = Inc(iget) /\ iputback' = iget /\ buffers' = buffers
  BY DEF GetTake
<1>4. iput \in Slots /\ iget \in Slots
  BY <1>0 DEF TypeOK
<1>5. n \in Nat /\ n > 0 /\ Dist(Inc(iget), iput) = n - 1 /\ Dist(iget, Inc(iget)) = 1
  BY <1>1, <1>2, <1>4 DEF Dist, Slots
<1>6. \A k \in 1 .. n - 1 : Wrap(Inc(iget) + k - 1) = Wrap(iget + k)
  BY <1>2, <1>4, <1>5 DEF Wrap, Dist, Slots
<1>7. Contents(iget, iput) \in Seq(Data \cup {Invalid}) /\ Len(Contents(iget, iput)) = n
  BY <1>0, <1>4, ContentsSeq, Zenon
<1>8. Contents(iget, iput)' = [k \in 1 .. n - 1 |-> buffers[Wrap(iget + k)]]
  <2>1. Contents(iget, iput)' = [k \in 1 .. n - 1 |-> buffers[Wrap(Inc(iget) + k - 1)]]
    BY <1>3, <1>5 DEF Contents, Dist, Wrap
  <2> QED BY <2>1, <1>6
<1>9. \A k \in 1 .. n : Contents(iget, iput)[k] = buffers[Wrap(iget + k - 1)]
  BY DEF Contents
<1>10. Tail(Contents(iget, iput)) = [k \in 1 .. n - 1 |-> buffers[Wrap(iget + k)]]
  <2>1. Tail(Contents(iget, iput)) = [k \in 1 .. n - 1 |-> Contents(iget, iput)[k + 1]]
    <3> HIDE DEF n
    <3> QED BY <1>5, <1>7, TailAsFunction
  <2>2. \A k \in 1 .. n - 1 : Contents(iget, iput)[k + 1] = buffers[Wrap(iget + k)]
    <3> SUFFICES ASSUME NEW k \in 1 .. n - 1
                 PROVE  Contents(iget, iput)[k + 1] = buffers[Wrap(iget + k)]
      OBVIOUS
    <3>1. k + 1 \in 1 .. n /\ iget + (k + 1) - 1 = iget + k
      BY <1>4, <1>5 DEF Slots
    <3>2. Contents(iget, iput)[k + 1] = buffers[Wrap(iget + (k + 1) - 1)]
      BY <1>9, <3>1
    <3> QED BY <3>1, <3>2
  <2> QED BY <2>1, <2>2
<1>11. Head(Contents(iget, iput)) = buffers[iget]
  <2>1. Contents(iget, iput)[1] = buffers[Wrap(iget + 1 - 1)]
    BY <1>5, <1>9
  <2>2. Wrap(iget + 1 - 1) = iget
    BY <1>4 DEF Wrap, Slots
  <2> QED BY <2>1, <2>2, <1>7
<1>12. Contents(iputback, iget)' = <<buffers[iget]>>
  <2>1. Contents(iputback, iget)' = [k \in 1 .. 1 |-> buffers[Wrap(iget + k - 1)]]
    BY <1>3, <1>5 DEF Contents, Dist, Wrap
  <2>2. \A k \in 1 .. 1 : Wrap(iget + k - 1) = iget
    BY <1>4 DEF Wrap, Slots
  <2> QED BY <2>1, <2>2
<1>13. Contents(iget, iput)' = Tail(Contents(iget, iput))
  BY <1>8, <1>10
<1>14. Contents(iputback, iget)' = <<Head(Contents(iget, iput))>>
  BY <1>11, <1>12
<1>15. pget'.data = buffers[iget]
  BY DEF GetTake, Get0
<1> QED BY <1>5, <1>7, <1>11, <1>13, <1>14, <1>15 DEF Fifo!Get

\* genericIntBufPutBack returns the word read last to the front of the queue,
\* or changes nothing when there is none.
LEMMA PutBackReturns ==
    ASSUME RingInv, PutBack
    PROVE  Fifo!PutBack \/ UNCHANGED <<Contents(iget, iput), Contents(iputback, iget)>>
<1> USE NAtLeast2
<1> DEFINE n == Dist(iget, iput)
<1>0. TypeOK
  BY DEF RingInv
<1>1. iput' = iput /\ iget' = iputback /\ iputback' = iputback /\ buffers' = buffers
  BY DEF PutBack
<1>2. CASE iget = iputback
  BY <1>1, <1>2 DEF Contents, Dist, Wrap
<1>3. CASE iget # iputback
  <2>1. iput \in Slots /\ iget \in Slots /\ iputback \in Slots
    BY <1>0 DEF TypeOK
  <2>2. /\ n \in Nat /\ Dist(iputback, iget) = 1 /\ Dist(iputback, iput) = n + 1
        /\ iget = IF iputback = N - 1 THEN 0 ELSE iputback + 1
    BY <1>3, <2>1 DEF RingInv, PutBackSlotKept, Dist, Slots
  <2>3. \A k \in 2 .. n + 1 : Wrap(iputback + k - 1) = Wrap(iget + (k - 1) - 1)
    BY <2>1, <2>2 DEF Wrap, Dist, Slots
  <2>4. /\ Contents(iget, iput) \in Seq(Data \cup {Invalid})
        /\ Len(Contents(iget, iput)) = n
    BY <1>0, <2>1, ContentsSeq, Zenon
  <2>5. Wrap(iputback + 1 - 1) = iputback
    BY <2>1 DEF Wrap, Slots
  <2>6. Contents(iputback, iget) = <<buffers[iputback]>>
    <3>1. Contents(iputback, iget) = [k \in 1 .. 1 |-> buffers[Wrap(iputback + k - 1)]]
      BY <2>2 DEF Contents
    <3> QED BY <3>1, <2>5
  <2>7. Contents(iputback, iget)' = <<>>
    BY <1>1, <2>1 DEF Contents, Dist, Wrap, Slots
  <2>8. Contents(iget, iput)' = [k \in 1 .. n + 1 |-> buffers[Wrap(iputback + k - 1)]]
    BY <1>1, <2>2 DEF Contents, Dist, Wrap
  <2>9. <<buffers[iputback]>> \o Contents(iget, iput)
          = [k \in 1 .. n + 1 |-> buffers[Wrap(iputback + k - 1)]]
    <3>1. <<buffers[iputback]>> \o Contents(iget, iput)
            = [k \in 1 .. n + 1 |->
                 IF k <= 1 THEN buffers[iputback] ELSE Contents(iget, iput)[k - 1]]
      <4>1. buffers[iputback] \in Data \cup {Invalid}
        BY <1>0 DEF TypeOK
      <4> HIDE DEF n
      <4> QED BY <2>4, <4>1, ConsAsFunction
    <3>2. \A k \in 1 .. n : Contents(iget, iput)[k] = buffers[Wrap(iget + k - 1)]
      BY DEF Contents
    <3>3. \A k \in 2 .. n + 1 : Contents(iget, iput)[k - 1] = buffers[Wrap(iputback + k - 1)]
      <4> SUFFICES ASSUME NEW k \in 2 .. n + 1
                   PROVE  Contents(iget, iput)[k - 1] = buffers[Wrap(iputback + k - 1)]
        OBVIOUS
      <4>1. k - 1 \in 1 .. n
        BY <2>2
      <4> QED BY <2>3, <3>2, <4>1
    <3>4. \A k \in 1 .. n + 1 :
             (IF k <= 1 THEN buffers[iputback] ELSE Contents(iget, iput)[k - 1])
               = buffers[Wrap(iputback + k - 1)]
      <4> SUFFICES ASSUME NEW k \in 1 .. n + 1
                   PROVE  (IF k <= 1 THEN buffers[iputback] ELSE Contents(iget, iput)[k - 1])
                            = buffers[Wrap(iputback + k - 1)]
        OBVIOUS
      <4> HIDE DEF n
      <4>1. CASE k = 1
        BY <2>5, <4>1
      <4>2. CASE k # 1
        BY <2>2, <3>3, <4>2
      <4> QED BY <4>1, <4>2
    <3> HIDE DEF n
    <3> QED BY <3>1, <3>4
  <2>10. Contents(iget, iput)' = <<Contents(iputback, iget)[1]>> \o Contents(iget, iput)
    BY <2>6, <2>8, <2>9
  <2>11. Len(Contents(iputback, iget)) > 0
    BY <2>6
  <2> QED BY <2>7, <2>10, <2>11 DEF Fifo!PutBack
<1> QED BY <1>2, <1>3

\* Every step of the ring is a step of the queue or changes nothing in it.
LEMMA FifoStep == RingInv /\ [Next]_vars => [Fifo!Next]_(Fifo!vars)
<1> SUFFICES ASSUME RingInv, [Next]_vars PROVE [Fifo!Next]_(Fifo!vars)
  OBVIOUS
<1> DEFINE Same == UNCHANGED <<Contents(iget, iput), Contents(iputback, iget)>>
<1>0. Same => [Fifo!Next]_(Fifo!vars)
  BY DEF Fifo!vars
<1>s. ASSUME UNCHANGED ring PROVE Same
  BY <1>s DEF ring, Contents, Dist, Wrap
<1>1. ASSUME NEW p \in Producers, NEW d \in Data, PutCheck(p, d) PROVE Same
  BY <1>1, <1>s DEF PutCheck, ring
<1>2. ASSUME NEW p \in Producers, PutStore(p) PROVE Same
  BY <1>2, StoreInvisible
<1>3. ASSUME NEW p \in Producers, PutAdvance(p) PROVE Fifo!Put
  BY <1>3, AdvanceAppends
<1>4. ASSUME NEW p \in Producers, PutReturn(p) PROVE Same
  BY <1>4, <1>s DEF PutReturn, ring
<1>5. CASE GetCheck
  BY <1>5, <1>s, <1>0 DEF GetCheck, ring
<1>6. CASE GetTake
  BY <1>6, TakeIsGet DEF Fifo!Next
<1>7. CASE GetReturn
  BY <1>7, <1>s, <1>0 DEF GetReturn, ring
<1>8. CASE PutBack
  BY <1>8, <1>0, PutBackReturns DEF Fifo!Next
<1>9. CASE UNCHANGED vars
  BY <1>9, <1>s, <1>0 DEF vars, ring
<1> QED BY <1>0, <1>1, <1>2, <1>3, <1>4, <1>5, <1>6, <1>7, <1>8, <1>9 DEF Next, Put, Get, Fifo!Next

\* For every ring size and every interleaving of one producer at a time with
\* the consumer, the unlocked ring is a bounded FIFO queue with put-back.
THEOREM ImplementsFifo == ~ Overlap => (Spec => FifoSpec)
<1> SUFFICES ASSUME ~ Overlap PROVE Spec => Fifo!Spec
  BY DEF FifoSpec
<1>1. Spec => []RingInv
  BY RingSafe
<1> QED BY <1>1, FifoInit, FifoStep, PTL DEF Spec, Fifo!Spec
=============================================================================
