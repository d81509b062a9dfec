-------------------------- MODULE CardDriverProofs ---------------------------
(***************************************************************************)
(* Proofs about the driver around the message paths: the heartbeat for     *)
(* every width of the counter, the interrupt masks and the lock of imask   *)
(* for every width of a mask and every set of writers, the table of cards  *)
(* for every set of cards and every number of loads, and that CardDriver   *)
(* composes what its parts specify.                                        *)
(***************************************************************************)
EXTENDS CardDriver, WellFoundedInduction, TLAPS

-----------------------------------------------------------------------------
(***************************************************************************)
(* The heartbeat.                                                          *)
(***************************************************************************)
HbPlaces == {"idle", "sleep", "second", "again", "third", "return"}
Half == Modulus \div 2

HbTypeOK ==
    /\ hbpc \in HbPlaces /\ counter \in Counts /\ v1 \in Counts /\ v2 \in Counts
    /\ ticks \in Nat /\ detected \in Int /\ alive \in BOOLEAN /\ hbenv \in HbEnvironments

\* Where the reader is, and what its last values say of the counter: after a
\* wrap the second value is in the lower half, so the third cannot wrap.
Measured ==
    /\ hbpc = "sleep" => v1 = counter
    /\ hbpc = "second" => ticks <= Half /\ counter = (v1 + ticks) % Modulus
    /\ hbpc = "again" => v2 = counter /\ v2 < Half
    /\ hbpc = "third" => counter = v2 + ticks
    /\ hbpc = "return" => detected = ticks

Steady == hbenv \cap {"fast", "reset"} = {}
HbInv == HbTypeOK /\ (Steady => Measured)

\* A counter that comes round at most once.
LEMMA ComesRound ==
    ASSUME NEW m \in Nat, m > 0, NEW x \in 0 .. 2 * m - 1
    PROVE  x % m = IF x < m THEN x ELSE x - m
<1>1. CASE x < m
  <2>1. x = 0 * m + x
    OBVIOUS
  <2> QED BY <1>1
<1>2. CASE x >= m
  <2> DEFINE y == x - m
  <2>1. y \in 0 .. m - 1 /\ x = m + y
    BY <1>2
  <2> QED BY <2>1, <1>2
<1> QED BY <1>1, <1>2

LEMMA ModulusFacts ==
    /\ Modulus \in Nat /\ Modulus >= 2
    /\ Half \in Nat /\ 2 * Half <= Modulus /\ Half < Modulus
BY HbWidthAssumption DEF Modulus, Half

\* The reading and the sleep.
LEMMA HbStep == HbInv /\ [HbNext]_hbvars => HbInv'
<1> SUFFICES ASSUME HbInv, [HbNext]_hbvars PROVE HbInv'
  OBVIOUS
<1>m. /\ Modulus \in Nat /\ Modulus >= 2 /\ Counts = 0 .. Modulus - 1
      /\ Half \in Nat /\ 2 * Half <= Modulus /\ Half < Modulus
  BY ModulusFacts DEF Counts
<1>t. HbTypeOK
  BY DEF HbInv
<1>c. counter % Modulus = counter
  BY <1>m, <1>t, ComesRound DEF HbTypeOK
<1>1. CASE ReadFirst
  <2>1. v1' = counter /\ hbpc' = "sleep" /\ UNCHANGED <<counter, alive, v2, ticks, detected, hbenv>>
    BY <1>1, <1>c DEF ReadFirst, getHeartbeat
  <2>2. HbTypeOK'
    BY <1>t, <2>1 DEF HbTypeOK, HbPlaces
  <2> QED BY <2>1, <2>2 DEF HbInv, Measured
<1>2. CASE Sleep
  <2>1. PICK k \in Beats : /\ ticks' = k
                           /\ \/ counter' = (counter + k) % Modulus
                              \/ "reset" \in hbenv /\ counter' = k % Modulus
    BY <1>2 DEF Sleep
  <2>2. k \in 0 .. Modulus /\ (Steady => k <= Half)
    BY <1>m, <2>1 DEF Beats, Steady, Half
  <2>3. counter' \in Counts
    BY <1>m, <1>t, <2>1, <2>2 DEF HbTypeOK
  <2>4. /\ hbpc \in {"sleep", "again"} /\ UNCHANGED <<alive, v1, v2, detected, hbenv>>
        /\ hbpc' = IF hbpc = "sleep" THEN "second" ELSE "third"
    BY <1>2 DEF Sleep
  <2>5. HbTypeOK'
    BY <1>t, <1>m, <2>1, <2>2, <2>3, <2>4 DEF HbTypeOK, HbPlaces
  <2>6. ASSUME Steady PROVE Measured'
    <3>1. counter' = (counter + k) % Modulus
      BY <2>1, <2>6 DEF Steady
    <3>2. CASE hbpc = "sleep"
      BY <2>1, <2>2, <2>4, <2>6, <3>1, <3>2 DEF HbInv, Measured
    <3>3. CASE hbpc = "again"
      <4>1. counter < Half /\ v2 = counter
        BY <2>6, <3>3 DEF HbInv, Measured
      <4>2. counter + k < Modulus /\ counter + k \in 0 .. 2 * Modulus - 1
        BY <1>m, <1>t, <2>2, <2>6, <4>1 DEF HbTypeOK
      <4>3. counter' = counter + k
        BY <1>m, <3>1, <4>2, ComesRound
      <4> QED BY <2>1, <2>4, <3>3, <4>1, <4>3 DEF Measured
    <3> QED BY <2>4, <3>2, <3>3
  <2> QED BY <2>4, <2>5, <2>6 DEF HbInv, Steady
<1>3. CASE ReadSecond
  <2>1. /\ hbpc = "second" /\ v2' = counter
        /\ IF v2' >= v1 THEN detected' = v2' - v1 /\ hbpc' = "return"
                        ELSE hbpc' = "again" /\ UNCHANGED detected
        /\ UNCHANGED <<counter, alive, v1, ticks, hbenv>>
    BY <1>3, <1>c DEF ReadSecond, getHeartbeat
  <2>2. HbTypeOK'
    BY <1>t, <1>m, <2>1 DEF HbTypeOK, HbPlaces
  <2>3. ASSUME Steady PROVE Measured'
    <3>1. ticks <= Half /\ counter = (v1 + ticks) % Modulus
      BY <2>1, <2>3 DEF HbInv, Measured
    <3>2. v1 + ticks \in 0 .. 2 * Modulus - 1
      BY <1>m, <1>t, <3>1 DEF HbTypeOK
    <3>3. counter = IF v1 + ticks < Modulus THEN v1 + ticks ELSE v1 + ticks - Modulus
      <4> DEFINE x == v1 + ticks
      <4>1. x \in 0 .. 2 * Modulus - 1 /\ counter = x % Modulus
        BY <3>1, <3>2
      <4> HIDE DEF x
      <4>2. counter = IF x < Modulus THEN x ELSE x - Modulus
        BY <1>m, <4>1, ComesRound
      <4> QED BY <1>m, <1>t, <4>2 DEF x, HbTypeOK
    <3>4. CASE v1 + ticks < Modulus
      <4>1. v2' = v1 + ticks /\ v2' >= v1 /\ v2' - v1 = ticks
        BY <1>m, <1>t, <2>1, <3>3, <3>4 DEF HbTypeOK
      <4> QED BY <2>1, <4>1 DEF Measured
    <3>5. CASE v1 + ticks >= Modulus
      <4>1. v2' = v1 + ticks - Modulus /\ ~ (v2' >= v1) /\ v2' < Half
        BY <1>m, <1>t, <2>1, <3>1, <3>3, <3>5 DEF HbTypeOK
      <4> QED BY <2>1, <4>1 DEF Measured
    <3> QED BY <1>m, <1>t, <3>4, <3>5 DEF HbTypeOK
  <2> QED BY <2>1, <2>2, <2>3 DEF HbInv, Steady
<1>4. CASE ReadThird
  <2>1. /\ hbpc = "third" /\ v1' = counter /\ detected' = v1' - v2 /\ hbpc' = "return"
        /\ UNCHANGED <<counter, alive, v2, ticks, hbenv>>
    BY <1>4, <1>c DEF ReadThird, getHeartbeat
  <2>2. HbTypeOK'
    BY <1>t, <1>m, <2>1 DEF HbTypeOK, HbPlaces
  <2>3. Steady => Measured'
    BY <1>m, <1>t, <2>1 DEF HbInv, Measured, HbTypeOK
  <2> QED BY <2>1, <2>2, <2>3 DEF HbInv, Steady
<1>5. CASE HbReturn
  <2>1. HbTypeOK'
    BY <1>t, <1>m, <1>5 DEF HbReturn, HbTypeOK, HbPlaces
  <2> QED BY <1>5, <2>1 DEF HbReturn, HbInv, Measured
<1>6. CASE UNCHANGED hbvars
  BY <1>6 DEF hbvars, HbInv, HbTypeOK, Steady, Measured
<1> QED BY <1>1, <1>2, <1>3, <1>4, <1>5, <1>6 DEF HbNext

LEMMA HbSafe == HbSpec => []HbInv
<1>1. HbInit => HbInv
  BY ModulusFacts DEF HbInit, HbInv, HbTypeOK, HbPlaces, Measured, Counts
<1> QED BY <1>1, HbStep, PTL DEF HbSpec

\* What acq200_getHeartbeat returns is how often the card has counted, for a
\* counter of any width: HeartbeatIsRate.
THEOREM HeartbeatSafe == HbSpec => []HeartbeatIsRate
<1>1. HbInv => HeartbeatIsRate
  BY DEF HbInv, Steady, Measured, HeartbeatIsRate
<1> QED BY <1>1, HbSafe, PTL

-----------------------------------------------------------------------------
(***************************************************************************)
(* The interrupt masks.                                                    *)
(***************************************************************************)
\* A set of bits that is not empty has a highest one, which getNext finds.
LEMMA HighestBit ==
    ASSUME NEW S \in SUBSET Bits, S # {}
    PROVE  Highest(S) \in S /\ \A j \in S : j <= Highest(S)
<1> DEFINE T == {W - 1 - i : i \in S}
           R == {ss \in Nat \X Nat : ss[1] < ss[2]}
<1>1. T \subseteq Nat /\ T # {}
  <2>1. \A i \in S : i \in 0 .. W - 1
    BY DEF Bits
  <2>2. \A i \in S : W - 1 - i \in Nat
    BY <2>1, WidthAssumption
  <2> QED BY <2>2
<1>2. IsWellFoundedOn(R, Nat)
  BY NatLessThanWellFounded DEF OpToRel
<1>3. \A x, y \in Nat : y < x => <<y, x>> \in R
  OBVIOUS
<1> HIDE DEF T, R
<1>4. PICK x \in T : \A y \in T : ~ (<<y, x>> \in R)
  BY <1>1, <1>2, WFMin
<1>5. \A y \in T : x <= y
  <2> TAKE y \in T
  <2>1. x \in Nat /\ y \in Nat
    BY <1>1, <1>4
  <2>2. ~ (y < x)
    BY <1>3, <1>4, <2>1
  <2> QED BY <2>1, <2>2
<1>6. PICK i \in S : x = W - 1 - i
  BY DEF T
<1>7. \A j \in S : j <= i
  <2> TAKE j \in S
  <2>1. W - 1 - j \in T
    BY DEF T
  <2> QED BY <1>5, <1>6, <2>1, WidthAssumption DEF Bits
<1> QED BY <1>6, <1>7 DEF Highest

\* A walk has passed the bits of its mask from the top down to its cursor.
Passed == {i \in mask : i >= cursor}
WalkInv ==
    /\ mask \in Masks /\ cursor \in Bits
    /\ op # "idle" =>
         \/ state = "MI_IDLE" /\ visited = {}
         \/ state = "MI_STARTED" /\ cursor \in mask /\ visited = Passed
         \/ state = "MI_FINISHED" /\ mask = {W - 1} /\ visited = {W - 1, -1}

\* Without contention one writer is at work at a time.  The lines that
\* imask_a has are disabled, and without repetition once; it is the mask that is
\* stored once the writer is done, which has loaded what is there.
MaskPlaces == {"mask", "apply"}
AttrInv ==
    /\ mdepth \in [Bits -> Nat] /\ imask \in Masks /\ active \in Masks
    /\ \A i \in active : mdepth[i] > 0
    /\ "repeat" \in env \/ \A i \in Bits : mdepth[i] = IF i \in active THEN 1 ELSE 0
    /\ "repeat" \in env \/ \A w \in Writers : writer[w] \in MaskPlaces => imask \cap active = {}
    /\ (\A w \in Writers : writer[w] \notin MaskPlaces) => active = imask
    /\ \A w \in Writers : writer[w] = "apply" => nibble[w] = [new |-> imask, active |-> active]
    /\ nibble \in [Writers -> [new : Masks, active : Masks]]
    /\ \A w, u \in Writers : writer[w] # "idle" /\ writer[u] # "idle" => w = u

\* Writers come one at a time, and at each place it is known whether the lock is
\* held and what is_locked says.
LockPlaces == {"idle", "spin", "locked", "unlock", "unlocked"} \cup MaskPlaces
LockInv ==
    /\ \A w, u \in Writers : writer[w] # "idle" /\ writer[u] # "idle" => w = u
    /\ \A w \in Writers : /\ writer[w] = "locked" => bkl /\ ~ is_locked
                          /\ writer[w] = "unlock" => bkl /\ is_locked
                          /\ writer[w] = "unlocked" => ~ bkl /\ is_locked
    /\ (\A w \in Writers : writer[w] \notin {"locked", "unlock", "unlocked"}) => (bkl <=> is_locked)

IrqInv ==
    /\ WalkInv
    /\ writer \in [Writers -> LockPlaces]
    /\ "contend" \in env \/ (AttrInv /\ LockInv)

\* One round of the walk.
LEMMA WalkStep == WalkInv /\ Walk => WalkInv'
<1> SUFFICES ASSUME WalkInv, Walk PROVE WalkInv'
  OBVIOUS
<1> DEFINE i == getNext
<1>1. /\ op # "idle" /\ hasNext /\ UNCHANGED <<op, mask>>
      /\ visited' = visited \cup {i}
      /\ cursor' = IF i = -1 THEN 0 ELSE i
      /\ state' = IF i = -1 THEN "MI_FINISHED" ELSE "MI_STARTED"
  BY DEF Walk
<1>2. W \in Nat /\ W >= 2 /\ mask \subseteq Bits /\ Bits = 0 .. W - 1 /\ cursor \in Bits
  BY WidthAssumption DEF WalkInv, Masks, Bits
<1>h. \A S \in SUBSET Bits : S # {} => Highest(S) \in S /\ \A j \in S : j <= Highest(S)
  BY HighestBit
<1>3. CASE state = "MI_IDLE"
  <2>1. mask # {} /\ mask \cap Below = mask
    BY <1>1, <1>2, <1>3 DEF hasNext, Ahead, Below
  <2>5. i = Highest(mask)
    BY <2>1 DEF getNext
  <2> HIDE DEF i
  <2>2. i \in mask /\ \A j \in mask : j <= i
    BY <1>2, <1>h, <2>1, <2>5
  <2>3. visited = {}
    BY <1>1, <1>3 DEF WalkInv
  <2>6. \A j \in mask : j >= i <=> j = i
    BY <1>2, <2>2
  <2>4. {j \in mask : j >= i} = {i}
    BY <2>2, <2>6, Zenon
  <2> QED BY <1>1, <1>2, <2>2, <2>3, <2>4 DEF WalkInv, Passed, Masks
<1>4. CASE state = "MI_STARTED"
  <2>1. cursor \in mask /\ visited = Passed
    BY <1>1, <1>4 DEF WalkInv
  <2>5. Below = 0 .. cursor - 1
    BY <1>4 DEF Below
  <2>6. \A j \in mask : j \in Below <=> j < cursor
    BY <1>2, <2>5
  <2>2. mask \cap Below = {j \in mask : j < cursor}
    BY <2>6, Zenon
  <2>3. CASE \E j \in mask : j < cursor
    <3> DEFINE S == {j \in mask : j < cursor}
    <3>3. i = Highest(S)
      BY <2>2 DEF getNext
    <3>4. S \in SUBSET Bits /\ S # {}
      BY <1>2, <2>3
    <3> HIDE DEF i, S
    <3>5. i \in S /\ \A j \in S : j <= i
      BY <1>h, <3>3, <3>4
    <3>1. i \in mask /\ i < cursor /\ \A j \in mask : j < cursor => j <= i
      BY <3>5 DEF S
    <3>6. \A j \in mask : j >= i <=> j >= cursor \/ j = i
      BY <1>2, <3>1
    <3>2. Passed \cup {i} = {j \in mask : j >= i}
      BY <3>1, <3>6, Zenon DEF Passed
    <3> QED BY <1>1, <1>2, <2>1, <3>1, <3>2 DEF WalkInv, Passed, Masks
  <2>4. CASE \A j \in mask : ~ (j < cursor)
    <3>1. cursor = W - 1
      BY <1>1, <1>2, <1>4, <2>4 DEF hasNext, Ahead
    <3>4. \A j \in mask : j = cursor /\ j >= cursor
      BY <1>2, <2>4, <3>1
    <3>5. mask = {cursor} /\ Passed = {cursor}
      BY <2>1, <3>4, Zenon DEF Passed
    <3>2. mask = {W - 1} /\ Passed = {W - 1}
      BY <3>1, <3>5
    <3>3. i = -1
      BY <2>2, <2>4 DEF getNext, Highest
    <3> HIDE DEF i
    <3> QED BY <1>1, <1>2, <2>1, <3>2, <3>3 DEF WalkInv, Masks
  <2> QED BY <2>3, <2>4
<1>5. state # "MI_FINISHED"
  BY <1>1 DEF hasNext, Ahead
<1> QED BY <1>1, <1>3, <1>4, <1>5 DEF WalkInv

\* A writer copies a new mask, loads what there is and applies it.
LEMMA MaskStep ==
    ASSUME writer \in [Writers -> LockPlaces], MaskNext, "contend" \notin env, AttrInv, LockInv
    PROVE  AttrInv' /\ LockInv'
<1>1. PICK w \in Writers : (\E m \in Masks : StoreMask(w, m)) \/ MaskLoad(w) \/ MaskApply(w)
  BY DEF MaskNext
<1>2. ASSUME NEW m \in Masks, StoreMask(w, m) PROVE AttrInv' /\ LockInv'
  <2>1. /\ writer[w] = "idle" /\ \A u \in Writers : writer[u] = "idle"
        /\ "repeat" \in env \/ m \cap imask = {}
        /\ imask' = m /\ writer' = [writer EXCEPT ![w] = "mask"]
        /\ UNCHANGED <<mdepth, active, nibble, bkl, is_locked, env>>
    BY <1>2 DEF StoreMask, MayWrite, Goto, lock
  <2>2. active = imask
    BY <2>1 DEF AttrInv, MaskPlaces
  <2> QED BY <2>1, <2>2 DEF AttrInv, LockInv, MaskPlaces
<1>3. CASE MaskLoad(w)
  <2>1. /\ writer[w] = "mask" /\ writer' = [writer EXCEPT ![w] = "apply"]
        /\ nibble' = [nibble EXCEPT ![w] = [new |-> imask, active |-> active]]
        /\ UNCHANGED <<mdepth, imask, active, bkl, is_locked, env>>
    BY <1>3 DEF MaskLoad, Goto, lock
  <2> QED BY <2>1 DEF AttrInv, LockInv, MaskPlaces
<1>4. CASE MaskApply(w)
  <2>1. /\ writer[w] = "apply" /\ writer' = [writer EXCEPT ![w] = "idle"]
        /\ nibble' = [nibble EXCEPT ![w] = NoNibble]
        /\ UNCHANGED <<imask, bkl, is_locked, env>>
        /\ mdepth' = NewDepth(nibble[w]) /\ active' = nibble[w].new
    BY <1>4 DEF MaskApply, Goto, lock
  <2>2. nibble[w] = [new |-> imask, active |-> active] /\ active' = imask
    BY <2>1 DEF AttrInv
  <2>3. mdepth' = [i \in Bits |-> IF i \in imask THEN mdepth[i] + 1
                  ELSE IF i \in active /\ mdepth[i] > 0 THEN mdepth[i] - 1 ELSE mdepth[i]]
    BY <2>1, <2>2 DEF NewDepth
  <2>4. mdepth \in [Bits -> Nat] /\ imask \subseteq Bits
    BY DEF AttrInv, Masks
  <2>5. \A i \in Bits : mdepth'[i] \in Nat /\ (i \in imask => mdepth'[i] > 0)
    BY <2>3, <2>4
  <2>6. mdepth' \in [Bits -> Nat] /\ \A i \in imask : mdepth'[i] > 0
    BY <2>3, <2>4, <2>5
  <2>7. ASSUME "repeat" \notin env, NEW i \in Bits
        PROVE  mdepth'[i] = IF i \in imask THEN 1 ELSE 0
    <3>1. mdepth[i] = IF i \in active THEN 1 ELSE 0
      BY <2>7 DEF AttrInv
    <3>2. ~ (i \in imask /\ i \in active)
      BY <2>1, <2>7 DEF AttrInv, MaskPlaces
    <3> QED BY <2>3, <3>1, <3>2
  <2>8. nibble' \in [Writers -> [new : Masks, active : Masks]]
    BY <2>1 DEF AttrInv, NoNibble, Masks
  <2>9. \A u \in Writers : writer'[u] = "idle"
    BY <2>1 DEF AttrInv
  <2> QED BY <2>1, <2>2, <2>6, <2>7, <2>8, <2>9 DEF AttrInv, LockInv, MaskPlaces
<1> QED BY <1>1, <1>2, <1>3, <1>4

\* The steps of the writers of LOC and 000.
LEMMA LockStep ==
    ASSUME writer \in [Writers -> LockPlaces], LockNext, "contend" \notin env, AttrInv, LockInv
    PROVE  AttrInv' /\ LockInv'
<1>1. PICK w \in Writers : \/ StoreLoc(w) \/ BklLock(w) \/ BklLocked(w)
                           \/ StoreUnlock(w) \/ BklUnlock(w) \/ BklUnlocked(w)
  BY DEF LockNext
<1>2. PICK l \in LockPlaces : /\ l \notin MaskPlaces /\ writer[w] \notin MaskPlaces
                              /\ writer' = [writer EXCEPT ![w] = l]
  BY <1>1 DEF StoreLoc, BklLock, BklLocked, StoreUnlock, BklUnlock, BklUnlocked, MayWrite, Goto,
              LockPlaces, MaskPlaces
<1>3. UNCHANGED <<mdepth, imask, active, nibble, env>>
  BY <1>1 DEF StoreLoc, BklLock, BklLocked, StoreUnlock, BklUnlock, BklUnlocked, rest, attr
<1>4. \A v, u \in Writers : writer'[v] # "idle" /\ writer'[u] # "idle" => v = u
  BY <1>1 DEF StoreLoc, BklLock, BklLocked, StoreUnlock, BklUnlock, BklUnlocked, MayWrite, Goto,
              LockInv
<1>5. LockInv'
  <2>1. CASE StoreLoc(w)
    BY <1>4, <2>1 DEF StoreLoc, MayWrite, Goto, LockInv
  <2>2. CASE BklLock(w)
    BY <1>4, <2>2 DEF BklLock, Goto, LockInv
  <2>3. CASE BklLocked(w)
    BY <1>4, <2>3 DEF BklLocked, Goto, LockInv
  <2>4. CASE StoreUnlock(w)
    BY <1>4, <2>4 DEF StoreUnlock, MayWrite, Goto, LockInv
  <2>5. CASE BklUnlock(w)
    BY <1>4, <2>5 DEF BklUnlock, Goto, LockInv
  <2>6. CASE BklUnlocked(w)
    BY <1>4, <2>6 DEF BklUnlocked, Goto, LockInv
  <2> QED BY <1>1, <2>1, <2>2, <2>3, <2>4, <2>5, <2>6
<1>6. AttrInv'
  BY <1>2, <1>3, <1>4 DEF AttrInv, MaskPlaces
<1> QED BY <1>5, <1>6

\* Walks, stores and writers of LOC leave each other's state alone.
LEMMA IrqStep == IrqInv /\ [Next]_vars => IrqInv'
<1> SUFFICES ASSUME IrqInv, [Next]_vars PROVE IrqInv'
  OBVIOUS
<1>a. UNCHANGED <<mdepth, imask, active, nibble, bkl, is_locked, writer, env>> /\ WalkInv' => IrqInv'
  BY DEF IrqInv, AttrInv, LockInv
<1>b. UNCHANGED <<op, mask, cursor, state, visited>> => WalkInv'
  BY DEF IrqInv, WalkInv, Passed
<1>1. ASSUME NEW o, NEW m \in Masks, Start(o, m) PROVE IrqInv'
  <2>1. /\ mask' = m /\ cursor' = 0 /\ state' = "MI_IDLE" /\ visited' = {}
        /\ UNCHANGED <<mdepth, imask, active, nibble, bkl, is_locked, writer, env>>
    BY <1>1 DEF Start, attr, lock
  <2>2. 0 \in Bits
    BY WidthAssumption DEF Bits
  <2>3. WalkInv'
    BY <2>1, <2>2 DEF WalkInv, Masks
  <2> QED BY <1>a, <2>1, <2>3
<1>2. CASE Walk
  <2>1. UNCHANGED <<mdepth, imask, active, nibble, bkl, is_locked, writer, env>>
    BY <1>2 DEF Walk, attr, lock
  <2>2. WalkInv'
    BY <1>2, WalkStep DEF IrqInv
  <2> QED BY <1>a, <2>1, <2>2
<1>3. CASE WalkEnd
  <2>1. op' = "idle" /\ UNCHANGED <<mask, cursor, mdepth, imask, active, nibble, bkl, is_locked, writer, env>>
    BY <1>3 DEF WalkEnd, it, attr, lock
  <2>2. WalkInv'
    BY <2>1 DEF IrqInv, WalkInv
  <2> QED BY <1>a, <2>1, <2>2
<1>4. CASE MaskNext
  <2>1. UNCHANGED <<op, mask, cursor, state, visited, env>>
    BY <1>4 DEF MaskNext, StoreMask, MaskLoad, MaskApply, walk
  <2>2. writer' \in [Writers -> LockPlaces]
    BY <1>4 DEF MaskNext, StoreMask, MaskLoad, MaskApply, Goto, IrqInv, LockPlaces, MaskPlaces
  <2>3. "contend" \notin env => AttrInv' /\ LockInv'
    BY <1>4, MaskStep DEF IrqInv
  <2>4. WalkInv' /\ env' = env
    BY <1>b, <2>1
  <2> QED BY <2>2, <2>3, <2>4 DEF IrqInv
<1>5. CASE LockNext
  <2>1. UNCHANGED <<op, mask, cursor, state, visited, env>>
    BY <1>5 DEF LockNext, StoreLoc, BklLock, BklLocked, StoreUnlock, BklUnlock, BklUnlocked, rest, walk
  <2>2. writer' \in [Writers -> LockPlaces]
    BY <1>5 DEF LockNext, StoreLoc, BklLock, BklLocked, StoreUnlock, BklUnlock, BklUnlocked, Goto,
                IrqInv, LockPlaces
  <2>3. "contend" \notin env => AttrInv' /\ LockInv'
    BY <1>5, LockStep DEF IrqInv
  <2>4. WalkInv' /\ env' = env
    BY <1>b, <2>1
  <2> QED BY <2>2, <2>3, <2>4 DEF IrqInv
<1>6. CASE UNCHANGED vars
  BY <1>6, <1>a, <1>b DEF vars, walk, attr, lock
<1> QED BY <1>1, <1>2, <1>3, <1>4, <1>5, <1>6 DEF Next, WalkNext

LEMMA IrqSafe == Spec => []IrqInv
<1>1. Init => IrqInv
  <2> SUFFICES ASSUME Init PROVE IrqInv
    OBVIOUS
  <2>1. 0 \in Bits
    BY WidthAssumption DEF Bits
  <2>2. WalkInv
    BY <2>1 DEF Init, WalkInv, Masks
  <2>4. AttrInv
    BY DEF Init, AttrInv, Masks, NoNibble, MaskPlaces
  <2>3. writer \in [Writers -> LockPlaces] /\ LockInv
    BY DEF Init, LockPlaces, LockInv
  <2> QED BY <2>2, <2>3, <2>4 DEF IrqInv
<1> QED BY <1>1, IrqStep, PTL DEF Spec

\* acq200_intsDisable and acq200_intsEnable pass every line of their mask, and
\* no other, to the kernel, for masks of any width: WalkIsMask.
THEOREM WalkSafe == Spec => []WalkIsMask
<1>1. IrqInv => WalkIsMask
  <2> SUFFICES ASSUME WalkInv, op # "idle", ~ hasNext
               PROVE  visited = IF mask = {W - 1} THEN {W - 1, -1} ELSE mask
    BY DEF IrqInv, WalkIsMask
  <2>1. W \in Nat /\ W >= 2 /\ mask \subseteq Bits /\ Bits = 0 .. W - 1 /\ cursor \in Bits
    BY WidthAssumption DEF WalkInv, Masks, Bits
  <2>2. CASE state = "MI_IDLE"
    <3>1. mask = {} /\ visited = {}
      BY <2>1, <2>2 DEF WalkInv, hasNext, Ahead
    <3> QED BY <3>1
  <2>3. CASE state = "MI_STARTED"
    <3>1. cursor \in mask /\ visited = Passed
      BY <2>3 DEF WalkInv
    <3>2. Ahead = IF cursor = W - 1 THEN Bits ELSE 0 .. cursor - 1
      BY <2>3, Zenon DEF Ahead
    <3>3. cursor # W - 1 /\ \A j \in mask : ~ (j \in 0 .. cursor - 1)
      BY <2>1, <3>1, <3>2 DEF hasNext
    <3>4. \A j \in mask : j >= cursor
      BY <2>1, <3>3
    <3>5. Passed = mask
      BY <3>4, Zenon DEF Passed
    <3> QED BY <3>1, <3>3, <3>5
  <2>4. CASE state = "MI_FINISHED"
    BY <2>4 DEF WalkInv
  <2> QED BY <2>2, <2>3, <2>4 DEF WalkInv
<1> QED BY <1>1, IrqSafe, PTL

\* The imask attribute keeps the lines of its mask off and has put back on what
\* it masked before: MaskedExactly.
THEOREM MaskSafe == Spec => []MaskedExactly
<1>1. IrqInv => MaskedExactly
  BY DEF IrqInv, AttrInv, MaskedExactly, MaskPlaces, Masks
<1> QED BY <1>1, IrqSafe, PTL

\* A lock that LOC took can always be given back by writing 000, for any number
\* of processes that write one after the other: LockKnown.
THEOREM LockSafe == Spec => []LockKnown
<1>1. IrqInv => LockKnown
  BY DEF IrqInv, LockInv, LockKnown
<1> QED BY <1>1, IrqSafe, PTL

-----------------------------------------------------------------------------
(***************************************************************************)
(* The table of cards.                                                     *)
(***************************************************************************)
\* Where a probe and a remove can be.
ProbePcs == {"enable", "chrdev", "major", "irq", "setup", "channels", "publish", "class", "bkl"}
RemovePcs == {"attrs", "unregister", "free"}

\* The devices that are there, and the card that a probe or remove is about.
Devices == [live : BOOLEAN, card : Cards \cup {NoCard}, major : Nat, csr : BOOLEAN,
            class : BOOLEAN, bkl : BOOLEAN]
Live == {a \in Addrs : mem[a].live}
InTable(a) == \E i \in 1 .. idx : devices[i] = a
InTask(c) == task.pc # "idle" /\ task.card = c

DtTypeOK ==
    /\ loads \in Nat /\ devices \in Seq(Addrs) /\ mem \in [Addrs -> Devices]
    /\ bind \in [Cards -> {"absent", "no", "bound", "failed"}] /\ bound \in [Cards -> Nat]
    /\ task \in [pc : {"idle"} \cup ProbePcs \cup RemovePcs, card : Cards \cup {NoCard},
                 dev : Nat, major : Nat, rc : {"ok", "fail"}]
    /\ chrdev \subseteq Majors /\ irqs \subseteq Addrs /\ region \subseteq Cards
    /\ attrs \in [Cards -> SUBSET {"pool", "dev", "class"}]
    /\ nodes \in [Cards -> Nat] /\ paths \subseteq [card : Cards, dev : Addrs]

\* The probe or remove under way.
TaskInv ==
    /\ task.pc = "idle" => task = Idle
    /\ task.pc # "idle" =>
         /\ task.card \in Cards /\ task.dev \in Live /\ mem[task.dev].card = task.card
         /\ InTable(task.dev) /\ loaded
    /\ task.pc \in ProbePcs => bind[task.card] = "no"
    /\ task.pc \in RemovePcs => bind[task.card] = "bound" /\ task.dev = bound[task.card]
    /\ task.pc \in {"enable", "chrdev", "major"} => mem[task.dev].major = 0
    /\ task.pc \in ProbePcs \ {"enable", "chrdev", "major"} => mem[task.dev].major # 0
    /\ task.pc \in {"channels", "publish", "class", "bkl"} => mem[task.dev].csr
    /\ task.pc \in {"class", "bkl"} => mem[task.dev].class
    /\ task.pc \in {"unregister", "free"} =>
         "dev" \notin attrs[task.card] /\ ("eager" \notin dtenv => <<"remove", task.card>> \in hot)
    /\ task.pc \in {"unregister", "free"} => "class" \notin attrs[task.card]
    /\ task.pc = "free" => mem[task.dev].major \notin chrdev
    /\ task.pc = "major" => /\ task.major \in chrdev
                            /\ \A a \in Live : mem[a].major # task.major

\* A card that is bound, or probed with its registers mapped, has one device.
Sole(c, d) == \A a \in Live : mem[a].card = c => a = d
BoundInv ==
    /\ task.pc \in ProbePcs /\ mem[task.dev].csr => Sole(task.card, task.dev)
    /\ \A c \in Cards : bound[c] # 0 <=> bind[c] = "bound"
    /\ \A c \in Cards : bind[c] = "bound" =>
         /\ bound[c] \in Live /\ Sole(c, bound[c]) /\ InTable(bound[c])
         /\ LET d == mem[bound[c]] IN d.card = c /\ d.class /\ d.major # 0

\* Devices and the majors they have.
MemInv ==
    /\ \A a \in Live : mem[a].card \in region
    /\ \A a \in Live : mem[a].major # 0 => mem[a].major \in chrdev \/ (task.pc = "free" /\ task.dev = a)
    /\ \A a, b \in Live : mem[a].major = mem[b].major /\ mem[a].major # 0 => a = b
    /\ \A a \in Live : mem[a].class =>
          mem[a].bkl \/ (task.pc \in {"class", "bkl"} /\ task.dev = a)
    /\ \A m \in chrdev : (\E a \in Live : mem[a].major = m) \/ (task.pc = "major" /\ task.major = m)
    /\ \A c \in Cards : "dev" \in attrs[c] \/ "class" \in attrs[c] => \E a \in Live : mem[a].card = c

\* As long as no probe comes after one that failed, every device that is there
\* is in the table with its registers mapped, and a region that is requested
\* belongs to a card that is bound, has failed, or is under probe or remove.
CalmInv ==
    ~ AfterFailure =>
      /\ loads = 0 => ~ loaded /\ Live = {} /\ region = {}
      /\ loaded =>
           /\ \A a \in Live : InTable(a) /\ mem[a].csr
           /\ \A c \in region : bind[c] \in {"bound", "failed"} \/ InTask(c)
\* Without failures a device belongs to its card or to the task, and so do
\* regions and attributes: an unload that is complete leaves nothing.
CleanInv ==
    "fail" \notin dtenv =>
      /\ task.rc = "ok"
      /\ \A a \in Live : (mem[a].card \in Cards /\ bound[mem[a].card] = a) \/ (task.pc # "idle" /\ task.dev = a)
      /\ \A c \in Cards : bind[c] # "failed"
      /\ \A c \in Cards : c \in region \/ attrs[c] # {} => bind[c] = "bound" \/ InTask(c)
      /\ ~ loaded => \A c \in Cards : bind[c] # "bound"
\* Handlers need interrupts; the driver is registered while the code is there.
OffInv ==
    /\ "interrupts" \notin dtenv => irqs = {} /\ task.pc # "irq"
    /\ "nocard" \notin dtenv => (driver <=> loaded)
    /\ unloading => loaded

\* The nodes of a card are about its device, or wait for the hotplug script.
NodesInv ==
    dtenv \cap {"eager", "oldnodes", "again", "late"} = {} =>
      \A c \in Cards : nodes[c] # 0 =>
        /\ \A a \in Live : mem[a].major = nodes[c] => mem[a].card = c
        /\ nodes[c] \in chrdev \/ <<"remove", c>> \in hot
        /\ task.pc = "major" => nodes[c] # task.major
\* A path is on a device that is there and that is not being removed.
PathsInv ==
    dtenv \cap {"eager", "held", "again"} = {} =>
      \A p \in paths :
        /\ loaded /\ p.dev \in Live /\ (task.pc \in RemovePcs => p.dev # task.dev)
        /\ dtenv \cap {"oldnodes", "late"} = {} => mem[p.dev].card = p.card

\* What may have been used wrongly.
FreedUnused ==
    \/ Troubles({"interrupts", "held", "eager", "again"}) \/ AfterFailure
    \/ bad \cap {"attr", "remove", "irq", "path"} = {}
BadInv == FreedUnused /\ ReadyWhenUsed /\ (Troubles({"fail", "interrupts", "nocard"}) \/ "gone" \notin bad)

DtInv == /\ DtTypeOK /\ TaskInv /\ BoundInv /\ MemInv /\ CalmInv /\ CleanInv /\ OffInv /\ NodesInv
         /\ PathsInv /\ BadInv

\* A probe begins when every card of the table is there.  So what the memory of
\* a card that has gone still holds is not what a card that is there holds: it
\* had a card and a major of its own.
StaleInv ==
    "again" \notin dtenv =>
      /\ task.pc \in ProbePcs => AllThere
      /\ \A b \in Addrs \ Live, a \in Live :
           InTable(b) => mem[b].card # mem[a].card /\ mem[b].major # mem[a].major
\* As long as no card has gone the hotplug script has nothing to remove.
LagInv ==
    dtenv \cap {"again", "late"} = {} /\ loaded /\ AllThere
    /\ task.pc \notin {"unregister", "free"} => \A c \in Cards : <<"remove", c>> \notin hot

TableInv == DtInv /\ StaleInv /\ LagInv

\* The least of some numbers is one of them: what Min finds.
LEMMA LeastOf ==
    ASSUME NEW S \in SUBSET Nat, S # {}
    PROVE  Min(S) \in S /\ \A y \in S : Min(S) <= y
<1> DEFINE R == {ss \in Nat \X Nat : ss[1] < ss[2]}
<1>1. IsWellFoundedOn(R, Nat)
  BY NatLessThanWellFounded DEF OpToRel
<1>2. \A x, y \in Nat : y < x => <<y, x>> \in R
  OBVIOUS
<1> HIDE DEF R
<1>3. PICK x \in S : \A y \in S : ~ (<<y, x>> \in R)
  BY <1>1, WFMin
<1>4. \A y \in S : x <= y
  <2> TAKE y \in S
  <2>1. x \in Nat /\ y \in Nat /\ ~ (y < x)
    BY <1>2, <1>3
  <2> QED BY <2>1
<1> QED BY <1>3, <1>4 DEF Min

\* A lookup finds an entry of the table with its key, or no device has it.
LEMMA LookupFinds ==
    ASSUME DtTypeOK, NEW by, NEW key, NEW d \in Lookups(by, key)
    PROVE  \/ d = 0 /\ \A a \in Live : InTable(a) => ~ Has(mem[a], by, key)
           \/ d \in Addrs /\ d # 0 /\ InTable(d) /\ Has(mem[d], by, key)
<1> DEFINE hits == Hits(by, key)
<1>0. /\ idx \in Nat
      /\ \A i \in 1 .. idx : devices[i] \in Addrs /\ devices[i] # 0 /\ InTable(devices[i])
  <2>1. devices \in Seq(Addrs) /\ Len(devices) \in Nat
    BY DEF DtTypeOK
  <2>2. \A i \in 1 .. idx : devices[i] \in Addrs
    BY <2>1 DEF idx
  <2>3. 0 \notin Addrs
    BY DEF Addrs
  <2> QED BY <2>1, <2>2, <2>3 DEF InTable, idx
<1>1. CASE \E i \in Stale(by, key) : d = devices[i]
  BY <1>0, <1>1 DEF Stale
<1>2. CASE hits = {} /\ d = 0
  <2>2. ASSUME NEW a \in Live, InTable(a), Has(mem[a], by, key) PROVE FALSE
    <3>1. PICK i \in 1 .. idx : devices[i] = a
      BY <2>2 DEF InTable
    <3>2. i \in hits
      BY <2>2, <3>1 DEF Hits, Live
    <3> QED BY <1>2, <3>2
  <2> QED BY <1>2, <2>2
<1>3. CASE hits # {} /\ d = devices[Min(hits)]
  <2>1. hits \in SUBSET Nat
    BY <1>0 DEF Hits
  <2>2. Min(hits) \in hits
    BY <1>3, <2>1, LeastOf
  <2> DEFINE i == Min(hits)
  <2> HIDE DEF i
  <2>3. i \in 1 .. idx /\ mem[devices[i]].live /\ Has(mem[devices[i]], by, key)
    BY <2>2 DEF Hits, i
  <2> QED BY <1>0, <1>3, <2>3 DEF i
<1> QED BY <1>1, <1>2, <1>3 DEF Lookups

\* No entry that was freed still has this key.
NoneStale(by, key) == \A b \in Addrs \ Live : InTable(b) => ~ Has(mem[b], by, key)

\* The only device with a key is found by it, and nothing else.
LEMMA LookupSole ==
    ASSUME DtTypeOK, NEW by, NEW key, NEW d \in Live, InTable(d), Has(mem[d], by, key),
           \A a \in Live : Has(mem[a], by, key) => a = d, NoneStale(by, key)
    PROVE  Lookups(by, key) = {d}
<1>1. \A e \in Lookups(by, key) : e = d
  BY LookupFinds DEF NoneStale
<1>2. \E e : e \in Lookups(by, key)
  BY DEF Lookups
<1> QED BY <1>1, <1>2

\* What a card that is there has, no entry that was freed has.
LEMMA OwnKeys ==
    ASSUME StaleInv, "again" \notin dtenv, NEW a \in Live
    PROVE  /\ NoneStale("card", mem[a].card) /\ NoneStale("class", mem[a].card)
           /\ NoneStale("major", mem[a].major)
BY DEF StaleInv, NoneStale, Has, HasCard, HasClass, HasMajor

\* A lookup that reads freed memory in a table of one entry finds no device there.
LEMMA OnlyFreed ==
    ASSUME DtTypeOK, NEW by, NEW key, ReadsFreed(by, key), idx <= 1, NEW a \in Live
    PROVE  ~ InTable(a)
<1>0. idx \in Nat
  BY DEF DtTypeOK, idx
<1>1. PICK i \in 1 .. idx : ~ mem[devices[i]].live
  BY DEF ReadsFreed
<1>2. i = 1 /\ idx = 1
  BY <1>0, <1>1
<1>3. \A j \in 1 .. idx : j = 1
  BY <1>2
<1> QED BY <1>1, <1>2, <1>3 DEF InTable, Live

\* Nothing wrong was done.
LEMMA NothingBad == bad' = {} => BadInv'
BY DEF BadInv, FreedUnused, ReadyWhenUsed

\* Everything but hotplug, users and bad.
Core == <<module, devices, mem, bind, bound, task, kernel, dtenv>>

\* What hotplug, users and wrong uses leave alone.
LEMMA CoreKept ==
    ASSUME DtInv, UNCHANGED Core
    PROVE  /\ BoundInv' /\ MemInv' /\ CalmInv' /\ CleanInv' /\ OffInv'
           /\ Live' = Live /\ (AfterFailure' <=> AfterFailure)
<1>1. /\ loaded' = loaded /\ driver' = driver /\ unloading' = unloading /\ loads' = loads
      /\ devices' = devices /\ mem' = mem /\ bind' = bind /\ bound' = bound /\ task' = task
      /\ chrdev' = chrdev /\ irqs' = irqs /\ region' = region /\ attrs' = attrs /\ dtenv' = dtenv
  BY DEF Core, module, kernel
<1>2. Live' = Live /\ (AfterFailure' <=> AfterFailure) /\ \A a : InTable(a)' <=> InTable(a)
  BY <1>1 DEF Live, AfterFailure, InTable, idx
<1>3. BoundInv'
  BY <1>1, <1>2 DEF DtInv, BoundInv, Sole
<1>4. MemInv'
  BY <1>1, <1>2 DEF DtInv, MemInv
<1>5. CalmInv'
  BY <1>1, <1>2 DEF DtInv, CalmInv, InTask
<1>6. CleanInv' /\ OffInv'
  BY <1>1, <1>2 DEF DtInv, CleanInv, OffInv, InTask
<1> QED BY <1>2, <1>3, <1>4, <1>5, <1>6

\* A wrong use changes nothing else.
LEMMA BadKept ==
    ASSUME DtInv, UNCHANGED <<Core, user>>, BadInv'
    PROVE  DtInv'
<1>1. /\ devices' = devices /\ mem' = mem /\ bind' = bind /\ bound' = bound /\ task' = task
      /\ chrdev' = chrdev /\ irqs' = irqs /\ region' = region /\ attrs' = attrs /\ dtenv' = dtenv
      /\ hot' = hot /\ nodes' = nodes /\ paths' = paths /\ loaded' = loaded /\ loads' = loads
  BY DEF Core, user, module, kernel
<1>2. /\ BoundInv' /\ MemInv' /\ CalmInv' /\ CleanInv' /\ OffInv' /\ Live' = Live
  BY CoreKept
<1>3. DtTypeOK'
  BY <1>1 DEF DtInv, DtTypeOK
<1>4. TaskInv'
  BY <1>1, <1>2 DEF DtInv, TaskInv, InTable, idx
<1>5. NodesInv' /\ PathsInv'
  BY <1>1, <1>2 DEF DtInv, NodesInv, PathsInv
<1> QED BY <1>2, <1>3, <1>4, <1>5 DEF DtInv

\* A major that is registered has a device, if no probe or remove is under way.
LEMMA MajorHeld ==
    ASSUME DtInv, NEW m \in chrdev, task = Idle
    PROVE  \E a \in Live : mem[a].major = m
BY DEF DtInv, MemInv, Idle

\* When the module has gone, nothing of it can be reached.
LEMMA NothingLeft ==
    ASSUME DtInv, "fail" \notin dtenv, ~ loaded
    PROVE  Live = {} /\ chrdev = {} /\ region = {} /\ \A c \in Cards : attrs[c] = {}
<1>1. task.pc = "idle" /\ \A c \in Cards : bind[c] # "bound"
  BY DEF DtInv, TaskInv, CleanInv
<1>2. \A c \in Cards : bound[c] = 0
  BY <1>1 DEF DtInv, BoundInv
<1>3. Live = {}
  <2> SUFFICES ASSUME NEW a \in Live PROVE FALSE
    OBVIOUS
  <2>1. a # 0
    BY DEF Live, Addrs
  <2>2. mem[a].card \in Cards /\ bound[mem[a].card] = a
    BY <1>1 DEF DtInv, CleanInv
  <2> QED BY <1>2, <2>1, <2>2
<1>4. chrdev = {}
  BY <1>1, <1>3 DEF DtInv, MemInv
<1>5. \A c \in Cards : c \notin region /\ attrs[c] = {}
  BY <1>1 DEF DtInv, CleanInv, InTask
<1>6. region = {}
  BY <1>5 DEF DtInv, DtTypeOK
<1> QED BY <1>3, <1>4, <1>5, <1>6

\* Wrong uses.
LEMMA TableFullStep ==
    ASSUME DtInv, NEW c \in Cards, ProbeTableFull(c)
    PROVE  DtInv'
<1>1. UNCHANGED <<Core, user>> /\ bad' = {"MAXDEV"}
  BY DEF ProbeTableFull, Core, user
<1>2. BadInv'
  BY <1>1 DEF BadInv, FreedUnused, ReadyWhenUsed
<1> QED BY <1>1, <1>2, BadKept

LEMMA GoneStep ==
    ASSUME DtInv, NEW c \in Cards, ProbeGone(c)
    PROVE  DtInv'
<1>1. UNCHANGED <<Core, user>> /\ bad' = {"gone"} /\ dtenv' = dtenv
  BY DEF ProbeGone, Core, user
<1>2. "nocard" \in dtenv
  BY DEF ProbeGone, DtInv, OffInv
<1>3. BadInv'
  BY <1>1, <1>2 DEF BadInv, FreedUnused, ReadyWhenUsed, Troubles
<1> QED BY <1>1, <1>3, BadKept

LEMMA UseStep ==
    ASSUME DtInv, NEW p \in paths, Use(p)
    PROVE  DtInv'
<1>1. UNCHANGED <<Core, user>> /\ bad' = {"path"} /\ dtenv' = dtenv
  BY DEF Use, Core, user
<1>2. dtenv \cap {"eager", "held", "again"} # {}
  BY DEF Use, DtInv, PathsInv, Live
<1>3. BadInv'
  BY <1>1, <1>2 DEF BadInv, FreedUnused, ReadyWhenUsed, Troubles
<1> QED BY <1>1, <1>3, BadKept

LEMMA ShowStep ==
    ASSUME DtInv, StaleInv, NEW c \in Cards, Show(c)
    PROVE  DtInv'
<1>1. UNCHANGED <<Core, user>> /\ dtenv' = dtenv
  BY DEF Show, Core, user
<1>2. PICK a \in Live : mem[a].card = c
  BY DEF Show, MayShow, DtInv, MemInv
<1>3. CASE loaded
  <2>1. bad' = {"attr"}
    BY <1>3 DEF Show
  <2>2. PICK d \in Lookups("card", c) : d # 0 /\ ~ mem[d].live
    BY <1>3 DEF Show
  <2>3. d \in Addrs \ Live /\ InTable(d) /\ Has(mem[d], "card", c)
    BY <2>2, LookupFinds DEF DtInv, Live
  <2>4. "again" \in dtenv
    BY <1>2, <2>3, OwnKeys DEF NoneStale
  <2>5. BadInv'
    BY <1>1, <2>1, <2>4 DEF BadInv, FreedUnused, ReadyWhenUsed, Troubles
  <2> QED BY <1>1, <2>5, BadKept
<1>4. CASE ~ loaded
  <2>1. bad' = {"gone"}
    BY <1>4 DEF Show
  <2>2. "fail" \in dtenv
    BY <1>2, <1>4, NothingLeft
  <2>3. BadInv'
    BY <1>1, <2>1, <2>2 DEF BadInv, FreedUnused, ReadyWhenUsed, Troubles
  <2> QED BY <1>1, <2>3, BadKept
<1> QED BY <1>3, <1>4

LEMMA TakeLockStep ==
    ASSUME DtInv, StaleInv, NEW c \in Cards, TakeLock(c)
    PROVE  DtInv'
<1>1. UNCHANGED <<Core, user>> /\ dtenv' = dtenv
  BY DEF TakeLock, Core, user
<1>2. PICK d \in Lookups("class", c) :
        /\ d # 0 /\ ~ (mem[d].live /\ mem[d].bkl)
        /\ bad' = {IF mem[d].live THEN "bkl" ELSE "attr"}
  BY DEF TakeLock
<1>3. d \in Addrs /\ InTable(d) /\ Has(mem[d], "class", c)
  BY <1>2, LookupFinds DEF DtInv
<1>4. CASE mem[d].live
  <2>1. d \in Live /\ mem[d].class /\ ~ mem[d].bkl /\ bad' = {"bkl"}
    BY <1>2, <1>3, <1>4 DEF Has, HasClass, Live
  <2>2. task # Idle
    BY <2>1 DEF DtInv, MemInv, Idle
  <2>3. "eager" \in dtenv
    BY <2>2 DEF TakeLock, Quiet, Happens
  <2>4. BadInv'
    BY <1>1, <2>1, <2>3 DEF BadInv, FreedUnused, ReadyWhenUsed
  <2> QED BY <1>1, <2>4, BadKept
<1>5. CASE ~ mem[d].live
  <2>1. d \in Addrs \ Live /\ bad' = {"attr"}
    BY <1>2, <1>3, <1>5 DEF Live
  <2>2. PICK a \in Live : mem[a].card = c
    BY DEF TakeLock, DtInv, MemInv
  <2>3. "again" \in dtenv
    BY <1>3, <2>1, <2>2, OwnKeys DEF NoneStale
  <2>4. BadInv'
    BY <1>1, <2>1, <2>3 DEF BadInv, FreedUnused, ReadyWhenUsed, Troubles
  <2> QED BY <1>1, <2>4, BadKept
<1> QED BY <1>4, <1>5

LEMMA InterruptStep ==
    ASSUME DtInv, NEW a \in irqs, Interrupt(a)
    PROVE  DtInv'
<1>1. /\ UNCHANGED <<Core, user>> /\ dtenv' = dtenv /\ loads' = loads
      /\ bad' = {IF ~ loaded THEN "gone" ELSE IF mem[a].live THEN "csr" ELSE "irq"}
  BY DEF Interrupt, Core, user, module
<1>2. "interrupts" \in dtenv
  BY DEF DtInv, OffInv
<1>3. bad' = {"csr"} => AfterFailure
  <2> SUFFICES ASSUME bad' = {"csr"}, ~ AfterFailure PROVE FALSE
    OBVIOUS
  <2>1. loaded /\ mem[a].live /\ ~ mem[a].csr
    BY <1>1 DEF Interrupt
  <2>2. a \in Live
    BY <2>1 DEF Live, DtInv, DtTypeOK
  <2> QED BY <2>1, <2>2 DEF DtInv, CalmInv
<1>4. AfterFailure' <=> AfterFailure
  BY <1>1 DEF AfterFailure
<1>5. bad' = {"csr"} \/ bad' = {"gone"} \/ bad' = {"irq"}
  BY <1>1
<1>6. BadInv'
  BY <1>1, <1>2, <1>3, <1>4, <1>5 DEF BadInv, FreedUnused, ReadyWhenUsed, Troubles
<1> QED BY <1>1, <1>6, BadKept

\* The hotplug script and users of nodes.
LEMMA UserKept ==
    ASSUME DtInv, UNCHANGED Core, DtTypeOK', NodesInv', PathsInv', BadInv',
           \A d \in Cards : <<"remove", d>> \in hot' => <<"remove", d>> \in hot,
           "eager" \in dtenv \/ task = Idle \/ hot' = hot
    PROVE  DtInv'
<1>1. /\ devices' = devices /\ mem' = mem /\ bind' = bind /\ bound' = bound /\ task' = task
      /\ chrdev' = chrdev /\ attrs' = attrs /\ dtenv' = dtenv /\ loaded' = loaded
  BY DEF Core, module, kernel
<1>2. BoundInv' /\ MemInv' /\ CalmInv' /\ CleanInv' /\ OffInv' /\ Live' = Live
  BY CoreKept
<1>3. TaskInv'
  <2>1. CASE task.pc \in {"unregister", "free"}
    <3>1. "eager" \in dtenv \/ hot' = hot
      BY <2>1 DEF Idle
    <3> QED BY <1>1, <1>2, <2>1, <3>1 DEF DtInv, TaskInv, InTable, idx
  <2>2. CASE task.pc \notin {"unregister", "free"}
    BY <1>1, <1>2, <2>2 DEF DtInv, TaskInv, InTable, idx
  <2> QED BY <2>1, <2>2
<1> QED BY <1>2, <1>3 DEF DtInv

LEMMA CloseStep ==
    ASSUME DtInv, bad = {}, NEW p \in paths, Close(p)
    PROVE  DtInv'
<1>1. UNCHANGED Core /\ hot' = hot /\ nodes' = nodes /\ bad' = {} /\ paths' = paths \ {p}
  BY DEF Close, Core
<1>2. /\ devices' = devices /\ mem' = mem /\ bind' = bind /\ bound' = bound /\ task' = task
      /\ chrdev' = chrdev /\ irqs' = irqs /\ region' = region /\ attrs' = attrs /\ dtenv' = dtenv
      /\ loaded' = loaded /\ loads' = loads /\ Live' = Live
  BY <1>1 DEF Core, module, kernel, Live
<1>3. DtTypeOK'
  BY <1>1, <1>2 DEF DtInv, DtTypeOK
<1>4. NodesInv' /\ PathsInv'
  BY <1>1, <1>2 DEF DtInv, NodesInv, PathsInv
<1> QED BY <1>1, <1>3, <1>4, UserKept, NothingBad

LEMMA OpenStep ==
    ASSUME DtInv, StaleInv, NEW c \in Cards, Open(c)
    PROVE  DtInv'
<1>1. /\ devices' = devices /\ mem' = mem /\ bind' = bind /\ bound' = bound /\ task' = task
      /\ chrdev' = chrdev /\ irqs' = irqs /\ region' = region /\ attrs' = attrs /\ dtenv' = dtenv
      /\ loaded' = loaded /\ loads' = loads /\ Live' = Live /\ hot' = hot /\ nodes' = nodes
  BY DEF Open, module, kernel, Live
<1>2. UNCHANGED Core /\ nodes[c] \in chrdev /\ ("eager" \in dtenv \/ task = Idle)
  BY DEF Open, MayOpen, Core, Quiet, Happens
<1>3. PICK dev \in Lookups("major", nodes[c]) :
      \/ ~ loaded /\ bad' = {"gone"} /\ paths' = paths
      \/ loaded /\ dev = 0 /\ bad' = {"assert"} /\ paths' = paths
      \/ loaded /\ dev # 0 /\ bad' = {} /\ paths' = paths \cup {[card |-> c, dev |-> dev]}
  BY DEF Open
<1>4. \/ dev = 0 /\ \A a \in Live : InTable(a) => ~ Has(mem[a], "major", nodes[c])
      \/ dev \in Addrs /\ dev # 0 /\ InTable(dev) /\ Has(mem[dev], "major", nodes[c])
  BY LookupFinds DEF DtInv
<1>5. ASSUME loaded, ~ AfterFailure, "eager" \notin dtenv
      PROVE  \E a \in Live : InTable(a) /\ mem[a].major = nodes[c]
  <2>1. PICK a \in Live : mem[a].major = nodes[c]
    BY <1>2, <1>5, MajorHeld
  <2> QED BY <1>5, <2>1 DEF DtInv, CalmInv
<1>6. AfterFailure' <=> AfterFailure
  BY <1>1 DEF AfterFailure
<1>8. NodesInv'
  BY <1>1 DEF DtInv, NodesInv
<1>9. CASE paths' = paths
  <2>1. DtTypeOK' /\ PathsInv'
    BY <1>1, <1>9 DEF DtInv, DtTypeOK, PathsInv
  <2>2. BadInv'
    <3>1. CASE ~ loaded /\ bad' = {"gone"}
      <4>1. "fail" \in dtenv
        BY <1>2, <3>1, NothingLeft
      <4> QED BY <1>1, <3>1, <4>1 DEF BadInv, FreedUnused, ReadyWhenUsed, Troubles
    <3>2. CASE loaded /\ dev = 0 /\ bad' = {"assert"}
      <4>1. "eager" \in dtenv \/ AfterFailure
        BY <1>4, <1>5, <3>2 DEF Has, HasMajor
      <4> QED BY <1>1, <1>6, <3>2, <4>1 DEF BadInv, FreedUnused, ReadyWhenUsed, Troubles
    <3>3. CASE bad' = {}
      BY <3>3, NothingBad
    <3> QED BY <1>3, <3>1, <3>2, <3>3
  <2> QED BY <1>1, <1>2, <1>8, <2>1, <2>2, UserKept
<1>10. CASE loaded /\ dev # 0 /\ bad' = {} /\ paths' = paths \cup {[card |-> c, dev |-> dev]}
  <2>1. dev \in Addrs /\ InTable(dev) /\ Has(mem[dev], "major", nodes[c]) /\ mem[dev].major = nodes[c]
    BY <1>4, <1>10 DEF Has, HasMajor
  <2>2. nodes[c] # 0
    BY <1>2 DEF DtInv, DtTypeOK, Majors
  <2>3. dtenv \cap {"eager", "again"} = {} => dev \in Live
    <3> SUFFICES ASSUME "eager" \notin dtenv, "again" \notin dtenv, dev \notin Live PROVE FALSE
      OBVIOUS
    <3>1. PICK a \in Live : mem[a].major = nodes[c]
      BY <1>2, MajorHeld
    <3> QED BY <2>1, <3>1, OwnKeys DEF NoneStale
  <2>4. DtTypeOK'
    BY <1>1, <1>10, <2>1 DEF DtInv, DtTypeOK
  <2>5. PathsInv'
    <3> SUFFICES ASSUME dtenv \cap {"eager", "held", "again"} = {}, NEW p \in paths'
                 PROVE  /\ loaded /\ p.dev \in Live /\ (task.pc \in RemovePcs => p.dev # task.dev)
                        /\ dtenv \cap {"oldnodes", "late"} = {} => mem[p.dev].card = p.card
      BY <1>1 DEF PathsInv
    <3>1. CASE p \in paths
      BY <3>1 DEF DtInv, PathsInv
    <3>2. CASE p = [card |-> c, dev |-> dev]
      <4>1. "eager" \notin dtenv /\ task.pc = "idle"
        BY <1>2 DEF Idle
      <4>2. task.pc \notin RemovePcs
        BY <4>1 DEF RemovePcs
      <4>3. dev \in Live
        BY <2>3
      <4>4. dtenv \cap {"oldnodes", "late"} = {} => mem[dev].card = c
        BY <2>1, <2>2, <4>3 DEF DtInv, NodesInv
      <4> QED BY <1>10, <3>2, <4>1, <4>2, <4>3, <4>4
    <3> QED BY <1>10, <3>1, <3>2
  <2> QED BY <1>1, <1>2, <1>8, <1>10, <2>4, <2>5, UserKept, NothingBad
<1> QED BY <1>3, <1>9, <1>10

LEMMA HotAddStep ==
    ASSUME DtInv, StaleInv, bad = {}, NEW c \in Cards, HotAdd(c)
    PROVE  DtInv'
<1>1. /\ devices' = devices /\ mem' = mem /\ bind' = bind /\ bound' = bound /\ task' = task
      /\ chrdev' = chrdev /\ irqs' = irqs /\ region' = region /\ attrs' = attrs /\ dtenv' = dtenv
      /\ loaded' = loaded /\ loads' = loads /\ Live' = Live /\ paths' = paths /\ bad' = {}
      /\ hot' = hot \ {<<"add", c>>}
  BY DEF HotAdd, module, kernel, Live
<1>2. UNCHANGED Core /\ ("eager" \in dtenv \/ task = Idle)
  BY DEF HotAdd, Core, Quiet, Happens
<1>3. \A d \in Cards : <<"remove", d>> \in hot' <=> <<"remove", d>> \in hot
  BY <1>1
<1>4. PICK m \in MajorsOf(c) : nodes' = [nodes EXCEPT ![c] = IF nodes[c] # 0 THEN nodes[c] ELSE m]
  BY DEF HotAdd
<1>5. m = 0 \/ ("class" \in attrs[c] /\ \E d \in Lookups("class", c) : d # 0 /\ m = mem[d].major)
  BY DEF MajorsOf
<1>6. m # 0 => \E d \in Addrs : /\ "class" \in attrs[c] /\ InTable(d) /\ Has(mem[d], "class", c)
                               /\ m = mem[d].major
  BY <1>5, LookupFinds DEF DtInv
<1>7. m \in Nat
  BY <1>6 DEF DtInv, DtTypeOK, Devices
<1>8. DtTypeOK'
  BY <1>1, <1>4, <1>7 DEF DtInv, DtTypeOK
<1>9. PathsInv'
  BY <1>1 DEF DtInv, PathsInv
<1>10. NodesInv'
  <2> SUFFICES ASSUME dtenv \cap {"eager", "oldnodes", "again", "late"} = {}, NEW d \in Cards,
                      nodes'[d] # 0
               PROVE  /\ \A a \in Live : mem[a].major = nodes'[d] => mem[a].card = d
                      /\ nodes'[d] \in chrdev \/ <<"remove", d>> \in hot
                      /\ task.pc = "major" => nodes'[d] # task.major
    BY <1>1, <1>3 DEF NodesInv
  <2>1. CASE nodes'[d] = nodes[d]
    BY <2>1 DEF DtInv, NodesInv
  <2>2. CASE nodes'[d] # nodes[d]
    <3>1. d = c /\ nodes'[d] = m /\ m # 0
      BY <1>4, <2>2 DEF DtInv, DtTypeOK
    <3>2. task.pc = "idle"
      BY <1>2 DEF Idle
    <3>3. PICK dev \in Addrs : /\ "class" \in attrs[c] /\ InTable(dev) /\ Has(mem[dev], "class", c)
                               /\ m = mem[dev].major
      BY <1>6, <3>1
    <3>4. PICK a \in Live : mem[a].card = c
      BY <3>3 DEF DtInv, MemInv
    <3>5. dev \in Live /\ mem[dev].card = c
      BY <3>3, <3>4, OwnKeys DEF NoneStale, Has, HasClass
    <3>6. m \in chrdev
      BY <3>1, <3>2, <3>3, <3>5 DEF DtInv, MemInv
    <3>7. \A b \in Live : mem[b].major = m => b = dev
      BY <3>1, <3>3, <3>5 DEF DtInv, MemInv
    <3> QED BY <3>1, <3>2, <3>3, <3>5, <3>6, <3>7
  <2> QED BY <2>1, <2>2
<1> QED BY <1>1, <1>2, <1>3, <1>8, <1>9, <1>10, UserKept, NothingBad

LEMMA HotRemoveStep ==
    ASSUME DtInv, bad = {}, NEW c \in Cards, HotRemove(c)
    PROVE  DtInv'
<1>1. /\ devices' = devices /\ mem' = mem /\ bind' = bind /\ bound' = bound /\ task' = task
      /\ chrdev' = chrdev /\ irqs' = irqs /\ region' = region /\ attrs' = attrs /\ dtenv' = dtenv
      /\ loaded' = loaded /\ loads' = loads /\ Live' = Live /\ paths' = paths /\ bad' = {}
      /\ hot' = hot \ {<<"remove", c>>}
      /\ nodes' = [nodes EXCEPT ![c] = IF "oldnodes" \in dtenv THEN nodes[c] ELSE 0]
  BY DEF HotRemove, module, kernel, Live, Happens
<1>2. UNCHANGED Core /\ ("eager" \in dtenv \/ task = Idle)
  BY DEF HotRemove, Core, Quiet, Happens
<1>3. \A d \in Cards : <<"remove", d>> \in hot' => <<"remove", d>> \in hot
  BY <1>1
<1>8. DtTypeOK'
  BY <1>1 DEF DtInv, DtTypeOK
<1>9. PathsInv'
  BY <1>1 DEF DtInv, PathsInv
<1>10. NodesInv'
  <2> SUFFICES ASSUME dtenv \cap {"eager", "oldnodes", "again", "late"} = {}, NEW d \in Cards,
                      nodes'[d] # 0
               PROVE  /\ \A a \in Live : mem[a].major = nodes'[d] => mem[a].card = d
                      /\ nodes'[d] \in chrdev \/ <<"remove", d>> \in hot'
                      /\ task.pc = "major" => nodes'[d] # task.major
    BY <1>1 DEF NodesInv
  <2>1. d # c /\ nodes'[d] = nodes[d]
    BY <1>1 DEF DtInv, DtTypeOK
  <2>2. <<"remove", d>> \in hot => <<"remove", d>> \in hot'
    BY <1>1, <2>1
  <2> QED BY <2>1, <2>2 DEF DtInv, NodesInv
<1> QED BY <1>1, <1>2, <1>3, <1>8, <1>9, <1>10, UserKept, NothingBad

\* The module and the cards.
LEMMA LoadStep ==
    ASSUME DtInv, bad = {}, Load
    PROVE  DtInv'
<1>1. /\ loaded' = TRUE /\ driver' = TRUE /\ loads' = loads + 1 /\ ~ loaded /\ bad' = {}
      /\ unloading' = unloading /\ devices' = devices /\ mem' = mem /\ bind' = bind
      /\ bound' = bound /\ task' = task /\ chrdev' = chrdev /\ irqs' = irqs /\ region' = region
      /\ attrs' = attrs /\ hot' = hot /\ nodes' = nodes /\ paths' = paths /\ dtenv' = dtenv
  BY DEF Load, kernel, user
<1>2. Live' = Live /\ \A a : InTable(a)' <=> InTable(a)
  BY <1>1 DEF Live, InTable, idx
<1>3. DtTypeOK'
  BY <1>1 DEF DtInv, DtTypeOK
<1>4. TaskInv'
  BY <1>1, <1>2 DEF DtInv, TaskInv
<1>5. BoundInv' /\ MemInv'
  BY <1>1, <1>2 DEF DtInv, BoundInv, MemInv, Sole
<1>6. CalmInv'
  <2> SUFFICES ASSUME ~ AfterFailure' PROVE Live = {} /\ region = {}
    <3>1. loads' # 0
      BY <1>1 DEF DtInv, DtTypeOK
    <3> QED BY <1>1, <1>2, <3>1 DEF CalmInv
  <2>1. CASE "fail" \notin dtenv
    BY <1>1, <2>1, NothingLeft
  <2>2. CASE "fail" \in dtenv
    <3>1. loads = 0 /\ ~ AfterFailure
      BY <1>1, <2>2 DEF AfterFailure, DtInv, DtTypeOK
    <3> QED BY <3>1 DEF DtInv, CalmInv
  <2> QED BY <2>1, <2>2
<1>7. CleanInv' /\ OffInv'
  BY <1>1, <1>2 DEF DtInv, CleanInv, OffInv, InTask
<1>8. NodesInv' /\ PathsInv'
  BY <1>1, <1>2 DEF DtInv, NodesInv, PathsInv
<1> QED BY <1>1, <1>3, <1>4, <1>5, <1>6, <1>7, <1>8, NothingBad DEF DtInv

LEMMA UnloadStep ==
    ASSUME DtInv, bad = {}, Unload
    PROVE  DtInv'
<1>1. /\ driver' = driver /\ loads' = loads /\ bad' = {} /\ devices' = devices /\ mem' = mem
      /\ bind' = bind /\ bound' = bound /\ task' = task /\ chrdev' = chrdev /\ irqs' = irqs
      /\ region' = region /\ attrs' = attrs /\ hot' = hot /\ nodes' = nodes /\ paths' = paths
      /\ dtenv' = dtenv /\ task.pc = "idle" /\ loaded /\ ~ unloading
      /\ "held" \in dtenv \/ paths = {}
  BY DEF Unload, kernel, user, Idle, Happens
<1>2. Live' = Live /\ (\A a : InTable(a)' <=> InTable(a)) /\ (AfterFailure' <=> AfterFailure)
  BY <1>1 DEF Live, InTable, idx, AfterFailure
<1>3. \/ loaded' = FALSE /\ unloading' = unloading /\ idx = 0 /\ "nocard" \in dtenv
      \/ loaded' = loaded /\ unloading' = TRUE
  BY DEF Unload, Happens
<1>4. idx = 0 => \A c \in Cards : bind[c] # "bound"
  BY DEF DtInv, BoundInv, InTable
<1>5. DtTypeOK' /\ TaskInv'
  BY <1>1, <1>2 DEF DtInv, DtTypeOK, TaskInv, ProbePcs, RemovePcs
<1>6. BoundInv' /\ MemInv'
  BY <1>1, <1>2 DEF DtInv, BoundInv, MemInv, Sole
<1>7. CalmInv'
  BY <1>1, <1>2, <1>3 DEF DtInv, CalmInv, InTask
<1>8. CleanInv'
  BY <1>1, <1>2, <1>3, <1>4 DEF DtInv, CleanInv, InTask
<1>9. OffInv'
  <2>1. CASE loaded' = FALSE /\ unloading' = unloading /\ "nocard" \in dtenv
    BY <1>1, <2>1 DEF DtInv, OffInv
  <2>2. CASE loaded' = loaded /\ unloading' = TRUE
    BY <1>1, <2>2 DEF DtInv, OffInv
  <2> QED BY <1>3, <2>1, <2>2
<1>10. NodesInv' /\ PathsInv'
  BY <1>1, <1>2 DEF DtInv, NodesInv, PathsInv
<1> QED BY <1>1, <1>5, <1>6, <1>7, <1>8, <1>9, <1>10, NothingBad DEF DtInv

LEMMA UnloadEndStep ==
    ASSUME DtInv, bad = {}, UnloadEnd
    PROVE  DtInv'
<1>1. /\ loaded' = FALSE /\ driver' = FALSE /\ unloading' = FALSE /\ loads' = loads /\ bad' = {}
      /\ devices' = <<>> /\ bound' = bound /\ task' = task /\ chrdev' = chrdev
      /\ irqs' = irqs /\ region' = region /\ attrs' = attrs /\ hot' = hot /\ nodes' = nodes
      /\ paths' = paths /\ dtenv' = dtenv /\ task.pc = "idle" /\ task = Idle
      /\ "held" \in dtenv \/ paths = {}
      /\ mem' = [a \in Addrs |-> IF mem[a].live THEN mem[a] ELSE Freed]
      /\ bind' = [c \in Cards |-> IF bind[c] = "failed" THEN "no" ELSE bind[c]]
  BY DEF UnloadEnd, kernel, user, Idle, Happens
<1>2. \A c \in Cards : bind[c] # "bound" /\ bind'[c] # "bound" /\ bind'[c] # "failed"
  BY <1>1 DEF UnloadEnd
<1>3. Live' = Live /\ \A a \in Live : mem'[a] = mem[a]
  <2>1. ~ Freed.live /\ Freed \in Devices
    BY DEF Freed, Devices
  <2>2. \A a \in Addrs : (mem'[a].live <=> mem[a].live) /\ (mem[a].live => mem'[a] = mem[a])
    BY <1>1, <2>1
  <2> QED BY <2>2 DEF Live
<1>4. DtTypeOK'
  <2>1. Freed \in Devices
    BY DEF Freed, Devices
  <2>2. mem' \in [Addrs -> Devices]
    BY <1>1, <2>1 DEF DtInv, DtTypeOK
  <2> QED BY <1>1, <2>2 DEF DtInv, DtTypeOK
<1>5. TaskInv'
  BY <1>1, <1>3 DEF DtInv, TaskInv, ProbePcs, RemovePcs
<1>6. BoundInv'
  BY <1>1, <1>2 DEF DtInv, BoundInv, ProbePcs
<1>7. MemInv'
  <2>0. /\ task' = task /\ task.pc = "idle" /\ chrdev' = chrdev /\ region' = region
        /\ attrs' = attrs
    BY <1>1
  <2>1. \A a \in Live : /\ mem'[a].card \in region
                        /\ mem'[a].major # 0 => mem'[a].major \in chrdev
                        /\ mem'[a].class => mem'[a].bkl
    BY <1>3, <2>0 DEF DtInv, MemInv
  <2>2. \A a, b \in Live : mem'[a].major = mem'[b].major /\ mem'[a].major # 0 => a = b
    BY <1>3 DEF DtInv, MemInv
  <2>3. \A m \in chrdev : \E a \in Live : mem'[a].major = m
    BY <1>3, <2>0 DEF DtInv, MemInv
  <2>4. \A c \in Cards : "dev" \in attrs[c] \/ "class" \in attrs[c] => \E a \in Live : mem'[a].card = c
    BY <1>3 DEF DtInv, MemInv
  <2> QED BY <1>3, <2>0, <2>1, <2>2, <2>3, <2>4 DEF MemInv
<1>8. CalmInv'
  BY <1>1, <1>3 DEF DtInv, CalmInv, AfterFailure
<1>9. CleanInv'
  BY <1>1, <1>2, <1>3 DEF DtInv, CleanInv, InTask
<1>10. OffInv'
  BY <1>1 DEF DtInv, OffInv
<1>11. NodesInv' /\ PathsInv'
  BY <1>1, <1>3 DEF DtInv, NodesInv, PathsInv
<1> QED BY <1>1, <1>4, <1>5, <1>6, <1>7, <1>8, <1>9, <1>10, <1>11, NothingBad DEF DtInv

\* A card that is not under probe or remove changes its standing.
LEMMA PlugStep ==
    ASSUME DtInv, bad = {}, NEW c \in Cards, Plug(c)
    PROVE  DtInv'
<1>1. /\ loaded' = loaded /\ driver' = driver /\ unloading' = unloading /\ loads' = loads
      /\ bad' = {} /\ devices' = devices /\ mem' = mem /\ bound' = bound /\ task' = task
      /\ chrdev' = chrdev /\ irqs' = irqs /\ region' = region /\ attrs' = attrs /\ hot' = hot
      /\ nodes' = nodes /\ paths' = paths /\ dtenv' = dtenv
      /\ bind[c] = "absent" /\ bind' = [bind EXCEPT ![c] = "no"]
  BY DEF Plug, module, kernel, user
<1>2. Live' = Live /\ (\A a : InTable(a)' <=> InTable(a)) /\ (AfterFailure' <=> AfterFailure)
  BY <1>1 DEF Live, InTable, idx, AfterFailure
<1>3. /\ bind'[c] = "no" /\ \A d \in Cards : d # c => bind'[d] = bind[d]
  BY <1>1 DEF DtInv, DtTypeOK
<1>4. DtTypeOK'
  BY <1>1 DEF DtInv, DtTypeOK
<1>5. TaskInv'
  <2>1. task.pc \in RemovePcs => bind'[task.card] = "bound"
    BY <1>1, <1>3 DEF DtInv, TaskInv, RemovePcs
  <2>2. task.pc \in ProbePcs => bind'[task.card] = "no"
    BY <1>1, <1>3 DEF DtInv, TaskInv, ProbePcs
  <2> QED BY <1>1, <1>2, <2>1, <2>2 DEF DtInv, TaskInv
<1>6. BoundInv'
  BY <1>1, <1>2, <1>3 DEF DtInv, BoundInv, Sole
<1>7. MemInv'
  BY <1>1, <1>2 DEF DtInv, MemInv
<1>8. CalmInv'
  BY <1>1, <1>2, <1>3 DEF DtInv, DtTypeOK, CalmInv, InTask
<1>9. CleanInv'
  BY <1>1, <1>2, <1>3 DEF DtInv, CleanInv, InTask
<1>10. OffInv' /\ NodesInv' /\ PathsInv'
  BY <1>1, <1>2 DEF DtInv, OffInv, NodesInv, PathsInv
<1> QED BY <1>1, <1>4, <1>5, <1>6, <1>7, <1>8, <1>9, <1>10, NothingBad DEF DtInv

LEMMA PullStep ==
    ASSUME DtInv, bad = {}, NEW c \in Cards, Pull(c)
    PROVE  DtInv'
<1>1. /\ loaded' = loaded /\ driver' = driver /\ unloading' = unloading /\ loads' = loads
      /\ bad' = {} /\ devices' = devices /\ mem' = mem /\ bound' = bound /\ task' = task
      /\ chrdev' = chrdev /\ irqs' = irqs /\ region' = region /\ hot' = hot
      /\ nodes' = nodes /\ paths' = paths /\ dtenv' = dtenv
      /\ bind[c] = "failed" /\ bind' = [bind EXCEPT ![c] = "absent"]
      /\ attrs' = [attrs EXCEPT ![c] = attrs[c] \ {"dev", "pool"}]
  BY DEF Pull, module, user
<1>2. Live' = Live /\ (\A a : InTable(a)' <=> InTable(a)) /\ (AfterFailure' <=> AfterFailure)
  BY <1>1 DEF Live, InTable, idx, AfterFailure
<1>3. /\ bind'[c] = "absent" /\ \A d \in Cards : d # c => bind'[d] = bind[d]
      /\ \A d \in Cards : attrs'[d] \subseteq attrs[d]
  BY <1>1 DEF DtInv, DtTypeOK
<1>4. DtTypeOK'
  BY <1>1 DEF DtInv, DtTypeOK
<1>5. TaskInv'
  <2>1. task.pc \in RemovePcs => bind'[task.card] = "bound"
    BY <1>1, <1>3 DEF DtInv, TaskInv, RemovePcs
  <2>2. task.pc \in ProbePcs => bind'[task.card] = "no"
    BY <1>1, <1>3 DEF DtInv, TaskInv, ProbePcs
  <2>3. task.pc \in {"unregister", "free"} =>
             task.card \in Cards /\ "dev" \notin attrs'[task.card] /\ "class" \notin attrs'[task.card]
    BY <1>3 DEF DtInv, TaskInv
  <2> QED BY <1>1, <1>2, <2>1, <2>2, <2>3 DEF DtInv, TaskInv
<1>6. BoundInv'
  BY <1>1, <1>2, <1>3 DEF DtInv, BoundInv, Sole
<1>7. MemInv'
  BY <1>1, <1>2, <1>3 DEF DtInv, MemInv
<1>8. AfterFailure
  BY <1>1 DEF Pull, Happens, DtInv, CleanInv, AfterFailure
<1>9. CalmInv' /\ CleanInv'
  BY <1>1, <1>2, <1>8 DEF CalmInv, CleanInv, AfterFailure
<1>10. OffInv' /\ NodesInv' /\ PathsInv'
  BY <1>1, <1>2 DEF DtInv, OffInv, NodesInv, PathsInv
<1> QED BY <1>1, <1>4, <1>5, <1>6, <1>7, <1>9, <1>10, NothingBad DEF DtInv

\* A probe.
LEMMA ProbeCreateStep ==
    ASSUME DtInv, bad = {}, NEW c \in Cards, ProbeCreate(c)
    PROVE  DtInv'
<1>1. /\ loaded' = loaded /\ driver' = driver /\ unloading' = unloading /\ loads' = loads
      /\ bad' = {} /\ bind' = bind /\ bound' = bound /\ chrdev' = chrdev /\ irqs' = irqs
      /\ hot' = hot /\ nodes' = nodes /\ paths' = paths /\ dtenv' = dtenv
      /\ loaded /\ task = Idle /\ bind[c] = "no"
      /\ region' = region \cup {c}
      /\ attrs' = [attrs EXCEPT ![c] = attrs[c] \cup {"pool"}]
  BY DEF ProbeCreate, Probing, module, user
<1>2. PICK a \in Addrs :
        /\ a \notin Live /\ devices' = Append(devices, a)
        /\ mem' = [mem EXCEPT ![a] = [live |-> TRUE, card |-> c, major |-> 0, csr |-> c \notin region,
                                      class |-> FALSE, bkl |-> FALSE]]
        /\ task' = [pc |-> "enable", card |-> c, dev |-> a, major |-> 0, rc |-> "ok"]
  <2>1. PICK a \in Free :
        /\ devices' = Append(devices, a)
        /\ mem' = [mem EXCEPT ![a] = NewDevice(c)] /\ task' = Started("enable", c, a)
    BY DEF ProbeCreate
  <2>2. a \in Addrs /\ ~ mem[a].live
    BY <2>1 DEF Free
  <2> QED BY <2>1, <2>2 DEF Live, NewDevice, CanMap, Started
<1>3. task.pc = "idle" /\ task'.pc = "enable" /\ task'.card = c /\ task'.dev = a /\ task'.rc = "ok"
  BY <1>1, <1>2 DEF Idle
<1>4. /\ \A b \in Addrs : b # a => mem'[b] = mem[b]
      /\ mem'[a].live /\ mem'[a].card = c /\ mem'[a].major = 0 /\ (mem'[a].csr <=> c \notin region)
      /\ ~ mem'[a].class /\ ~ mem'[a].bkl
  BY <1>2 DEF DtInv, DtTypeOK
<1>5. Live' = Live \cup {a}
  <2>1. \A b : b \in Live' <=> b \in Live \cup {a}
    BY <1>2, <1>4 DEF Live
  <2> QED BY <2>1, Zenon
<1>6. \A b \in Live : b \in Live' /\ b # a /\ mem'[b] = mem[b]
  BY <1>2, <1>4, <1>5 DEF Live
<1>7. InTable(a)' /\ \A b : InTable(b) => InTable(b)'
  <2>1. devices \in Seq(Addrs) /\ Len(devices) \in Nat
    BY DEF DtInv, DtTypeOK
  <2>2. devices' \in Seq(Addrs) /\ Len(devices') = Len(devices) + 1 /\ devices'[Len(devices) + 1] = a
        /\ \A i \in 1 .. Len(devices) : devices'[i] = devices[i]
    BY <1>2, <2>1
  <2>3. Len(devices) + 1 \in 1 .. Len(devices') /\ 1 .. Len(devices) \subseteq 1 .. Len(devices')
    BY <2>1, <2>2
  <2> QED BY <2>2, <2>3 DEF InTable, idx
<1>8. AfterFailure' <=> AfterFailure
  BY <1>1 DEF AfterFailure
<1>9. DtTypeOK'
  <2>1. devices' \in Seq(Addrs)
    BY <1>2 DEF DtInv, DtTypeOK
  <2>2. mem' \in [Addrs -> Devices]
    <3>1. [live |-> TRUE, card |-> c, major |-> 0, csr |-> c \notin region, class |-> FALSE,
           bkl |-> FALSE] \in Devices
      BY DEF Devices
    <3> QED BY <1>2, <3>1 DEF DtInv, DtTypeOK
  <2>3. task' \in [pc : {"idle"} \cup ProbePcs \cup RemovePcs, card : Cards \cup {NoCard},
                 dev : Nat, major : Nat, rc : {"ok", "fail"}]
    <3>1. a \in Nat /\ "enable" \in ProbePcs
      BY DEF Addrs, ProbePcs
    <3> QED BY <1>2, <3>1
  <2>4. attrs' \in [Cards -> SUBSET {"pool", "dev", "class"}] /\ region' \subseteq Cards
    BY <1>1 DEF DtInv, DtTypeOK
  <2> QED BY <1>1, <2>1, <2>2, <2>3, <2>4 DEF DtInv, DtTypeOK
<1>10. TaskInv'
  BY <1>1, <1>3, <1>4, <1>5, <1>7 DEF TaskInv, ProbePcs, RemovePcs
<1>11. BoundInv'
  <2>1. mem'[a].csr => Sole(c, a)'
    <3> SUFFICES ASSUME mem'[a].csr, NEW b \in Live', mem'[b].card = c PROVE b = a
      BY DEF Sole
    <3> QED BY <1>4, <1>5, <1>6 DEF DtInv, MemInv
  <2>2. ASSUME NEW d \in Cards, bind[d] = "bound"
        PROVE  /\ bound[d] \in Live' /\ Sole(d, bound[d])' /\ InTable(bound[d])'
               /\ LET e == mem'[bound[d]] IN e.card = d /\ e.class /\ e.major # 0
    <3>1. d # c /\ bound[d] \in Live /\ Sole(d, bound[d]) /\ InTable(bound[d])
      BY <1>1, <2>2 DEF DtInv, BoundInv
    <3>2. Sole(d, bound[d])'
      BY <1>1, <1>4, <1>5, <1>6, <3>1 DEF Sole
    <3> QED BY <1>1, <1>6, <1>7, <2>2, <3>1, <3>2 DEF DtInv, BoundInv
  <2> QED BY <1>1, <1>3, <2>1, <2>2 DEF DtInv, BoundInv
<1>12. MemInv'
  <2>1. \A b \in Live' : mem'[b].card \in region'
    BY <1>1, <1>4, <1>5, <1>6 DEF DtInv, MemInv
  <2>2. \A b \in Live' : mem'[b].major # 0 => b \in Live /\ mem'[b].major \in chrdev
    BY <1>3, <1>4, <1>5, <1>6 DEF DtInv, MemInv
  <2>3. \A b, d \in Live' : mem'[b].major = mem'[d].major /\ mem'[b].major # 0 => b = d
    BY <1>6, <2>2 DEF DtInv, MemInv
  <2>4. \A b \in Live' : mem'[b].class => mem'[b].bkl
    BY <1>3, <1>4, <1>5, <1>6 DEF DtInv, MemInv
  <2>5. \A m \in chrdev : \E b \in Live' : mem'[b].major = m
    BY <1>3, <1>6 DEF DtInv, MemInv
  <2>6. \A d \in Cards : "dev" \in attrs'[d] \/ "class" \in attrs'[d] => \E b \in Live' : mem'[b].card = d
    <3> TAKE d \in Cards
    <3>1. ("dev" \in attrs'[d] => "dev" \in attrs[d]) /\ ("class" \in attrs'[d] => "class" \in attrs[d])
      BY <1>1 DEF DtInv, DtTypeOK
    <3> QED BY <1>6, <3>1 DEF DtInv, MemInv
  <2> QED BY <1>1, <2>1, <2>2, <2>3, <2>4, <2>5, <2>6 DEF MemInv
<1>13. CalmInv'
  <2> SUFFICES ASSUME ~ AfterFailure
               PROVE  /\ loads # 0
                      /\ \A b \in Live' : InTable(b)' /\ mem'[b].csr
                      /\ \A d \in region' : bind[d] \in {"bound", "failed"} \/ InTask(d)'
    BY <1>1, <1>8 DEF CalmInv
  <2>1. /\ loads # 0
        /\ \A b \in Live : InTable(b) /\ mem[b].csr
        /\ \A d \in region : bind[d] \in {"bound", "failed"} \/ InTask(d)
    BY <1>1 DEF DtInv, CalmInv
  <2>2. c \notin region
    BY <1>1, <1>3, <2>1 DEF InTask
  <2>3. \A d \in region : bind[d] \in {"bound", "failed"}
    BY <1>3, <2>1 DEF InTask
  <2>4. InTask(c)'
    BY <1>3 DEF InTask
  <2> QED BY <1>1, <1>4, <1>5, <1>6, <1>7, <2>1, <2>2, <2>3, <2>4
<1>14. CleanInv'
  <2> SUFFICES ASSUME "fail" \notin dtenv
               PROVE  /\ \A b \in Live : mem[b].card \in Cards /\ bound[mem[b].card] = b
                      /\ \A d \in Cards : bind[d] # "failed"
                      /\ \A d \in Cards : d # c => (d \in region \/ attrs[d] # {} => bind[d] = "bound")
    <3>1. \A d \in Cards : d # c => attrs'[d] = attrs[d]
      BY <1>1 DEF DtInv, DtTypeOK
    <3>2. InTask(c)'
      BY <1>3 DEF InTask
    <3> QED BY <1>1, <1>3, <1>4, <1>5, <1>6, <3>1, <3>2 DEF CleanInv
  <2> QED BY <1>3 DEF DtInv, CleanInv, InTask
<1>15. OffInv'
  BY <1>1, <1>3 DEF DtInv, OffInv
<1>16. NodesInv'
  BY <1>1, <1>3, <1>4, <1>5, <1>6 DEF DtInv, NodesInv
<1>17. PathsInv'
  BY <1>1, <1>3, <1>6 DEF DtInv, PathsInv, RemovePcs
<1> QED BY <1>1, <1>9, <1>10, <1>11, <1>12, <1>13, <1>14, <1>15, <1>16, <1>17, NothingBad DEF DtInv

\* A step of a probe that changes no device and no major.
LEMMA ProbeKept ==
    ASSUME DtInv, task.pc \in ProbePcs \ {"major"}, task'.pc \in ProbePcs \ {"major"},
           task'.card = task.card, task'.dev = task.dev,
           task.pc \in {"class", "bkl"} => task'.pc \in {"class", "bkl"},
           task'.rc = "ok" \/ "fail" \in dtenv,
           UNCHANGED <<module, devices, mem, bind, bound, chrdev, region, user, dtenv>>,
           \A d \in Cards : attrs'[d] = attrs[d] \/ d = task.card
    PROVE  BoundInv' /\ MemInv' /\ CalmInv' /\ CleanInv' /\ NodesInv' /\ PathsInv' /\ Live' = Live
<1>1. /\ loaded' = loaded /\ loads' = loads /\ devices' = devices /\ mem' = mem /\ bind' = bind
      /\ bound' = bound /\ chrdev' = chrdev /\ region' = region /\ hot' = hot /\ nodes' = nodes
      /\ paths' = paths /\ dtenv' = dtenv
  BY DEF module, user
<1>2. /\ Live' = Live /\ (\A a : InTable(a)' <=> InTable(a)) /\ (AfterFailure' <=> AfterFailure)
  BY <1>1 DEF Live, InTable, idx, AfterFailure
<1>3. /\ task.pc # "idle" /\ task'.pc # "idle" /\ task.pc \notin RemovePcs
      /\ task'.pc \notin RemovePcs /\ task.pc # "free" /\ task'.pc # "free"
      /\ task.pc # "major" /\ task'.pc # "major"
  BY DEF ProbePcs, RemovePcs
<1>4. \A c \in Cards : InTask(c)' <=> InTask(c)
  BY <1>3 DEF InTask
<1>5. BoundInv'
  BY <1>1, <1>2 DEF DtInv, BoundInv, Sole
<1>6. MemInv'
  <2>1. \A c \in Cards : "dev" \in attrs'[c] \/ "class" \in attrs'[c] => \E a \in Live : mem[a].card = c
    <3> TAKE c \in Cards
    <3>1. CASE c = task.card
      BY <1>3, <3>1 DEF DtInv, TaskInv
    <3>2. CASE attrs'[c] = attrs[c]
      BY <3>2 DEF DtInv, MemInv
    <3> QED BY <3>1, <3>2
  <2> QED BY <1>1, <1>2, <1>3, <2>1 DEF DtInv, MemInv
<1>7. CalmInv'
  BY <1>1, <1>2, <1>4 DEF DtInv, DtTypeOK, CalmInv
<1>8. CleanInv'
  <2>1. \A c \in Cards : c = task.card => InTask(c)
    BY <1>3 DEF InTask
  <2> QED BY <1>1, <1>2, <1>3, <1>4, <2>1 DEF DtInv, CleanInv
<1>9. NodesInv'
  BY <1>1, <1>2, <1>3 DEF DtInv, NodesInv
<1>10. PathsInv'
  BY <1>1, <1>2, <1>3 DEF DtInv, PathsInv
<1> QED BY <1>2, <1>5, <1>6, <1>7, <1>8, <1>9, <1>10

\* What is known of the task and the types when only its pc changes.
LEMMA ThenTask ==
    ASSUME DtTypeOK, NEW l, l \in {"idle"} \cup ProbePcs \cup RemovePcs, Then(l)
    PROVE  /\ task'.pc = l /\ task'.card = task.card /\ task'.dev = task.dev
           /\ task'.major = task.major /\ task'.rc = task.rc
           /\ task' \in [pc : {"idle"} \cup ProbePcs \cup RemovePcs, card : Cards \cup {NoCard},
                         dev : Nat, major : Nat, rc : {"ok", "fail"}]
BY DEF Then, DtTypeOK

LEMMA ProbeEnableStep ==
    ASSUME DtInv, bad = {}, ProbeEnable
    PROVE  DtInv'
<1>1. /\ UNCHANGED <<module, devices, mem, bind, bound, kernel, user, dtenv>> /\ bad' = {}
      /\ task.pc = "enable" /\ Then("chrdev") /\ DtTypeOK
  BY DEF ProbeEnable, Probe, DtInv
<1>2. "chrdev" \in {"idle"} \cup ProbePcs \cup RemovePcs
  BY DEF ProbePcs
<1>3. /\ task'.pc = "chrdev" /\ task'.card = task.card /\ task'.dev = task.dev /\ task'.rc = task.rc
      /\ task' \in [pc : {"idle"} \cup ProbePcs \cup RemovePcs, card : Cards \cup {NoCard},
                    dev : Nat, major : Nat, rc : {"ok", "fail"}]
  BY <1>1, <1>2, ThenTask
<1>4. task.rc = "ok" \/ "fail" \in dtenv
  BY DEF DtInv, CleanInv
<1>5. BoundInv' /\ MemInv' /\ CalmInv' /\ CleanInv' /\ NodesInv' /\ PathsInv' /\ Live' = Live
  BY <1>1, <1>3, <1>4, ProbeKept DEF kernel, ProbePcs
<1>6. DtTypeOK' /\ OffInv'
  BY <1>1, <1>3 DEF DtInv, DtTypeOK, OffInv, module, kernel, user
<1>7. TaskInv'
  BY <1>1, <1>3, <1>5 DEF DtInv, TaskInv, ProbePcs, RemovePcs, InTable, idx, module, kernel, user
<1> QED BY <1>1, <1>5, <1>6, <1>7, NothingBad DEF DtInv

LEMMA ProbeIrqStep ==
    ASSUME DtInv, bad = {}, ProbeIrq
    PROVE  DtInv'
<1>1. /\ UNCHANGED <<module, devices, mem, bind, bound, chrdev, region, attrs, user, dtenv>>
      /\ bad' = {} /\ task.pc = "irq" /\ Then("setup") /\ DtTypeOK
      /\ irqs' = irqs \cup {task.dev}
  BY DEF ProbeIrq, Probe, DtInv
<1>2. "setup" \in {"idle"} \cup ProbePcs \cup RemovePcs
  BY DEF ProbePcs
<1>3. /\ task'.pc = "setup" /\ task'.card = task.card /\ task'.dev = task.dev /\ task'.rc = task.rc
      /\ task' \in [pc : {"idle"} \cup ProbePcs \cup RemovePcs, card : Cards \cup {NoCard},
                    dev : Nat, major : Nat, rc : {"ok", "fail"}]
  BY <1>1, <1>2, ThenTask
<1>4. task.rc = "ok" \/ "fail" \in dtenv
  BY DEF DtInv, CleanInv
<1>5. BoundInv' /\ MemInv' /\ CalmInv' /\ CleanInv' /\ NodesInv' /\ PathsInv' /\ Live' = Live
  BY <1>1, <1>3, <1>4, ProbeKept DEF ProbePcs
<1>6. task.dev \in Addrs /\ "interrupts" \in dtenv
  BY <1>1 DEF DtInv, TaskInv, Live, OffInv
<1>7. DtTypeOK' /\ OffInv'
  BY <1>1, <1>3, <1>6 DEF DtInv, DtTypeOK, OffInv, module, user
<1>8. TaskInv'
  BY <1>1, <1>3, <1>5 DEF DtInv, TaskInv, ProbePcs, RemovePcs, InTable, idx, module, user
<1> QED BY <1>1, <1>5, <1>7, <1>8, NothingBad DEF DtInv

LEMMA ProbeSetupStep ==
    ASSUME DtInv, bad = {}, ProbeSetup
    PROVE  DtInv'
<1>1. /\ UNCHANGED <<module, devices, mem, bind, bound, kernel, user, dtenv>>
      /\ task.pc = "setup" /\ DtTypeOK
      /\ \/ mem[task.dev].csr /\ Then("channels") /\ bad' = {}
         \/ ~ mem[task.dev].csr /\ bad' = {"csr"} /\ task' = task
  BY DEF ProbeSetup, Probe, DtInv
<1>2. CASE ~ mem[task.dev].csr /\ bad' = {"csr"} /\ task' = task
  <2>1. UNCHANGED <<Core, user>> /\ dtenv' = dtenv /\ loads' = loads
    BY <1>1, <1>2 DEF Core, user, module
  <2>2. task.dev \in Live /\ loaded
    BY <1>1 DEF DtInv, TaskInv
  <2>3. AfterFailure
    BY <1>2, <2>2 DEF DtInv, CalmInv
  <2>4. AfterFailure'
    BY <2>1, <2>3 DEF AfterFailure
  <2>5. BadInv'
    BY <1>2, <2>4 DEF BadInv, FreedUnused, ReadyWhenUsed
  <2> QED BY <2>1, <2>5, BadKept
<1>3. CASE mem[task.dev].csr /\ Then("channels") /\ bad' = {}
  <2>1. "channels" \in {"idle"} \cup ProbePcs \cup RemovePcs
    BY DEF ProbePcs
  <2>2. /\ task'.pc = "channels" /\ task'.card = task.card /\ task'.dev = task.dev
        /\ task'.rc = task.rc
        /\ task' \in [pc : {"idle"} \cup ProbePcs \cup RemovePcs, card : Cards \cup {NoCard},
                      dev : Nat, major : Nat, rc : {"ok", "fail"}]
    BY <1>1, <1>3, <2>1, ThenTask
  <2>3. task.rc = "ok" \/ "fail" \in dtenv
    BY DEF DtInv, CleanInv
  <2>4. BoundInv' /\ MemInv' /\ CalmInv' /\ CleanInv' /\ NodesInv' /\ PathsInv' /\ Live' = Live
    BY <1>1, <2>2, <2>3, ProbeKept DEF kernel, ProbePcs
  <2>5. DtTypeOK' /\ OffInv'
    BY <1>1, <2>2 DEF DtInv, DtTypeOK, OffInv, module, kernel, user
  <2>6. TaskInv'
    BY <1>1, <1>3, <2>2, <2>4
       DEF DtInv, TaskInv, ProbePcs, RemovePcs, InTable, idx, module, kernel, user
  <2> QED BY <1>3, <2>4, <2>5, <2>6, NothingBad DEF DtInv
<1> QED BY <1>1, <1>2, <1>3

LEMMA ProbeChannelsStep ==
    ASSUME DtInv, bad = {}, ProbeChannels
    PROVE  DtInv'
<1>1. /\ UNCHANGED <<module, devices, mem, bind, bound, kernel, user, dtenv>> /\ bad' = {}
      /\ task.pc = "channels" /\ DtTypeOK
  BY DEF ProbeChannels, Probe, DtInv
<1>2. PICK rc \in {"ok", "fail"} : /\ task' = [task EXCEPT !.pc = "publish", !.rc = rc]
                                   /\ rc = "ok" \/ "fail" \in dtenv
  BY DEF ProbeChannels, Happens
<1>3. /\ task'.pc = "publish" /\ task'.card = task.card /\ task'.dev = task.dev /\ task'.rc = rc
      /\ task' \in [pc : {"idle"} \cup ProbePcs \cup RemovePcs, card : Cards \cup {NoCard},
                    dev : Nat, major : Nat, rc : {"ok", "fail"}]
  BY <1>1, <1>2 DEF DtTypeOK, ProbePcs
<1>4. BoundInv' /\ MemInv' /\ CalmInv' /\ CleanInv' /\ NodesInv' /\ PathsInv' /\ Live' = Live
  BY <1>1, <1>2, <1>3, ProbeKept DEF kernel, ProbePcs
<1>5. DtTypeOK' /\ OffInv'
  BY <1>1, <1>3 DEF DtInv, DtTypeOK, OffInv, module, kernel, user
<1>6. TaskInv'
  BY <1>1, <1>3, <1>4 DEF DtInv, TaskInv, ProbePcs, RemovePcs, InTable, idx, module, kernel, user
<1> QED BY <1>1, <1>4, <1>5, <1>6, NothingBad DEF DtInv

LEMMA ProbeClassStep ==
    ASSUME DtInv, bad = {}, ProbeClass
    PROVE  DtInv'
<1>1. /\ UNCHANGED <<module, devices, mem, bind, bound, chrdev, irqs, region, user, dtenv>>
      /\ bad' = {} /\ task.pc = "class" /\ Then("bkl") /\ DtTypeOK
      /\ attrs' = [attrs EXCEPT ![task.card] = attrs[task.card] \cup {"class"}]
  BY DEF ProbeClass, Probe, DtInv
<1>2. "bkl" \in {"idle"} \cup ProbePcs \cup RemovePcs
  BY DEF ProbePcs
<1>3. /\ task'.pc = "bkl" /\ task'.card = task.card /\ task'.dev = task.dev /\ task'.rc = task.rc
      /\ task' \in [pc : {"idle"} \cup ProbePcs \cup RemovePcs, card : Cards \cup {NoCard},
                    dev : Nat, major : Nat, rc : {"ok", "fail"}]
  BY <1>1, <1>2, ThenTask
<1>4. task.rc = "ok" \/ "fail" \in dtenv
  BY DEF DtInv, CleanInv
<1>5. /\ \A d \in Cards : attrs'[d] = attrs[d] \/ d = task.card
      /\ attrs' \in [Cards -> SUBSET {"pool", "dev", "class"}]
  BY <1>1 DEF DtTypeOK
<1>6. BoundInv' /\ MemInv' /\ CalmInv' /\ CleanInv' /\ NodesInv' /\ PathsInv' /\ Live' = Live
  BY <1>1, <1>3, <1>4, <1>5, ProbeKept DEF ProbePcs
<1>7. DtTypeOK' /\ OffInv'
  BY <1>1, <1>3, <1>5 DEF DtInv, DtTypeOK, OffInv, module, user
<1>8. TaskInv'
  BY <1>1, <1>3, <1>6 DEF DtInv, TaskInv, ProbePcs, RemovePcs, InTable, idx, module, user
<1> QED BY <1>1, <1>6, <1>7, <1>8, NothingBad DEF DtInv

LEMMA ProbeFailsStep ==
    ASSUME DtInv, bad = {}, ProbeFails
    PROVE  DtInv'
<1>1. /\ loaded' = loaded /\ driver' = driver /\ unloading' = unloading /\ loads' = loads
      /\ bad' = {} /\ devices' = devices /\ mem' = mem /\ bound' = bound /\ task' = Idle
      /\ chrdev' = chrdev /\ irqs' = irqs /\ region' = region /\ attrs' = attrs /\ hot' = hot
      /\ nodes' = nodes /\ paths' = paths /\ dtenv' = dtenv /\ "fail" \in dtenv
      /\ task.pc \in {"enable", "chrdev", "irq", "setup"}
      /\ bind' = [bind EXCEPT ![task.card] = "failed"]
  BY DEF ProbeFails, Happens, module, kernel, user
<1>2. /\ Live' = Live /\ (\A a : InTable(a)' <=> InTable(a)) /\ (AfterFailure' <=> AfterFailure)
      /\ task'.pc = "idle" /\ task.pc \in ProbePcs
  BY <1>1 DEF Live, InTable, idx, AfterFailure, Idle, ProbePcs
<1>3. task.card \in Cards /\ bind[task.card] = "no" /\ bound[task.card] = 0
  BY <1>1, <1>2 DEF DtInv, TaskInv, BoundInv
<1>4. bind'[task.card] = "failed" /\ \A d \in Cards : d # task.card => bind'[d] = bind[d]
  BY <1>1, <1>3 DEF DtInv, DtTypeOK
<1>5. DtTypeOK'
  BY <1>1, <1>3 DEF DtInv, DtTypeOK, Idle
<1>6. TaskInv'
  BY <1>1, <1>2 DEF TaskInv, ProbePcs, RemovePcs
<1>7. BoundInv'
  BY <1>1, <1>2, <1>3, <1>4 DEF DtInv, BoundInv, Sole, ProbePcs
<1>8. MemInv'
  BY <1>1, <1>2 DEF DtInv, MemInv
<1>9. CalmInv'
  BY <1>1, <1>2, <1>4 DEF DtInv, DtTypeOK, CalmInv, InTask
<1>10. CleanInv'
  BY <1>1 DEF CleanInv
<1>11. OffInv' /\ NodesInv'
  BY <1>1, <1>2 DEF DtInv, OffInv, NodesInv
<1>12. PathsInv'
  BY <1>1, <1>2 DEF DtInv, PathsInv, RemovePcs
<1> QED BY <1>1, <1>5, <1>6, <1>7, <1>8, <1>9, <1>10, <1>11, <1>12, NothingBad DEF DtInv

LEMMA ProbeChrdevStep ==
    ASSUME DtInv, StaleInv, LagInv, bad = {}, ProbeChrdev
    PROVE  DtInv'
<1>1. /\ loaded' = loaded /\ driver' = driver /\ unloading' = unloading /\ loads' = loads
      /\ bad' = {} /\ devices' = devices /\ mem' = mem /\ bind' = bind /\ bound' = bound
      /\ irqs' = irqs /\ region' = region /\ attrs' = attrs /\ hot' = hot
      /\ nodes' = nodes /\ paths' = paths /\ dtenv' = dtenv /\ task.pc = "chrdev"
  BY DEF ProbeChrdev, Probe, module, user
<1>2. PICK m \in Majors \ chrdev :
         chrdev' = chrdev \cup {m} /\ task' = [task EXCEPT !.pc = "major", !.major = m]
  BY DEF ProbeChrdev
<1>3. /\ task'.pc = "major" /\ task'.card = task.card /\ task'.dev = task.dev
      /\ task'.rc = task.rc /\ task'.major = m /\ m \in Nat /\ m # 0
      /\ task' \in [pc : {"idle"} \cup ProbePcs \cup RemovePcs, card : Cards \cup {NoCard},
                    dev : Nat, major : Nat, rc : {"ok", "fail"}]
  <2>1. m \in Nat /\ m # 0
    BY DEF Majors
  <2> QED BY <1>2, <2>1 DEF DtInv, DtTypeOK, ProbePcs
<1>4. /\ Live' = Live /\ (\A a : InTable(a)' <=> InTable(a)) /\ (AfterFailure' <=> AfterFailure)
      /\ \A c \in Cards : InTask(c)' <=> InTask(c)
  BY <1>1, <1>3 DEF Live, InTable, idx, AfterFailure, InTask
<1>5. DtTypeOK'
  BY <1>1, <1>2, <1>3 DEF DtInv, DtTypeOK
<1>6. \A a \in Live : mem[a].major # m
  BY <1>1, <1>2, <1>3 DEF DtInv, MemInv
<1>7. TaskInv'
  BY <1>1, <1>2, <1>3, <1>4, <1>6 DEF DtInv, TaskInv, ProbePcs, RemovePcs
<1>8. BoundInv'
  BY <1>1, <1>3, <1>4 DEF DtInv, BoundInv, Sole, ProbePcs
<1>9. MemInv'
  BY <1>1, <1>2, <1>3, <1>4 DEF DtInv, MemInv
<1>10. CalmInv'
  BY <1>1, <1>4 DEF DtInv, DtTypeOK, CalmInv
<1>11. CleanInv'
  BY <1>1, <1>3, <1>4 DEF DtInv, CleanInv
<1>12. OffInv'
  BY <1>1, <1>3 DEF DtInv, OffInv
<1>13. NodesInv'
  <2> SUFFICES ASSUME dtenv \cap {"eager", "oldnodes", "again", "late"} = {}, NEW c \in Cards,
                      nodes[c] # 0
               PROVE  nodes[c] \in chrdev
    BY <1>1, <1>2, <1>3, <1>4 DEF DtInv, NodesInv
  <2>1. <<"remove", c>> \notin hot
    <3>1. task.pc \in ProbePcs /\ loaded /\ task.pc \notin {"unregister", "free"}
      BY <1>1 DEF DtInv, TaskInv, ProbePcs
    <3> QED BY <3>1 DEF StaleInv, LagInv
  <2> QED BY <2>1 DEF DtInv, NodesInv
<1>14. PathsInv'
  BY <1>1, <1>3, <1>4 DEF DtInv, PathsInv, RemovePcs
<1> QED BY <1>1, <1>5, <1>7, <1>8, <1>9, <1>10, <1>11, <1>12, <1>13, <1>14, NothingBad DEF DtInv

LEMMA ProbeMajorStep ==
    ASSUME DtInv, bad = {}, ProbeMajor
    PROVE  DtInv'
<1>1. /\ loaded' = loaded /\ driver' = driver /\ unloading' = unloading /\ loads' = loads
      /\ bad' = {} /\ devices' = devices /\ bind' = bind /\ bound' = bound
      /\ chrdev' = chrdev /\ irqs' = irqs /\ region' = region /\ attrs' = attrs /\ hot' = hot
      /\ nodes' = nodes /\ paths' = paths /\ dtenv' = dtenv /\ task.pc = "major"
      /\ mem' = [mem EXCEPT ![task.dev].major = task.major]
  BY DEF ProbeMajor, Probe, module, kernel, user
<1>2. PICK l \in {"irq", "setup"} : Then(l) /\ (l = "irq" => "interrupts" \in dtenv)
  BY DEF ProbeMajor, Happens
<1>3. l \in {"idle"} \cup ProbePcs \cup RemovePcs
  BY DEF ProbePcs
<1>4. /\ task'.pc = l /\ task'.card = task.card /\ task'.dev = task.dev /\ task'.rc = task.rc
      /\ task' \in [pc : {"idle"} \cup ProbePcs \cup RemovePcs, card : Cards \cup {NoCard},
                    dev : Nat, major : Nat, rc : {"ok", "fail"}]
  BY <1>2, <1>3, ThenTask DEF DtInv
<1>5. /\ task.dev \in Live /\ task.dev \in Addrs /\ task.major # 0 /\ task.major \in Nat
      /\ task.major \in chrdev /\ \A a \in Live : mem[a].major # task.major
  BY <1>1 DEF DtInv, TaskInv, Live, DtTypeOK, Majors
<1>6. /\ mem' \in [Addrs -> Devices] /\ mem'[task.dev].major = task.major
      /\ \A a \in Addrs : /\ mem'[a].live = mem[a].live /\ mem'[a].card = mem[a].card
                          /\ mem'[a].csr = mem[a].csr /\ mem'[a].class = mem[a].class
                          /\ mem'[a].bkl = mem[a].bkl
      /\ \A a \in Addrs : a # task.dev => mem'[a].major = mem[a].major
  <2>1. mem \in [Addrs -> Devices]
    BY DEF DtInv, DtTypeOK
  <2>2. mem[task.dev] \in Devices /\ mem'[task.dev] = [mem[task.dev] EXCEPT !.major = task.major]
    BY <1>1, <1>5, <2>1
  <2>3. /\ mem'[task.dev] \in Devices /\ mem'[task.dev].major = task.major
        /\ mem'[task.dev].live = mem[task.dev].live /\ mem'[task.dev].card = mem[task.dev].card
        /\ mem'[task.dev].csr = mem[task.dev].csr /\ mem'[task.dev].class = mem[task.dev].class
        /\ mem'[task.dev].bkl = mem[task.dev].bkl
    BY <1>5, <2>2 DEF Devices
  <2>4. \A a \in Addrs : a # task.dev => mem'[a] = mem[a]
    BY <1>1, <2>1
  <2>5. mem' \in [Addrs -> Devices]
    BY <1>1, <1>5, <2>1, <2>2, <2>3
  <2> QED BY <2>3, <2>4, <2>5
<1>7. /\ Live' = Live /\ (\A a : InTable(a)' <=> InTable(a)) /\ (AfterFailure' <=> AfterFailure)
      /\ (\A c \in Cards : InTask(c)' <=> InTask(c)) /\ Live \subseteq Addrs
  BY <1>1, <1>4, <1>6 DEF Live, InTable, idx, AfterFailure, InTask
<1>8. DtTypeOK'
  BY <1>1, <1>4, <1>6 DEF DtInv, DtTypeOK
<1>9. TaskInv'
  BY <1>1, <1>4, <1>5, <1>6, <1>7 DEF DtInv, TaskInv, ProbePcs, RemovePcs
<1>10. BoundInv'
  <2>1. \A c, d : Sole(c, d)' <=> Sole(c, d)
    BY <1>6, <1>7 DEF Sole
  <2>2. task'.pc \in ProbePcs /\ mem'[task.dev].csr => Sole(task.card, task.dev)'
    BY <1>1, <1>4, <1>5, <1>6, <2>1 DEF DtInv, BoundInv, ProbePcs
  <2>3. ASSUME NEW c \in Cards, bind[c] = "bound"
        PROVE  /\ bound[c] \in Live /\ Sole(c, bound[c]) /\ InTable(bound[c])
               /\ LET d == mem'[bound[c]] IN d.card = c /\ d.class /\ d.major # 0
    BY <1>5, <1>6, <1>7, <2>3 DEF DtInv, BoundInv
  <2>4. \A c \in Cards : bound[c] # 0 <=> bind[c] = "bound"
    BY DEF DtInv, BoundInv
  <2> QED BY <1>1, <1>4, <1>7, <2>1, <2>2, <2>3, <2>4 DEF BoundInv
<1>11. MemInv'
  <2>1. \A a \in Live : /\ mem'[a].card \in region
                        /\ mem'[a].major # 0 => mem'[a].major \in chrdev
                        /\ mem'[a].class => mem'[a].bkl
    BY <1>1, <1>5, <1>6, <1>7 DEF DtInv, MemInv
  <2>2. \A a, b \in Live : mem'[a].major = mem'[b].major /\ mem'[a].major # 0 => a = b
    BY <1>5, <1>6, <1>7 DEF DtInv, MemInv
  <2>3. \A m \in chrdev : \E a \in Live : mem'[a].major = m
    <3> TAKE m \in chrdev
    <3>1. CASE m = task.major
      BY <1>5, <1>6, <3>1
    <3>2. CASE m # task.major
      <4>1. PICK a \in Live : mem[a].major = m
        BY <3>2 DEF DtInv, MemInv
      <4>2. a # task.dev
        <5>1. m # 0
          BY DEF DtInv, DtTypeOK, Majors
        <5> QED BY <1>1, <4>1, <5>1 DEF DtInv, TaskInv
      <4> QED BY <1>6, <1>7, <4>1, <4>2
    <3> QED BY <3>1, <3>2
  <2>4. \A c \in Cards : "dev" \in attrs[c] \/ "class" \in attrs[c] => \E a \in Live : mem'[a].card = c
    BY <1>6, <1>7 DEF DtInv, MemInv
  <2> QED BY <1>1, <1>7, <2>1, <2>2, <2>3, <2>4 DEF MemInv
<1>12. CalmInv'
  BY <1>1, <1>6, <1>7 DEF DtInv, DtTypeOK, CalmInv
<1>13. CleanInv'
  BY <1>1, <1>4, <1>6, <1>7 DEF DtInv, CleanInv
<1>14. OffInv'
  BY <1>1, <1>2, <1>4 DEF DtInv, OffInv
<1>15. NodesInv'
  <2> SUFFICES ASSUME dtenv \cap {"eager", "oldnodes", "again", "late"} = {}, NEW c \in Cards,
                      nodes[c] # 0
               PROVE  /\ \A a \in Live : mem'[a].major = nodes[c] => mem'[a].card = c
                      /\ nodes[c] \in chrdev \/ <<"remove", c>> \in hot
    BY <1>1, <1>4, <1>7 DEF NodesInv
  <2>1. nodes[c] # task.major
    BY <1>1 DEF DtInv, NodesInv
  <2> QED BY <1>6, <1>7, <2>1 DEF DtInv, NodesInv
<1>16. PathsInv'
  BY <1>1, <1>4, <1>6, <1>7 DEF DtInv, PathsInv, RemovePcs
<1> QED BY <1>1, <1>8, <1>9, <1>10, <1>11, <1>12, <1>13, <1>14, <1>15, <1>16, NothingBad DEF DtInv

LEMMA ProbePublishStep ==
    ASSUME DtInv, bad = {}, ProbePublish
    PROVE  DtInv'
<1>1. /\ loaded' = loaded /\ driver' = driver /\ unloading' = unloading /\ loads' = loads
      /\ bad' = {} /\ devices' = devices /\ bind' = bind /\ bound' = bound
      /\ chrdev' = chrdev /\ irqs' = irqs /\ region' = region /\ nodes' = nodes /\ paths' = paths
      /\ dtenv' = dtenv /\ task.pc = "publish" /\ Then("class")
      /\ mem' = [mem EXCEPT ![task.dev].class = TRUE]
      /\ hot' = hot \cup {<<"add", task.card>>}
      /\ attrs' = [attrs EXCEPT ![task.card] = attrs[task.card] \cup {"dev"}]
  BY DEF ProbePublish, Probe, CreateFiles, module
<1>2. "class" \in {"idle"} \cup ProbePcs \cup RemovePcs
  BY DEF ProbePcs
<1>3. /\ task'.pc = "class" /\ task'.card = task.card /\ task'.dev = task.dev /\ task'.rc = task.rc
      /\ task' \in [pc : {"idle"} \cup ProbePcs \cup RemovePcs, card : Cards \cup {NoCard},
                    dev : Nat, major : Nat, rc : {"ok", "fail"}]
  BY <1>1, <1>2, ThenTask DEF DtInv
<1>4. task.dev \in Live /\ task.dev \in Addrs /\ task.card \in Cards /\ mem[task.dev].card = task.card
  BY <1>1 DEF DtInv, TaskInv, Live
<1>5. /\ mem' \in [Addrs -> Devices] /\ mem'[task.dev].class
      /\ \A a \in Addrs : /\ mem'[a].live = mem[a].live /\ mem'[a].card = mem[a].card
                          /\ mem'[a].csr = mem[a].csr /\ mem'[a].major = mem[a].major
                          /\ mem'[a].bkl = mem[a].bkl
      /\ \A a \in Addrs : a # task.dev => mem'[a].class = mem[a].class
  <2>1. mem \in [Addrs -> Devices]
    BY DEF DtInv, DtTypeOK
  <2>2. mem[task.dev] \in Devices /\ mem'[task.dev] = [mem[task.dev] EXCEPT !.class = TRUE]
    BY <1>1, <1>4, <2>1
  <2>3. /\ mem'[task.dev] \in Devices /\ mem'[task.dev].class
        /\ mem'[task.dev].live = mem[task.dev].live /\ mem'[task.dev].card = mem[task.dev].card
        /\ mem'[task.dev].csr = mem[task.dev].csr /\ mem'[task.dev].major = mem[task.dev].major
        /\ mem'[task.dev].bkl = mem[task.dev].bkl
    BY <2>2 DEF Devices
  <2>4. \A a \in Addrs : a # task.dev => mem'[a] = mem[a]
    BY <1>1, <2>1
  <2>5. mem' \in [Addrs -> Devices]
    BY <1>1, <1>4, <2>1, <2>2, <2>3
  <2> QED BY <2>3, <2>4, <2>5
<1>6. /\ Live' = Live /\ (\A a : InTable(a)' <=> InTable(a)) /\ (AfterFailure' <=> AfterFailure)
      /\ (\A c \in Cards : InTask(c)' <=> InTask(c)) /\ Live \subseteq Addrs
  BY <1>1, <1>3, <1>5 DEF Live, InTable, idx, AfterFailure, InTask
<1>7. /\ \A d \in Cards : d # task.card => attrs'[d] = attrs[d]
      /\ attrs' \in [Cards -> SUBSET {"pool", "dev", "class"}]
      /\ \A d \in Cards : <<"remove", d>> \in hot' <=> <<"remove", d>> \in hot
  BY <1>1 DEF DtInv, DtTypeOK
<1>8. DtTypeOK'
  BY <1>1, <1>3, <1>5, <1>7 DEF DtInv, DtTypeOK
<1>9. TaskInv'
  BY <1>1, <1>3, <1>4, <1>5, <1>6, <1>7 DEF DtInv, TaskInv, ProbePcs, RemovePcs
<1>10. BoundInv'
  <2>1. \A c, d : Sole(c, d)' <=> Sole(c, d)
    BY <1>5, <1>6 DEF Sole
  <2>2. task'.pc \in ProbePcs /\ mem'[task.dev].csr => Sole(task.card, task.dev)
    BY <1>1, <1>4, <1>5 DEF DtInv, BoundInv, ProbePcs
  <2>3. ASSUME NEW c \in Cards, bind[c] = "bound"
        PROVE  /\ bound[c] \in Live /\ Sole(c, bound[c]) /\ InTable(bound[c])
               /\ LET d == mem'[bound[c]] IN d.card = c /\ d.class /\ d.major # 0
    BY <1>5, <1>6, <2>3 DEF DtInv, BoundInv
  <2>4. \A c \in Cards : bound[c] # 0 <=> bind[c] = "bound"
    BY DEF DtInv, BoundInv
  <2> QED BY <1>1, <1>3, <1>6, <2>1, <2>2, <2>3, <2>4 DEF BoundInv
<1>11. MemInv'
  <2>1. \A a \in Live : /\ mem'[a].card \in region
                        /\ mem'[a].major # 0 => mem'[a].major \in chrdev
                        /\ mem'[a].class => mem'[a].bkl \/ a = task.dev
    BY <1>1, <1>5, <1>6 DEF DtInv, MemInv
  <2>2. \A a, b \in Live : mem'[a].major = mem'[b].major /\ mem'[a].major # 0 => a = b
    BY <1>5, <1>6 DEF DtInv, MemInv
  <2>3. \A m \in chrdev : \E a \in Live : mem'[a].major = m
    BY <1>1, <1>5, <1>6 DEF DtInv, MemInv
  <2>4. \A c \in Cards : "dev" \in attrs'[c] \/ "class" \in attrs'[c] => \E a \in Live : mem'[a].card = c
    <3> TAKE c \in Cards
    <3>1. CASE c = task.card
      BY <1>4, <1>5, <3>1
    <3>2. CASE c # task.card
      BY <1>5, <1>6, <1>7, <3>2 DEF DtInv, MemInv
    <3> QED BY <3>1, <3>2
  <2> QED BY <1>1, <1>3, <1>6, <2>1, <2>2, <2>3, <2>4 DEF MemInv
<1>12. CalmInv'
  BY <1>1, <1>5, <1>6 DEF DtInv, DtTypeOK, CalmInv
<1>13. CleanInv'
  <2>1. InTask(task.card)
    BY <1>1 DEF InTask
  <2> QED BY <1>1, <1>3, <1>5, <1>6, <1>7, <2>1 DEF DtInv, CleanInv
<1>14. OffInv'
  BY <1>1, <1>3 DEF DtInv, OffInv
<1>15. NodesInv'
  BY <1>1, <1>3, <1>5, <1>6, <1>7 DEF DtInv, NodesInv
<1>16. PathsInv'
  BY <1>1, <1>3, <1>5, <1>6 DEF DtInv, PathsInv, RemovePcs
<1> QED BY <1>1, <1>8, <1>9, <1>10, <1>11, <1>12, <1>13, <1>14, <1>15, <1>16, NothingBad DEF DtInv

LEMMA ProbeEndStep ==
    ASSUME DtInv, bad = {}, ProbeEnd
    PROVE  DtInv'
<1> DEFINE ok == task.rc = "ok"
<1>1. /\ loaded' = loaded /\ driver' = driver /\ unloading' = unloading /\ loads' = loads
      /\ bad' = {} /\ devices' = devices
      /\ chrdev' = chrdev /\ irqs' = irqs /\ region' = region /\ attrs' = attrs /\ hot' = hot
      /\ nodes' = nodes /\ paths' = paths /\ dtenv' = dtenv /\ task.pc = "bkl" /\ task' = Idle
      /\ mem' = [mem EXCEPT ![task.dev].bkl = TRUE]
      /\ bind' = [bind EXCEPT ![task.card] = IF ok THEN "bound" ELSE "failed"]
      /\ bound' = [bound EXCEPT ![task.card] = IF ok THEN task.dev ELSE 0]
  BY DEF ProbeEnd, Probe, module, kernel, user
<1>2. task'.pc = "idle" /\ task'.rc = "ok" /\ task.pc \in ProbePcs
  BY <1>1 DEF Idle, ProbePcs
<1>3. /\ task.dev \in Live /\ task.dev \in Addrs /\ task.dev \in Nat /\ task.dev # 0
      /\ task.card \in Cards /\ mem[task.dev].card = task.card /\ InTable(task.dev)
      /\ mem[task.dev].csr /\ mem[task.dev].class /\ mem[task.dev].major # 0
      /\ bind[task.card] = "no" /\ bound[task.card] = 0 /\ Sole(task.card, task.dev)
  <2>1. /\ task.dev \in Live /\ task.card \in Cards /\ mem[task.dev].card = task.card
        /\ InTable(task.dev) /\ mem[task.dev].csr /\ mem[task.dev].class
        /\ mem[task.dev].major # 0 /\ bind[task.card] = "no"
    BY <1>1 DEF DtInv, TaskInv, ProbePcs
  <2>2. task.dev \in Addrs /\ task.dev \in Nat /\ task.dev # 0
    BY <2>1 DEF Live, Addrs
  <2>3. bound[task.card] = 0 /\ Sole(task.card, task.dev)
    BY <1>2, <2>1 DEF DtInv, BoundInv
  <2> QED BY <2>1, <2>2, <2>3
<1>4. /\ mem' \in [Addrs -> Devices] /\ mem'[task.dev].bkl
      /\ \A a \in Addrs : /\ mem'[a].live = mem[a].live /\ mem'[a].card = mem[a].card
                          /\ mem'[a].csr = mem[a].csr /\ mem'[a].major = mem[a].major
                          /\ mem'[a].class = mem[a].class
      /\ \A a \in Addrs : a # task.dev => mem'[a].bkl = mem[a].bkl
  <2>1. mem \in [Addrs -> Devices]
    BY DEF DtInv, DtTypeOK
  <2>2. mem[task.dev] \in Devices /\ mem'[task.dev] = [mem[task.dev] EXCEPT !.bkl = TRUE]
    BY <1>1, <1>3, <2>1
  <2>3. /\ mem'[task.dev] \in Devices /\ mem'[task.dev].bkl
        /\ mem'[task.dev].live = mem[task.dev].live /\ mem'[task.dev].card = mem[task.dev].card
        /\ mem'[task.dev].csr = mem[task.dev].csr /\ mem'[task.dev].major = mem[task.dev].major
        /\ mem'[task.dev].class = mem[task.dev].class
    BY <2>2 DEF Devices
  <2>4. \A a \in Addrs : a # task.dev => mem'[a] = mem[a]
    BY <1>1, <2>1
  <2>5. mem' \in [Addrs -> Devices]
    BY <1>1, <1>3, <2>1, <2>2, <2>3
  <2> QED BY <2>3, <2>4, <2>5
<1>5. /\ Live' = Live /\ (\A a : InTable(a)' <=> InTable(a)) /\ (AfterFailure' <=> AfterFailure)
      /\ Live \subseteq Addrs
  BY <1>1, <1>4 DEF Live, InTable, idx, AfterFailure
<1>6. /\ bind'[task.card] = IF ok THEN "bound" ELSE "failed"
      /\ bound'[task.card] = IF ok THEN task.dev ELSE 0
      /\ \A d \in Cards : d # task.card => bind'[d] = bind[d] /\ bound'[d] = bound[d]
      /\ bind' \in [Cards -> {"absent", "no", "bound", "failed"}] /\ bound' \in [Cards -> Nat]
  BY <1>1, <1>3 DEF DtInv, DtTypeOK
<1> HIDE DEF ok
<1>7. DtTypeOK'
  <2>1. task' \in [pc : {"idle"} \cup ProbePcs \cup RemovePcs, card : Cards \cup {NoCard},
                   dev : Nat, major : Nat, rc : {"ok", "fail"}]
    BY <1>1 DEF Idle
  <2> QED BY <1>1, <1>4, <1>6, <2>1 DEF DtInv, DtTypeOK
<1>8. TaskInv'
  BY <1>1, <1>2 DEF TaskInv, ProbePcs, RemovePcs
<1>9. BoundInv'
  <2>1. \A c, d : Sole(c, d)' <=> Sole(c, d)
    BY <1>4, <1>5 DEF Sole
  <2>2. \A c \in Cards : bound'[c] # 0 <=> bind'[c] = "bound"
    BY <1>3, <1>6 DEF DtInv, BoundInv
  <2>3. ASSUME NEW c \in Cards, bind'[c] = "bound"
        PROVE  /\ bound'[c] \in Live /\ Sole(c, bound'[c]) /\ InTable(bound'[c])
               /\ LET d == mem'[bound'[c]] IN d.card = c /\ d.class /\ d.major # 0
    <3>1. CASE c = task.card
      <4>1. bound'[c] = task.dev
        BY <1>6, <2>3, <3>1
      <4> QED BY <1>3, <1>4, <3>1, <4>1
    <3>2. CASE c # task.card
      BY <1>4, <1>5, <1>6, <2>3, <3>2 DEF DtInv, BoundInv
    <3> QED BY <3>1, <3>2
  <2>4. task'.pc \notin ProbePcs
    BY <1>2 DEF ProbePcs
  <2> QED BY <1>5, <2>1, <2>2, <2>3, <2>4 DEF BoundInv
<1>10. MemInv'
  <2>1. \A a \in Live : /\ mem'[a].card \in region
                        /\ mem'[a].major # 0 => mem'[a].major \in chrdev
                        /\ mem'[a].class => mem'[a].bkl
    BY <1>1, <1>4, <1>5 DEF DtInv, MemInv
  <2>2. \A a, b \in Live : mem'[a].major = mem'[b].major /\ mem'[a].major # 0 => a = b
    BY <1>4, <1>5 DEF DtInv, MemInv
  <2>3. \A m \in chrdev : \E a \in Live : mem'[a].major = m
    BY <1>1, <1>4, <1>5 DEF DtInv, MemInv
  <2>4. \A c \in Cards : "dev" \in attrs[c] \/ "class" \in attrs[c] => \E a \in Live : mem'[a].card = c
    BY <1>4, <1>5 DEF DtInv, MemInv
  <2> QED BY <1>1, <1>5, <2>1, <2>2, <2>3, <2>4 DEF MemInv
<1>11. CalmInv'
  <2>1. \A c \in region : c \in Cards
    BY DEF DtInv, DtTypeOK
  <2> QED BY <1>1, <1>4, <1>5, <1>6, <2>1 DEF DtInv, CalmInv, InTask
<1>12. CleanInv'
  <2> SUFFICES ASSUME "fail" \notin dtenv
               PROVE  /\ \A a \in Live : mem[a].card \in Cards /\ bound'[mem[a].card] = a
                      /\ \A c \in Cards : bind'[c] # "failed"
                      /\ \A c \in Cards : c \in region \/ attrs[c] # {} => bind'[c] = "bound"
    <3>1. loaded
      BY <1>2 DEF DtInv, TaskInv, ProbePcs
    <3> QED BY <1>1, <1>2, <1>4, <1>5, <3>1 DEF CleanInv
  <2>1. bind'[task.card] = "bound" /\ bound'[task.card] = task.dev
    BY <1>6 DEF DtInv, CleanInv, ok
  <2>2. ASSUME NEW a \in Live PROVE mem[a].card \in Cards /\ bound'[mem[a].card] = a
    <3>1. CASE a = task.dev
      BY <1>3, <2>1, <3>1
    <3>2. CASE a # task.dev
      <4>1. mem[a].card \in Cards /\ bound[mem[a].card] = a
        BY <3>2 DEF DtInv, CleanInv
      <4>2. mem[a].card # task.card
        BY <1>3, <3>2 DEF Sole
      <4> QED BY <1>6, <4>1, <4>2
    <3> QED BY <3>1, <3>2
  <2> QED BY <1>1, <1>6, <2>1, <2>2 DEF DtInv, CleanInv, InTask
<1>13. OffInv'
  BY <1>1, <1>2 DEF DtInv, OffInv
<1>14. NodesInv'
  BY <1>1, <1>2, <1>4, <1>5 DEF DtInv, NodesInv
<1>15. PathsInv'
  BY <1>1, <1>2, <1>4, <1>5 DEF DtInv, PathsInv, RemovePcs
<1> QED BY <1>1, <1>7, <1>8, <1>9, <1>10, <1>11, <1>12, <1>13, <1>14, <1>15, NothingBad DEF DtInv

\* A remove.
LEMMA RemoveStep ==
    ASSUME DtInv, StaleInv, bad = {}, NEW c \in Cards, Remove(c)
    PROVE  DtInv'
<1>1. /\ UNCHANGED <<module, devices, mem, bind, bound, kernel, user, dtenv>>
      /\ task = Idle /\ task.pc = "idle" /\ bind[c] = "bound" /\ MayGo(c) /\ DtTypeOK
  BY DEF Remove, MayRemove, DtInv, Idle
<1>0. PICK dev \in Lookups("card", c) :
         \/ ~ mem[dev].live /\ bad' = {"remove"} /\ task' = task
         \/ mem[dev].live /\ task' = Started("attrs", c, dev) /\ bad' = {}
  BY DEF Remove
<1>2. /\ bound[c] \in Live /\ Sole(c, bound[c]) /\ InTable(bound[c]) /\ mem[bound[c]].card = c
  BY <1>1 DEF DtInv, BoundInv
<1>6. dev \in Addrs /\ InTable(dev) /\ Has(mem[dev], "card", c) /\ mem[dev].card = c
  BY <1>1, <1>2, LookupFinds DEF Has, HasCard
<1>3. loaded
  BY DEF Remove, MayRemove, Probing, DtInv, OffInv
<1>4. CASE ~ mem[dev].live /\ bad' = {"remove"} /\ task' = task
  <2>1. UNCHANGED <<Core, user>> /\ dtenv' = dtenv
    BY <1>1, <1>4 DEF Core, user
  <2>2. dev \in Addrs \ Live
    BY <1>4, <1>6 DEF Live
  <2>3. "again" \in dtenv
    BY <1>2, <1>6, <2>2, OwnKeys DEF NoneStale
  <2>4. BadInv'
    BY <1>4, <2>1, <2>3 DEF BadInv, FreedUnused, ReadyWhenUsed, Troubles
  <2> QED BY <2>1, <2>4, BadKept
<1>5. CASE mem[dev].live /\ task' = Started("attrs", c, dev) /\ bad' = {}
  <2>1. dev = bound[c]
    BY <1>2, <1>5, <1>6 DEF Sole, Live
  <2>2. bound[c] \in Nat
    BY DEF DtInv, DtTypeOK
  <2>3. /\ task'.pc = "attrs" /\ task'.card = c /\ task'.dev = bound[c] /\ task'.rc = "ok"
        /\ task' \in [pc : {"idle"} \cup ProbePcs \cup RemovePcs, card : Cards \cup {NoCard},
                      dev : Nat, major : Nat, rc : {"ok", "fail"}]
    BY <1>5, <2>1, <2>2 DEF Started, RemovePcs
  <2>4. /\ loaded' = loaded /\ driver' = driver /\ unloading' = unloading /\ loads' = loads
        /\ devices' = devices /\ mem' = mem /\ bind' = bind /\ bound' = bound
        /\ chrdev' = chrdev /\ irqs' = irqs /\ region' = region /\ attrs' = attrs /\ hot' = hot
        /\ nodes' = nodes /\ paths' = paths /\ dtenv' = dtenv
    BY <1>1 DEF module, kernel, user
  <2>5. /\ Live' = Live /\ (\A a : InTable(a)' <=> InTable(a)) /\ (AfterFailure' <=> AfterFailure)
        /\ \A d : InTask(d) => InTask(d)'
    BY <1>1, <2>4 DEF Live, InTable, idx, AfterFailure, InTask
  <2>6. DtTypeOK'
    BY <1>1, <2>3, <2>4 DEF DtTypeOK
  <2>7. TaskInv'
    BY <1>1, <1>2, <1>3, <2>3, <2>4, <2>5 DEF TaskInv, ProbePcs, RemovePcs
  <2>8. BoundInv'
    BY <2>3, <2>4, <2>5 DEF DtInv, BoundInv, Sole, ProbePcs
  <2>9. MemInv'
    BY <1>1, <2>3, <2>4, <2>5 DEF DtInv, MemInv
  <2>10. CalmInv'
    BY <2>4, <2>5 DEF DtInv, CalmInv
  <2>11. CleanInv'
    BY <1>1, <2>3, <2>4, <2>5 DEF DtInv, CleanInv
  <2>12. OffInv' /\ NodesInv'
    BY <2>3, <2>4, <2>5 DEF DtInv, OffInv, NodesInv
  <2>13. PathsInv'
    BY <1>1, <2>3, <2>4, <2>5 DEF DtInv, PathsInv, MayGo, Happens
  <2> QED BY <1>5, <2>6, <2>7, <2>8, <2>9, <2>10, <2>11, <2>12, <2>13, NothingBad DEF DtInv
<1> QED BY <1>0, <1>4, <1>5

LEMMA RemoveAttrsStep ==
    ASSUME DtInv, bad = {}, RemoveAttrs
    PROVE  DtInv'
<1>1. /\ loaded' = loaded /\ driver' = driver /\ unloading' = unloading /\ loads' = loads
      /\ bad' = {} /\ devices' = devices /\ mem' = mem /\ bind' = bind /\ bound' = bound
      /\ chrdev' = chrdev /\ irqs' = irqs /\ region' = region /\ nodes' = nodes /\ paths' = paths
      /\ dtenv' = dtenv /\ task.pc = "attrs" /\ Then("unregister")
      /\ hot' = hot \cup {<<"remove", task.card>>}
      /\ attrs' = [attrs EXCEPT ![task.card] = attrs[task.card] \ {"dev", "class"}]
  BY DEF RemoveAttrs, Probe, RemoveFiles, module
<1>2. "unregister" \in {"idle"} \cup ProbePcs \cup RemovePcs
  BY DEF RemovePcs
<1>3. /\ task'.pc = "unregister" /\ task'.card = task.card /\ task'.dev = task.dev
      /\ task'.rc = task.rc
      /\ task' \in [pc : {"idle"} \cup ProbePcs \cup RemovePcs, card : Cards \cup {NoCard},
                    dev : Nat, major : Nat, rc : {"ok", "fail"}]
  BY <1>1, <1>2, ThenTask DEF DtInv
<1>4. task.card \in Cards
  BY <1>1 DEF DtInv, TaskInv
<1>5. /\ Live' = Live /\ (\A a : InTable(a)' <=> InTable(a)) /\ (AfterFailure' <=> AfterFailure)
      /\ \A c \in Cards : InTask(c)' <=> InTask(c)
  BY <1>1, <1>3 DEF Live, InTable, idx, AfterFailure, InTask
<1>6. /\ "dev" \notin attrs'[task.card] /\ "class" \notin attrs'[task.card]
      /\ \A d \in Cards : attrs'[d] \subseteq attrs[d]
      /\ attrs' \in [Cards -> SUBSET {"pool", "dev", "class"}]
  BY <1>1, <1>4 DEF DtInv, DtTypeOK
<1>7. DtTypeOK'
  BY <1>1, <1>3, <1>6 DEF DtInv, DtTypeOK
<1>8. TaskInv'
  BY <1>1, <1>3, <1>5, <1>6 DEF DtInv, TaskInv, ProbePcs, RemovePcs
<1>9. BoundInv'
  BY <1>1, <1>3, <1>5 DEF DtInv, BoundInv, Sole, ProbePcs
<1>10. MemInv'
  BY <1>1, <1>3, <1>5, <1>6 DEF DtInv, MemInv
<1>11. CalmInv'
  BY <1>1, <1>5 DEF DtInv, DtTypeOK, CalmInv
<1>12. CleanInv'
  <2>1. \A c \in Cards : attrs'[c] # {} => attrs[c] # {}
    BY <1>6
  <2> QED BY <1>1, <1>3, <1>5, <2>1 DEF DtInv, CleanInv
<1>13. OffInv' /\ NodesInv'
  BY <1>1, <1>3, <1>5 DEF DtInv, OffInv, NodesInv
<1>14. PathsInv'
  BY <1>1, <1>3, <1>5 DEF DtInv, PathsInv, RemovePcs
<1> QED BY <1>1, <1>7, <1>8, <1>9, <1>10, <1>11, <1>12, <1>13, <1>14, NothingBad DEF DtInv

LEMMA RemoveChrdevStep ==
    ASSUME DtInv, bad = {}, RemoveChrdev
    PROVE  DtInv'
<1>1. /\ loaded' = loaded /\ driver' = driver /\ unloading' = unloading /\ loads' = loads
      /\ bad' = {} /\ devices' = devices /\ mem' = mem /\ bind' = bind /\ bound' = bound
      /\ irqs' = irqs /\ region' = region /\ attrs' = attrs /\ hot' = hot /\ nodes' = nodes
      /\ paths' = paths /\ dtenv' = dtenv /\ task.pc = "unregister" /\ Then("free")
      /\ chrdev' = chrdev \ {mem[task.dev].major}
  BY DEF RemoveChrdev, Probe, module, user
<1>2. "free" \in {"idle"} \cup ProbePcs \cup RemovePcs
  BY DEF RemovePcs
<1>3. /\ task'.pc = "free" /\ task'.card = task.card /\ task'.dev = task.dev
      /\ task'.rc = task.rc
      /\ task' \in [pc : {"idle"} \cup ProbePcs \cup RemovePcs, card : Cards \cup {NoCard},
                    dev : Nat, major : Nat, rc : {"ok", "fail"}]
  BY <1>1, <1>2, ThenTask DEF DtInv
<1>4. /\ Live' = Live /\ (\A a : InTable(a)' <=> InTable(a)) /\ (AfterFailure' <=> AfterFailure)
      /\ \A c \in Cards : InTask(c)' <=> InTask(c)
  BY <1>1, <1>3 DEF Live, InTable, idx, AfterFailure, InTask
<1>5. /\ task.dev \in Live /\ task.card \in Cards /\ mem[task.dev].card = task.card
  BY <1>1 DEF DtInv, TaskInv
<1>6. DtTypeOK'
  BY <1>1, <1>3 DEF DtInv, DtTypeOK
<1>7. TaskInv'
  BY <1>1, <1>3, <1>4 DEF DtInv, TaskInv, ProbePcs, RemovePcs
<1>8. BoundInv'
  BY <1>1, <1>3, <1>4 DEF DtInv, BoundInv, Sole, ProbePcs
<1>9. MemInv'
  <2>1. \A a \in Live : mem[a].major # 0 => mem[a].major \in chrdev' \/ task.dev = a
    BY <1>1, <1>5 DEF DtInv, MemInv
  <2>2. \A m \in chrdev' : \E a \in Live : mem[a].major = m
    BY <1>1 DEF DtInv, MemInv
  <2> QED BY <1>1, <1>3, <1>4, <2>1, <2>2 DEF DtInv, MemInv
<1>10. CalmInv'
  BY <1>1, <1>4 DEF DtInv, DtTypeOK, CalmInv
<1>11. CleanInv'
  BY <1>1, <1>3, <1>4 DEF DtInv, CleanInv
<1>12. OffInv'
  BY <1>1, <1>3 DEF DtInv, OffInv
<1>13. NodesInv'
  <2> SUFFICES ASSUME dtenv \cap {"eager", "oldnodes", "again", "late"} = {}, NEW c \in Cards,
                      nodes[c] # 0
               PROVE  nodes[c] \in chrdev' \/ <<"remove", c>> \in hot
    BY <1>1, <1>3, <1>4 DEF DtInv, NodesInv
  <2>1. nodes[c] = mem[task.dev].major => c = task.card
    BY <1>5 DEF DtInv, NodesInv
  <2>2. "eager" \notin dtenv
    OBVIOUS
  <2>3. <<"remove", task.card>> \in hot
    BY <1>1, <2>2 DEF DtInv, TaskInv
  <2> QED BY <1>1, <2>1, <2>3 DEF DtInv, NodesInv
<1>14. PathsInv'
  BY <1>1, <1>3, <1>4 DEF DtInv, PathsInv, RemovePcs
<1> QED BY <1>1, <1>6, <1>7, <1>8, <1>9, <1>10, <1>11, <1>12, <1>13, <1>14, NothingBad DEF DtInv

LEMMA RemoveFreeStep ==
    ASSUME DtInv, bad = {}, RemoveFree
    PROVE  DtInv'
<1>1. /\ loaded' = loaded /\ driver' = driver /\ unloading' = unloading /\ loads' = loads
      /\ bad' = {} /\ devices' = devices
      /\ chrdev' = chrdev /\ irqs' = irqs /\ hot' = hot /\ nodes' = nodes /\ paths' = paths
      /\ dtenv' = dtenv /\ task.pc = "free" /\ task' = Idle
      /\ attrs' = [attrs EXCEPT ![task.card] = attrs[task.card] \ {"pool"}]
      /\ region' = region \ {task.card}
      /\ mem' = [mem EXCEPT ![task.dev].live = FALSE]
      /\ bound' = [bound EXCEPT ![task.card] = 0]
  BY DEF RemoveFree, Probe, Unmap, module, user
<1>2. PICK g \in {"no", "absent"} : bind' = [bind EXCEPT ![task.card] = g]
  BY DEF RemoveFree, Gone
<1>3. task'.pc = "idle" /\ task'.rc = "ok" /\ task.pc \in RemovePcs /\ task.pc # "idle"
  BY <1>1 DEF Idle, RemovePcs
<1>4. /\ task.dev \in Live /\ task.dev \in Addrs /\ task.card \in Cards
      /\ mem[task.dev].card = task.card /\ task.dev = bound[task.card] /\ loaded
      /\ Sole(task.card, task.dev) /\ mem[task.dev].major \notin chrdev
      /\ "dev" \notin attrs[task.card] /\ "class" \notin attrs[task.card]
  <2>1. /\ task.dev \in Live /\ task.card \in Cards /\ mem[task.dev].card = task.card /\ loaded
        /\ bind[task.card] = "bound" /\ task.dev = bound[task.card]
        /\ mem[task.dev].major \notin chrdev
        /\ "dev" \notin attrs[task.card] /\ "class" \notin attrs[task.card]
    BY <1>1, <1>3 DEF DtInv, TaskInv
  <2> QED BY <2>1 DEF DtInv, BoundInv, Live
<1>5. mem' \in [Addrs -> Devices] /\ ~ mem'[task.dev].live
      /\ \A a \in Addrs : a # task.dev => mem'[a] = mem[a]
  <2>1. mem \in [Addrs -> Devices]
    BY DEF DtInv, DtTypeOK
  <2>2. mem'[task.dev] = [mem[task.dev] EXCEPT !.live = FALSE] /\ mem[task.dev] \in Devices
    BY <1>1, <1>4, <2>1
  <2>3. mem'[task.dev] \in Devices /\ ~ mem'[task.dev].live
    BY <2>2 DEF Devices
  <2> QED BY <1>1, <1>4, <2>1, <2>3
<1>6. \A a : a \in Live' <=> a \in Live /\ a # task.dev
  BY <1>5 DEF Live
<1>7. \A a \in Live' : a \in Live /\ a # task.dev /\ mem'[a] = mem[a] /\ mem[a].card # task.card
  BY <1>4, <1>5, <1>6 DEF Live, Sole
<1>8. /\ (\A a : InTable(a)' <=> InTable(a)) /\ (AfterFailure' <=> AfterFailure)
      /\ \A d \in Cards : InTask(d) => d = task.card
  BY <1>1 DEF InTable, idx, AfterFailure, InTask
<1>9. /\ bind'[task.card] = g /\ bound'[task.card] = 0
      /\ \A d \in Cards : d # task.card =>
            bind'[d] = bind[d] /\ bound'[d] = bound[d] /\ attrs'[d] = attrs[d]
      /\ bind' \in [Cards -> {"absent", "no", "bound", "failed"}] /\ bound' \in [Cards -> Nat]
      /\ attrs' \in [Cards -> SUBSET {"pool", "dev", "class"}]
      /\ attrs'[task.card] = {}
  <2>1. /\ bind \in [Cards -> {"absent", "no", "bound", "failed"}] /\ bound \in [Cards -> Nat]
        /\ attrs \in [Cards -> SUBSET {"pool", "dev", "class"}]
    BY DEF DtInv, DtTypeOK
  <2>2. /\ bind'[task.card] = g /\ bind' \in [Cards -> {"absent", "no", "bound", "failed"}]
        /\ \A d \in Cards : d # task.card => bind'[d] = bind[d]
    BY <1>2, <1>4, <2>1
  <2>3. /\ bound'[task.card] = 0 /\ bound' \in [Cards -> Nat]
        /\ \A d \in Cards : d # task.card => bound'[d] = bound[d]
    BY <1>1, <1>4, <2>1
  <2>4. attrs[task.card] \subseteq {"pool"}
    BY <1>4, <2>1
  <2>5. attrs[task.card] \ {"pool"} = {}
    BY <2>4
  <2>6. /\ attrs'[task.card] = {} /\ \A d \in Cards : d # task.card => attrs'[d] = attrs[d]
        /\ attrs' \in [Cards -> SUBSET {"pool", "dev", "class"}]
    BY <1>1, <1>4, <2>1, <2>5
  <2> QED BY <2>2, <2>3, <2>6
<1>10. DtTypeOK'
  <2>1. task' \in [pc : {"idle"} \cup ProbePcs \cup RemovePcs, card : Cards \cup {NoCard},
                   dev : Nat, major : Nat, rc : {"ok", "fail"}]
    BY <1>1 DEF Idle
  <2> QED BY <1>1, <1>5, <1>9, <2>1 DEF DtInv, DtTypeOK
<1>11. TaskInv'
  BY <1>1, <1>3 DEF TaskInv, ProbePcs, RemovePcs
<1>12. BoundInv'
  <2>1. \A c \in Cards : bound'[c] # 0 <=> bind'[c] = "bound"
    BY <1>9 DEF DtInv, BoundInv
  <2>2. ASSUME NEW c \in Cards, bind'[c] = "bound"
        PROVE  /\ bound'[c] \in Live' /\ Sole(c, bound[c])' /\ InTable(bound'[c])
               /\ LET d == mem'[bound'[c]] IN d.card = c /\ d.class /\ d.major # 0
    <3>1. c # task.card /\ bind[c] = "bound" /\ bound'[c] = bound[c]
      BY <1>9, <2>2
    <3>2. bound[c] \in Live /\ mem[bound[c]].card = c /\ Sole(c, bound[c]) /\ InTable(bound[c])
      BY <3>1 DEF DtInv, BoundInv
    <3>3. bound[c] \in Live' /\ mem'[bound[c]] = mem[bound[c]]
      BY <1>4, <1>6, <1>7, <3>1, <3>2
    <3>4. Sole(c, bound[c])'
      BY <1>7, <3>1, <3>2 DEF Sole
    <3> QED BY <3>1, <3>2, <3>3, <3>4 DEF DtInv, BoundInv
  <2>3. task'.pc \notin ProbePcs
    BY <1>3 DEF ProbePcs
  <2> QED BY <1>8, <2>1, <2>2, <2>3 DEF BoundInv
<1>13. MemInv'
  <2>1. \A a \in Live' : /\ mem'[a].card \in region'
                         /\ mem'[a].major # 0 => mem'[a].major \in chrdev
                         /\ mem'[a].class => mem'[a].bkl
    BY <1>1, <1>7 DEF DtInv, MemInv
  <2>2. \A a, b \in Live' : mem'[a].major = mem'[b].major /\ mem'[a].major # 0 => a = b
    BY <1>7 DEF DtInv, MemInv
  <2>3. \A m \in chrdev : \E a \in Live' : mem'[a].major = m
    BY <1>1, <1>4, <1>6, <1>7 DEF DtInv, MemInv
  <2>4. \A c \in Cards : "dev" \in attrs'[c] \/ "class" \in attrs'[c] => \E a \in Live' : mem'[a].card = c
    BY <1>4, <1>6, <1>7, <1>9 DEF DtInv, MemInv
  <2> QED BY <1>1, <2>1, <2>2, <2>3, <2>4 DEF MemInv
<1>14. CalmInv'
  <2>1. \A c \in region' : c \in Cards /\ c # task.card /\ c \in region
    BY <1>1 DEF DtInv, DtTypeOK
  <2> QED BY <1>1, <1>4, <1>7, <1>8, <1>9, <2>1 DEF DtInv, CalmInv
<1>15. CleanInv'
  <2> SUFFICES ASSUME "fail" \notin dtenv
               PROVE  /\ \A a \in Live' : mem'[a].card \in Cards /\ bound'[mem'[a].card] = a
                      /\ \A c \in Cards : bind'[c] # "failed"
                      /\ \A c \in Cards : c \in region' \/ attrs'[c] # {} => bind'[c] = "bound"
    BY <1>1, <1>3, <1>4 DEF CleanInv
  <2>1. \A a \in Live' : mem'[a].card \in Cards /\ bound'[mem'[a].card] = a
    BY <1>7, <1>9 DEF DtInv, CleanInv
  <2>2. \A c \in Cards : bind'[c] # "failed"
    BY <1>9 DEF DtInv, CleanInv
  <2>3. \A c \in Cards : c \in region' \/ attrs'[c] # {} => bind'[c] = "bound"
    BY <1>1, <1>8, <1>9 DEF DtInv, CleanInv
  <2> QED BY <2>1, <2>2, <2>3
<1>16. OffInv'
  BY <1>1, <1>3 DEF DtInv, OffInv
<1>17. NodesInv'
  BY <1>1, <1>3, <1>7 DEF DtInv, NodesInv
<1>18. PathsInv'
  <2>1. dtenv \cap {"eager", "held", "again"} = {} => \A p \in paths : p.dev \in Live' /\ mem'[p.dev] = mem[p.dev]
    BY <1>3, <1>6, <1>7 DEF DtInv, PathsInv
  <2> QED BY <1>1, <1>3, <2>1 DEF DtInv, PathsInv, RemovePcs
<1> QED BY <1>1, <1>10, <1>11, <1>12, <1>13, <1>14, <1>15, <1>16, <1>17, <1>18, NothingBad DEF DtInv

\* The invariant holds at the start and is kept by every step.
LEMMA DtStart == DtInit => DtInv
<1> SUFFICES ASSUME DtInit PROVE DtInv
  OBVIOUS
<1>1. /\ loaded = FALSE /\ driver = FALSE /\ unloading = FALSE /\ loads = 0 /\ devices = <<>>
      /\ mem = [a \in Addrs |-> Freed] /\ bind \in [Cards -> {"absent", "no"}]
      /\ bound = [c \in Cards |-> 0] /\ task = Idle /\ chrdev = {} /\ irqs = {} /\ region = {}
      /\ attrs = [c \in Cards |-> {}] /\ hot = {} /\ nodes = [c \in Cards |-> 0] /\ paths = {}
      /\ bad = {}
  BY DEF DtInit
<1>2. Live = {} /\ task.pc = "idle" /\ task.rc = "ok"
  BY <1>1 DEF Live, Freed, Idle
<1>3. DtTypeOK
  <2>1. Freed \in Devices /\ devices \in Seq(Addrs)
    BY <1>1 DEF Freed, Devices
  <2> QED BY <1>1, <2>1 DEF DtTypeOK, Idle
<1>4. TaskInv /\ BoundInv
  BY <1>1, <1>2 DEF TaskInv, BoundInv, ProbePcs, RemovePcs
<1>5. MemInv /\ CalmInv /\ CleanInv
  BY <1>1, <1>2 DEF MemInv, CalmInv, CleanInv, InTask
<1>6. OffInv /\ NodesInv /\ PathsInv
  BY <1>1, <1>2 DEF OffInv, NodesInv, PathsInv
<1>7. BadInv
  BY <1>1 DEF BadInv, FreedUnused, ReadyWhenUsed
<1> QED BY <1>3, <1>4, <1>5, <1>6, <1>7 DEF DtInv

LEMMA DtStep == TableInv /\ [DtNext]_dtvars => DtInv'
<1> SUFFICES ASSUME DtInv, StaleInv, LagInv, [DtNext]_dtvars PROVE DtInv'
  BY DEF TableInv
<1>1. CASE UNCHANGED dtvars
  <2>1. UNCHANGED <<Core, user>> /\ bad' = bad /\ dtenv' = dtenv /\ loads' = loads /\ devices' = devices
    BY <1>1 DEF dtvars, Core, user, module
  <2>2. BadInv'
    BY <2>1 DEF DtInv, BadInv, FreedUnused, ReadyWhenUsed, Troubles, AfterFailure
  <2> QED BY <2>1, <2>2, BadKept
<1>2. CASE bad = {} /\ DriverCore
  <2>1. ASSUME NEW c \in Cards, \/ Plug(c) \/ Pull(c) \/ ProbeCreate(c) \/ ProbeTableFull(c)
                                \/ ProbeGone(c) \/ Remove(c)
        PROVE  DtInv'
    BY <1>2, <2>1, PlugStep, PullStep, ProbeCreateStep, TableFullStep, GoneStep, RemoveStep
  <2>2. CASE Load \/ Unload \/ UnloadEnd
    BY <1>2, <2>2, LoadStep, UnloadStep, UnloadEndStep
  <2>3. CASE ProbeFails \/ ProbeEnable \/ ProbeChrdev \/ ProbeMajor \/ ProbeIrq
    BY <1>2, <2>3, ProbeFailsStep, ProbeEnableStep, ProbeChrdevStep, ProbeMajorStep, ProbeIrqStep
  <2>4. CASE ProbeSetup \/ ProbeChannels \/ ProbePublish \/ ProbeClass \/ ProbeEnd
    BY <1>2, <2>4, ProbeSetupStep, ProbeChannelsStep, ProbePublishStep, ProbeClassStep, ProbeEndStep
  <2>5. CASE RemoveAttrs \/ RemoveChrdev \/ RemoveFree
    BY <1>2, <2>5, RemoveAttrsStep, RemoveChrdevStep, RemoveFreeStep
  <2> QED BY <1>2, <2>1, <2>2, <2>3, <2>4, <2>5 DEF DriverCore
<1>3. CASE bad = {} /\ Others
  <2>1. ASSUME NEW c \in Cards, HotAdd(c) \/ HotRemove(c) \/ Open(c) \/ Show(c) \/ TakeLock(c)
        PROVE  DtInv'
    BY <1>3, <2>1, HotAddStep, HotRemoveStep, OpenStep, ShowStep, TakeLockStep
  <2>2. ASSUME NEW p \in paths, Use(p) \/ Close(p)
        PROVE  DtInv'
    BY <1>3, <2>2, UseStep, CloseStep
  <2>3. ASSUME NEW a \in irqs, Interrupt(a)
        PROVE  DtInv'
    BY <2>3, InterruptStep
  <2> QED BY <1>3, <2>1, <2>2, <2>3 DEF Others
<1> QED BY <1>1, <1>2, <1>3 DEF DtNext

\* The memory of cards that have gone, and what the script has still to do.
LEMMA StaleStart == DtInit => StaleInv /\ LagInv
<1> SUFFICES ASSUME DtInit PROVE StaleInv /\ LagInv
  OBVIOUS
<1>1. devices = <<>> /\ task.pc = "idle" /\ ~ loaded
  BY DEF DtInit, Idle
<1>2. \A a : ~ InTable(a)
  BY <1>1 DEF InTable, idx
<1> QED BY <1>1, <1>2 DEF StaleInv, LagInv, ProbePcs

\* A step that leaves table and devices alone and begins no probe.
LEMMA StaleKept ==
    ASSUME StaleInv, devices' = devices, mem' = mem, dtenv' = dtenv,
           task'.pc \in ProbePcs => task.pc \in ProbePcs
    PROVE  StaleInv'
<1>1. Live' = Live /\ (\A a : InTable(a)' <=> InTable(a)) /\ (AllThere' <=> AllThere)
  BY DEF Live, InTable, idx, AllThere
<1> QED BY <1>1 DEF StaleInv

\* A step of a probe: all are there, and stay.
LEMMA StaleProbed ==
    ASSUME DtTypeOK, StaleInv, devices' = devices, dtenv' = dtenv, task.pc \in ProbePcs,
           \A a \in Addrs : mem'[a].live = mem[a].live
    PROVE  StaleInv' /\ (AllThere' <=> AllThere)
<1>1. \A i \in 1 .. idx : devices[i] \in Addrs
  BY DEF DtTypeOK, idx
<1>2. AllThere' <=> AllThere
  BY <1>1 DEF AllThere, idx
<1>3. AllThere' => \A a : InTable(a)' => ~ (a \in Addrs \ Live)'
  BY DEF AllThere, InTable, Live, idx
<1> QED BY <1>2, <1>3 DEF StaleInv

\* A step after which nothing more is left to the script.
LEMMA LagKept ==
    ASSUME LagInv, dtenv' = dtenv, loaded' => loaded, AllThere' => AllThere,
           task.pc \in {"unregister", "free"} => task'.pc \in {"unregister", "free"},
           \A c \in Cards : <<"remove", c>> \in hot' => <<"remove", c>> \in hot
    PROVE  LagInv'
BY DEF LagInv

\* Steps that keep table and devices.
LEMMA StillStep ==
    ASSUME StaleInv, LagInv, devices' = devices, mem' = mem, dtenv' = dtenv, loaded' => loaded,
           task'.pc \in ProbePcs => task.pc \in ProbePcs,
           task.pc \in {"unregister", "free"} => task'.pc \in {"unregister", "free"},
           \A c \in Cards : <<"remove", c>> \in hot' => <<"remove", c>> \in hot
    PROVE  StaleInv' /\ LagInv'
<1>1. AllThere' <=> AllThere
  BY DEF AllThere, idx
<1> QED BY <1>1, StaleKept, LagKept

LEMMA CoreStale ==
    ASSUME DtInv, StaleInv, LagInv, UNCHANGED Core,
           \A c \in Cards : <<"remove", c>> \in hot' => <<"remove", c>> \in hot
    PROVE  StaleInv' /\ LagInv'
<1>1. devices' = devices /\ mem' = mem /\ dtenv' = dtenv /\ loaded' = loaded /\ task' = task
  BY DEF Core, module
<1> QED BY <1>1, StillStep

LEMMA StaleOthers ==
    ASSUME DtInv, StaleInv, LagInv, Others
    PROVE  StaleInv' /\ LagInv'
<1>1. UNCHANGED Core /\ \A d \in Cards : <<"remove", d>> \in hot' => <<"remove", d>> \in hot
  <2>1. ASSUME NEW c \in Cards, HotAdd(c) \/ HotRemove(c)
        PROVE  UNCHANGED Core /\ \A d \in Cards : <<"remove", d>> \in hot' => <<"remove", d>> \in hot
    BY <2>1 DEF HotAdd, HotRemove, Core
  <2>2. ASSUME NEW c \in Cards, Open(c) \/ Show(c) \/ TakeLock(c)
        PROVE  UNCHANGED Core /\ \A d \in Cards : <<"remove", d>> \in hot' => <<"remove", d>> \in hot
    BY <2>2 DEF Open, Show, TakeLock, Core, user
  <2>3. ASSUME NEW p \in paths, Use(p) \/ Close(p)
        PROVE  UNCHANGED Core /\ \A d \in Cards : <<"remove", d>> \in hot' => <<"remove", d>> \in hot
    BY <2>3 DEF Use, Close, Core, user
  <2>4. ASSUME NEW a \in irqs, Interrupt(a)
        PROVE  UNCHANGED Core /\ \A d \in Cards : <<"remove", d>> \in hot' => <<"remove", d>> \in hot
    BY <2>4 DEF Interrupt, Core, user
  <2> QED BY <2>1, <2>2, <2>3, <2>4 DEF Others
<1> QED BY <1>1, CoreStale

LEMMA StaleModule ==
    ASSUME DtInv, StaleInv, LagInv, Load \/ Unload \/ UnloadEnd
    PROVE  StaleInv' /\ LagInv'
<1>1. CASE Load
  <2>1. /\ devices' = devices /\ mem' = mem /\ dtenv' = dtenv /\ task' = task /\ hot' = hot
        /\ "late" \in dtenv \/ \A c \in Cards : <<"remove", c>> \notin hot
    BY <1>1 DEF Load, user, Happens
  <2>2. LagInv'
    BY <2>1 DEF LagInv
  <2> QED BY <2>1, <2>2, StaleKept
<1>2. CASE Unload
  BY <1>2, StillStep DEF Unload, user
<1>3. CASE UnloadEnd
  <2>1. ~ loaded' /\ devices' = <<>> /\ task'.pc = "idle"
    BY <1>3 DEF UnloadEnd, Idle
  <2>2. \A a : ~ InTable(a)'
    BY <2>1 DEF InTable, idx
  <2> QED BY <2>1, <2>2 DEF StaleInv, LagInv, ProbePcs
<1> QED BY <1>1, <1>2, <1>3

LEMMA StaleCards ==
    ASSUME DtInv, StaleInv, LagInv, NEW c \in Cards,
           \/ Plug(c) \/ Pull(c) \/ ProbeTableFull(c) \/ ProbeGone(c) \/ Remove(c)
    PROVE  StaleInv' /\ LagInv'
<1>1. CASE Plug(c) \/ Pull(c)
  <2>1. /\ devices' = devices /\ mem' = mem /\ dtenv' = dtenv /\ loaded' = loaded /\ task' = task
        /\ hot' = hot
    BY <1>1 DEF Plug, Pull, module, user
  <2> QED BY <2>1, StillStep
<1>2. CASE ProbeTableFull(c) \/ ProbeGone(c)
  <2>1. /\ devices' = devices /\ mem' = mem /\ dtenv' = dtenv /\ loaded' = loaded /\ task' = task
        /\ hot' = hot
    BY <1>2 DEF ProbeTableFull, ProbeGone, module, user
  <2> QED BY <2>1, StillStep
<1>3. CASE Remove(c)
  <2>1. /\ devices' = devices /\ mem' = mem /\ dtenv' = dtenv /\ loaded' = loaded /\ hot' = hot
        /\ task.pc = "idle" /\ (task'.pc = "idle" \/ task'.pc = "attrs")
    BY <1>3 DEF Remove, MayRemove, Idle, Started, module, user
  <2> QED BY <2>1, StillStep DEF ProbePcs
<1> QED BY <1>1, <1>2, <1>3

LEMMA StaleCreate ==
    ASSUME DtInv, StaleInv, LagInv, NEW c \in Cards, ProbeCreate(c)
    PROVE  StaleInv' /\ LagInv'
<1>1. /\ dtenv' = dtenv /\ loaded' = loaded /\ hot' = hot /\ task.pc = "idle" /\ task'.pc = "enable"
      /\ "again" \in dtenv \/ AllThere
  BY DEF ProbeCreate, Idle, Started, module, user, Happens
<1>2. PICK a \in Free : devices' = Append(devices, a) /\ mem' = [mem EXCEPT ![a] = NewDevice(c)]
  BY DEF ProbeCreate
<1>3. CASE "again" \in dtenv
  BY <1>1, <1>3 DEF StaleInv, LagInv
<1>4. CASE "again" \notin dtenv
  <2>1. AllThere
    BY <1>1, <1>4
  <2>2. a \in Addrs /\ mem \in [Addrs -> Devices] /\ devices \in Seq(Addrs) /\ Len(devices) \in Nat
    BY DEF Free, DtInv, DtTypeOK
  <2>3. /\ Len(devices') = Len(devices) + 1 /\ devices'[Len(devices) + 1] = a
        /\ \A i \in 1 .. Len(devices) : devices'[i] = devices[i] /\ devices[i] \in Addrs
    BY <1>2, <2>2
  <2>4. mem'[a].live /\ \A b \in Addrs : mem[b].live => mem'[b].live
    BY <1>2, <2>2 DEF NewDevice
  <2>5. ASSUME NEW i \in 1 .. Len(devices') PROVE mem'[devices'[i]].live
    <3>1. CASE i = Len(devices) + 1
      BY <2>3, <2>4, <3>1
    <3>2. CASE i \in 1 .. Len(devices)
      BY <2>1, <2>3, <2>4, <3>2 DEF AllThere, idx
    <3> QED BY <2>2, <2>3, <3>1, <3>2
  <2>6. AllThere'
    BY <2>5 DEF AllThere, idx
  <2>7. \A b : InTable(b)' => ~ (b \in Addrs \ Live)'
    BY <2>5 DEF InTable, Live, idx
  <2>8. StaleInv'
    BY <2>6, <2>7 DEF StaleInv
  <2>9. LagInv'
    BY <1>1, <2>1 DEF LagInv
  <2> QED BY <2>8, <2>9
<1> QED BY <1>3, <1>4

LEMMA StaleProbe ==
    ASSUME DtInv, StaleInv, LagInv,
           \/ ProbeFails \/ ProbeEnable \/ ProbeChrdev \/ ProbeMajor \/ ProbeIrq \/ ProbeSetup
           \/ ProbeChannels \/ ProbePublish \/ ProbeClass \/ ProbeEnd
    PROVE  StaleInv' /\ LagInv'
<1>1. /\ devices' = devices /\ dtenv' = dtenv /\ loaded' = loaded /\ task.pc \in ProbePcs
      /\ \A c \in Cards : <<"remove", c>> \in hot' => <<"remove", c>> \in hot
  <2>1. CASE ProbeFails \/ ProbeEnable \/ ProbeChrdev
    BY <2>1 DEF ProbeFails, ProbeEnable, ProbeChrdev, Probe, ProbePcs, module, user
  <2>2. CASE ProbeMajor \/ ProbeIrq \/ ProbeSetup
    BY <2>2 DEF ProbeMajor, ProbeIrq, ProbeSetup, Probe, ProbePcs, module, user
  <2>3. CASE ProbeChannels \/ ProbePublish \/ ProbeClass \/ ProbeEnd
    BY <2>3 DEF ProbeChannels, ProbePublish, ProbeClass, ProbeEnd, Probe, ProbePcs, module, user
  <2> QED BY <2>1, <2>2, <2>3
<1>2. mem \in [Addrs -> Devices]
  BY DEF DtInv, DtTypeOK
<1>3. \A a \in Addrs : mem'[a].live = mem[a].live
  <2>1. CASE ProbeMajor
    BY <1>2, <2>1 DEF ProbeMajor, Devices
  <2>2. CASE ProbePublish
    BY <1>2, <2>2 DEF ProbePublish, Devices
  <2>3. CASE ProbeEnd
    BY <1>2, <2>3 DEF ProbeEnd, Devices
  <2>4. CASE ProbeFails \/ ProbeEnable \/ ProbeChrdev \/ ProbeIrq \/ ProbeSetup \/ ProbeChannels
             \/ ProbeClass
    BY <2>4 DEF ProbeFails, ProbeEnable, ProbeChrdev, ProbeIrq, ProbeSetup, ProbeChannels, ProbeClass
  <2> QED BY <2>1, <2>2, <2>3, <2>4
<1>4. StaleInv' /\ (AllThere' <=> AllThere)
  BY <1>1, <1>3, StaleProbed DEF DtInv
<1>5. task.pc \notin {"unregister", "free"}
  BY <1>1 DEF ProbePcs
<1> QED BY <1>1, <1>4, <1>5, LagKept

\* A card that goes leaves its own number and major in the memory that is freed.
LEMMA StaleRemove ==
    ASSUME DtInv, StaleInv, LagInv, RemoveAttrs \/ RemoveChrdev \/ RemoveFree
    PROVE  StaleInv' /\ LagInv'
<1>1. CASE RemoveAttrs \/ RemoveChrdev
  <2>1. /\ devices' = devices /\ mem' = mem /\ dtenv' = dtenv
        /\ task.pc = "attrs" \/ task.pc = "unregister"
        /\ \/ task' = [task EXCEPT !.pc = "unregister"]
           \/ task' = [task EXCEPT !.pc = "free"]
    BY <1>1 DEF RemoveAttrs, RemoveChrdev, Probe, Then
  <2>2. task'.pc \in {"unregister", "free"}
    BY <2>1 DEF DtInv, DtTypeOK
  <2>3. task'.pc \notin ProbePcs
    BY <2>2 DEF ProbePcs
  <2> QED BY <2>1, <2>2, <2>3, StaleKept DEF LagInv
<1>2. CASE RemoveFree
  <2> DEFINE d == task.dev
  <2>1. /\ devices' = devices /\ dtenv' = dtenv /\ mem' = [mem EXCEPT ![d].live = FALSE]
        /\ task.pc = "free" /\ task' = Idle
    BY <1>2 DEF RemoveFree, Probe
  <2>2. d \in Live /\ d \in Addrs /\ InTable(d) /\ mem[d].card = task.card /\ d = bound[task.card]
        /\ task.card \in Cards /\ bind[task.card] = "bound" /\ task'.pc = "idle"
    BY <2>1 DEF DtInv, TaskInv, RemovePcs, Live, Idle
  <2>3. Sole(task.card, d) /\ mem[d].major # 0
    BY <2>2 DEF DtInv, BoundInv
  <2>4. \A a \in Live : mem[a].major = mem[d].major => a = d
    BY <2>2, <2>3 DEF DtInv, MemInv
  <2> HIDE DEF d
  <2>5. /\ ~ mem'[d].live /\ mem'[d].card = mem[d].card /\ mem'[d].major = mem[d].major
        /\ \A a \in Addrs : a # d => mem'[a] = mem[a]
    <3>1. mem \in [Addrs -> Devices] /\ mem[d] \in Devices
      BY <2>2 DEF DtInv, DtTypeOK
    <3> QED BY <2>1, <2>2, <3>1 DEF Devices
  <2>6. \A a : a \in Live' <=> a \in Live /\ a # d
    BY <2>5 DEF Live
  <2>7. \A a : InTable(a)' <=> InTable(a)
    BY <2>1 DEF InTable, idx
  <2>8. ~ AllThere'
    BY <2>1, <2>2, <2>5 DEF AllThere, InTable, idx
  <2>9. ASSUME "again" \notin dtenv, NEW b \in Addrs, b \notin Live', NEW a \in Live', InTable(b)
        PROVE  mem'[b].card # mem'[a].card /\ mem'[b].major # mem'[a].major
    <3>1. a \in Live /\ a # d /\ a \in Addrs /\ mem'[a] = mem[a]
      BY <2>5, <2>6 DEF Live
    <3>2. CASE b = d
      BY <2>2, <2>3, <2>4, <2>5, <3>1, <3>2 DEF Sole
    <3>3. CASE b # d
      <4>1. b \in Addrs \ Live /\ mem'[b] = mem[b]
        BY <2>5, <2>6, <2>9, <3>3
      <4> QED BY <2>9, <3>1, <4>1 DEF StaleInv
    <3> QED BY <3>2, <3>3
  <2>10. StaleInv'
    <3>1. task'.pc \notin ProbePcs
      BY <2>2 DEF ProbePcs
    <3> QED BY <2>1, <2>7, <2>9, <3>1 DEF StaleInv
  <2> QED BY <2>8, <2>10 DEF LagInv
<1> QED BY <1>1, <1>2

LEMMA StaleStep == TableInv /\ [DtNext]_dtvars => StaleInv' /\ LagInv'
<1> SUFFICES ASSUME DtInv, StaleInv, LagInv, [DtNext]_dtvars PROVE StaleInv' /\ LagInv'
  BY DEF TableInv
<1>1. CASE UNCHANGED dtvars
  <2>1. UNCHANGED Core /\ hot' = hot
    BY <1>1 DEF dtvars, Core, user
  <2> QED BY <2>1, CoreStale
<1>2. CASE DriverCore
  <2>1. ASSUME NEW c \in Cards, \/ Plug(c) \/ Pull(c) \/ ProbeCreate(c) \/ ProbeTableFull(c)
                                \/ ProbeGone(c) \/ Remove(c)
        PROVE  StaleInv' /\ LagInv'
    BY <2>1, StaleCards, StaleCreate
  <2> QED BY <1>2, <2>1, StaleModule, StaleProbe, StaleRemove DEF DriverCore
<1> QED BY <1>1, <1>2, StaleOthers DEF DtNext

\* A bound card has one device, no two devices have one major, and none that was
\* freed has its card or its major: each lookup finds it.
LEMMA OwnFound == TableInv => FindsOwn
<1> SUFFICES ASSUME DtInv, StaleInv, dtenv \cap {"held", "eager", "oldnodes", "again", "late"} = {}
             PROVE  /\ \A c \in Cards : bound[c] # 0 =>
                          /\ Lookups("card", c) = {bound[c]} /\ Lookups("class", c) = {bound[c]}
                          /\ Lookups("major", mem[bound[c]].major) = {bound[c]}
                    /\ \A p \in paths : mem[p.dev].card = p.card
  BY DEF FindsOwn, Troubles, TableInv
<1>1. ASSUME NEW c \in Cards, bound[c] # 0
      PROVE  /\ Lookups("card", c) = {bound[c]} /\ Lookups("class", c) = {bound[c]}
             /\ Lookups("major", mem[bound[c]].major) = {bound[c]}
  <2> DEFINE d == bound[c]
             m == mem[bound[c]].major
  <2>1. /\ d \in Live /\ Sole(c, d) /\ InTable(d) /\ mem[d].card = c /\ mem[d].class
        /\ mem[d].major = m /\ m # 0 /\ DtTypeOK
    BY <1>1 DEF DtInv, BoundInv
  <2>2. \A a \in Live : mem[a].major = m => a = d
    BY <2>1 DEF DtInv, MemInv
  <2> HIDE DEF d, m
  <2>3. NoneStale("card", c) /\ NoneStale("class", c) /\ NoneStale("major", m)
    BY <2>1, OwnKeys
  <2>4. Lookups("card", c) = {d}
    BY <2>1, <2>3, LookupSole DEF Has, HasCard, Sole
  <2>5. Lookups("class", c) = {d}
    BY <2>1, <2>3, LookupSole DEF Has, HasClass, Sole
  <2>6. Lookups("major", m) = {d}
    BY <2>1, <2>2, <2>3, LookupSole DEF Has, HasMajor
  <2> QED BY <2>4, <2>5, <2>6 DEF d, m
<1>2. \A p \in paths : mem[p.dev].card = p.card
  BY DEF DtInv, PathsInv
<1> QED BY <1>1, <1>2

\* When the table has one entry, a lookup that can happen is for a card that is
\* there: the entry is its own.
LEMMA FreedUnseen ==
    ASSUME DtInv, "eager" \notin dtenv, ~ AfterFailure, idx <= 1
    PROVE  ~ LooksAtFreed
<1> SUFFICES ASSUME LooksAtFreed PROVE FALSE
  OBVIOUS
<1>1. loaded /\ DtTypeOK /\ \A a \in Live : InTable(a)
  BY DEF LooksAtFreed, DtInv, CalmInv
<1>2. PICK c \in Cards : \/ MayOpen(c) /\ ReadsFreed("major", nodes[c])
                         \/ (MayShow(c) \/ MayRemove(c)) /\ ReadsFreed("card", c)
  BY DEF LooksAtFreed
<1>3. \E a : a \in Live
  <2>1. CASE MayOpen(c)
    <3>1. task = Idle /\ nodes[c] \in chrdev
      BY <2>1 DEF MayOpen, Quiet, Happens
    <3> QED BY <3>1, MajorHeld
  <2>2. CASE MayShow(c)
    BY <2>2 DEF MayShow, DtInv, MemInv
  <2>3. CASE MayRemove(c)
    BY <2>3 DEF MayRemove, DtInv, BoundInv
  <2> QED BY <1>2, <2>1, <2>2, <2>3
<1> QED BY <1>1, <1>2, <1>3, OnlyFreed

\* Without failures what is there belongs to a card that is bound.
LEMMA UnloadIsClean == DtInv => CleanUnload
<1> SUFFICES ASSUME DtInv, dtenv \cap {"fail", "interrupts", "nocard"} = {}, ~ loaded
             PROVE  /\ ~ driver /\ "gone" \notin bad /\ chrdev = {} /\ irqs = {} /\ region = {}
                    /\ \A c \in Cards : attrs[c] = {}
                    /\ \A a \in Addrs : ~ mem[a].live
  BY DEF CleanUnload, Troubles
<1>1. Live = {} /\ chrdev = {} /\ region = {} /\ \A c \in Cards : attrs[c] = {}
  BY NothingLeft
<1>2. ~ driver /\ irqs = {}
  BY DEF DtInv, OffInv
<1>3. "gone" \notin bad
  BY DEF DtInv, BadInv, Troubles
<1> QED BY <1>1, <1>2, <1>3 DEF Live

LEMMA TableSafe == DtSpec => []TableInv
<1>1. DtInit => TableInv
  BY DtStart, StaleStart DEF TableInv
<1>2. TableInv /\ [DtNext]_dtvars => TableInv'
  BY DtStep, StaleStep DEF TableInv
<1> QED BY <1>1, <1>2, PTL DEF DtSpec

\* Freed memory is not used through the table, an attribute or a path, for any
\* number of cards, loads and paths, although lookups compare what the memory of
\* a card that has gone still holds: NoStaleUse, with what it exempts.
THEOREM StaleSafe == DtSpec => []NoStaleUse
<1>1. TableInv => NoStaleUse
  BY FreedUnseen DEF TableInv, DtInv, BadInv, FreedUnused, NoStaleUse, Troubles
<1> QED BY <1>1, TableSafe, PTL

\* The three lookups of devices[] find the device that was probed last, and a
\* path is on the card whose node was opened, although entries that were freed
\* come first in the table and keep their contents: FindsOwn, with what it exempts.
THEOREM FindSafe == DtSpec => []FindsOwn
BY OwnFound, TableSafe, PTL

\* acq200_exit_module leaves nothing of the driver behind, after any number of
\* loads, probes and removes: CleanUnload.
THEOREM CleanSafe == DtSpec => []CleanUnload
<1>1. TableInv => CleanUnload
  BY UnloadIsClean DEF TableInv
<1> QED BY <1>1, TableSafe, PTL

\* Majors, registers and bkl.lock are set up before they can be used, also when
\* a probe has failed half way: ReadyWhenUsed.
THEOREM ReadySafe == DtSpec => []ReadyWhenUsed
<1>1. TableInv => ReadyWhenUsed
  BY DEF TableInv, DtInv, BadInv
<1> QED BY <1>1, TableSafe, PTL

-----------------------------------------------------------------------------
(***************************************************************************)
(* The driver as a whole.                                                  *)
(***************************************************************************)
\* A behaviour of the driver is a behaviour of the interrupt masks, of the
\* heartbeat and of the table of cards: what holds of each part holds of it.
THEOREM DriverComposes == DriverSpec => Spec /\ HbSpec /\ DtSpec
<1>1. DriverInit => Init /\ HbInit /\ DtInit
  BY DEF DriverInit
<1>2. [DriverNext]_allvars => [Next]_vars /\ [HbNext]_hbvars /\ [DtNext]_dtvars
  BY DEF DriverNext, allvars, Next
<1> QED BY <1>1, <1>2, PTL DEF DriverSpec, Spec, HbSpec, DtSpec

\* What a run of the driver keeps true of masks, lock, heartbeat and table.
THEOREM DriverSafe ==
    DriverSpec => [](/\ WalkIsMask /\ MaskedExactly /\ LockKnown /\ HeartbeatIsRate
                     /\ NoStaleUse /\ FindsOwn /\ CleanUnload /\ ReadyWhenUsed)
BY DriverComposes, WalkSafe, MaskSafe, LockSafe, HeartbeatSafe, StaleSafe, FindSafe, CleanSafe,
   ReadySafe, PTL
=============================================================================
