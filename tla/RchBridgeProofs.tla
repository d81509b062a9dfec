--------------------------- MODULE RchBridgeProofs ---------------------------
(***************************************************************************)
(* Proofs about RchBridge: an inductive invariant IInv that relates the    *)
(* place of every process to the handler and the mapping it holds, the     *)
(* list to the handlers, the mappings to their users and the requests at   *)
(* the card to the handlers that wait for them; Recycled, about a process  *)
(* between the test of i2o_recycleRch and its list_del, where the tasklet  *)
(* may interrupt it; one lemma per action that the action keeps both;      *)
(* AllOwned, which is inductive relative to them; and the theorems, at the *)
(* end, that the properties of RchBridge hold.  They are about behaviours  *)
(* on one processor (Regular).                                             *)
(***************************************************************************)
EXTENDS RchBridge, FiniteSetTheorems, WellFoundedInduction, TLAPS

USE DEF Functions

\* The records of CoreOK, by name.
RchRecord == [handler : {"none", "read", "write", "last"}, path : Paths \cup {NoPath},
              id : Ids, valid : {-1, 0, 1}, kbuf : Kbufs, pool : BOOLEAN]
ProcRecord == [pc : PC, op : Ops, rch : Rchs \cup {NoRch}, kbuf : Kbufs, used : BOOLEAN]
Request == [id : Ids, op : Ops, rch : Rchs, path : Paths, kbuf : Kbufs]

\* A sequence without repetitions, and the set of its entries.
Once(l) == \A i, j \in DOMAIN l : l[i] = l[j] => i = j
Elems(l) == {l[k] : k \in DOMAIN l}

\* A set of numbers that is not empty has a least element.
LEMMA Least ==
    ASSUME NEW S \in SUBSET Nat, S # {}
    PROVE  \E x \in S : \A y \in S : x <= y
<1> DEFINE R == {ss \in Nat \X Nat : ss[1] < ss[2]}
<1>1. IsWellFoundedOn(R, Nat)
  BY NatLessThanWellFounded DEF OpToRel
<1>2. \A x, y \in Nat : y < x => <<y, x>> \in R
  OBVIOUS
<1> HIDE DEF R
<1>3. PICK x \in S : \A y \in S : ~ (<<y, x>> \in R)
  BY <1>1, WFMin
<1>4. \A y \in S : x <= y
  <2> TAKE y \in S
  <2>1. x \in Nat /\ y \in Nat /\ ~ (y < x)
    BY <1>2, <1>3
  <2> QED BY <2>1
<1> QED BY <1>3, <1>4

\* A sequence without its entry k: what list_del and the answer of the card leave.
Without(s, k) == [i \in 1 .. Len(s) - 1 |-> IF i < k THEN s[i] ELSE s[i + 1]]

\* Its type, length and entries.
LEMMA WithoutFacts ==
    ASSUME NEW T, NEW s \in Seq(T), NEW k \in DOMAIN s
    PROVE  /\ Without(s, k) \in Seq(T)
           /\ Len(Without(s, k)) = Len(s) - 1
           /\ DOMAIN Without(s, k) = 1 .. Len(s) - 1
           /\ \A i \in 1 .. Len(s) - 1 :
                 Without(s, k)[i] = IF i < k THEN s[i] ELSE s[i + 1]
<1>1. Len(s) \in Nat /\ DOMAIN s = 1 .. Len(s) /\ k \in 1 .. Len(s) /\ \A i \in 1 .. Len(s) : s[i] \in T
  OBVIOUS
<1>2. Len(s) - 1 \in Nat
  BY <1>1
<1>3. \A i \in 1 .. Len(s) - 1 : i \in 1 .. Len(s) /\ i + 1 \in 1 .. Len(s)
  BY <1>1
<1>4. \A i \in 1 .. Len(s) - 1 : (IF i < k THEN s[i] ELSE s[i + 1]) \in T
  BY <1>1, <1>3
<1>5. Without(s, k) \in [1 .. Len(s) - 1 -> T]
  BY <1>4 DEF Without
<1>6. Without(s, k) \in Seq(T)
  BY <1>2, <1>5
<1>7. DOMAIN Without(s, k) = 1 .. Len(s) - 1
  BY DEF Without
<1>8. Len(Without(s, k)) = Len(s) - 1
  BY <1>2, <1>6, <1>7
<1> QED BY <1>6, <1>7, <1>8 DEF Without

\* Of a sequence without repetitions it has all entries but the one.
LEMMA WithoutElems ==
    ASSUME NEW T, NEW s \in Seq(T), NEW k \in DOMAIN s, Once(s)
    PROVE  Once(Without(s, k)) /\ Elems(Without(s, k)) = Elems(s) \ {s[k]}
<1> DEFINE w == Without(s, k)
<1>1. /\ Len(s) \in Nat /\ DOMAIN s = 1 .. Len(s) /\ k \in 1 .. Len(s)
      /\ DOMAIN w = 1 .. Len(s) - 1
      /\ \A i \in 1 .. Len(s) - 1 : w[i] = IF i < k THEN s[i] ELSE s[i + 1]
  BY WithoutFacts
<1> HIDE DEF w
<1>2. Once(w)
  <2> SUFFICES ASSUME NEW i \in 1 .. Len(s) - 1, NEW j \in 1 .. Len(s) - 1, w[i] = w[j]
               PROVE  i = j
    BY <1>1 DEF Once
  <2>1. /\ i \in 1 .. Len(s) /\ i + 1 \in 1 .. Len(s) /\ j \in 1 .. Len(s) /\ j + 1 \in 1 .. Len(s)
        /\ i \in Int /\ j \in Int /\ k \in Int
    BY <1>1
  <2>2. \A a, b \in 1 .. Len(s) : s[a] = s[b] => a = b
    BY <1>1 DEF Once
  <2>3. PICK a \in 1 .. Len(s) : w[i] = s[a] /\ a = IF i < k THEN i ELSE i + 1
    BY <1>1, <2>1
  <2>4. PICK b \in 1 .. Len(s) : w[j] = s[b] /\ b = IF j < k THEN j ELSE j + 1
    BY <1>1, <2>1
  <2>5. a = b
    BY <2>2, <2>3, <2>4
  <2> QED BY <2>1, <2>3, <2>4, <2>5
<1>3. ASSUME NEW x \in Elems(w) PROVE x \in Elems(s) /\ x # s[k]
  <2>1. PICK i \in 1 .. Len(s) - 1 : x = w[i]
    BY <1>1, <1>3 DEF Elems
  <2>2. i \in 1 .. Len(s) /\ i + 1 \in 1 .. Len(s) /\ i \in Int /\ k \in Int
    BY <1>1
  <2>3. \A a, b \in 1 .. Len(s) : s[a] = s[b] => a = b
    BY <1>1 DEF Once
  <2>4. w[i] = IF i < k THEN s[i] ELSE s[i + 1]
    BY <1>1
  <2>5. CASE i < k
    BY <1>1, <2>1, <2>2, <2>3, <2>4, <2>5 DEF Elems
  <2>6. CASE ~ (i < k)
    <3>1. x = s[i + 1] /\ i + 1 # k
      BY <2>1, <2>2, <2>4, <2>6
    <3> QED BY <1>1, <3>1, <2>2, <2>3 DEF Elems
  <2> QED BY <2>5, <2>6
<1>4. ASSUME NEW x \in Elems(s), x # s[k] PROVE x \in Elems(w)
  <2>1. PICK a \in 1 .. Len(s) : x = s[a]
    BY <1>1, <1>4 DEF Elems
  <2>2. a # k /\ a \in Int /\ k \in Int
    BY <1>1, <1>4, <2>1
  <2>3. CASE a < k
    <3>1. a \in 1 .. Len(s) - 1 /\ w[a] = x
      BY <1>1, <2>1, <2>2, <2>3
    <3> QED BY <1>1, <3>1 DEF Elems
  <2>4. CASE a > k
    <3>1. a - 1 \in 1 .. Len(s) - 1 /\ ~ (a - 1 < k) /\ (a - 1) + 1 = a
      BY <1>1, <2>1, <2>2, <2>4
    <3>2. w[a - 1] = s[(a - 1) + 1]
      BY <1>1, <3>1
    <3> QED BY <1>1, <2>1, <3>1, <3>2 DEF Elems
  <2> QED BY <2>2, <2>3, <2>4
<1>5. Elems(w) = Elems(s) \ {s[k]}
  BY <1>3, <1>4
<1> QED BY <1>2, <1>5 DEF w

\* list_del of a list that holds every handler once.
LEMMA ListDelFacts ==
    ASSUME NEW T, NEW l \in Seq(T), NEW r, Once(l)
    PROVE  ListDel(l, r) \in Seq(T) /\ Once(ListDel(l, r)) /\ Elems(ListDel(l, r)) = Elems(l) \ {r}
<1>1. CASE r \notin Elems(l)
  <2>1. ~ \E j \in DOMAIN l : l[j] = r
    BY <1>1 DEF Elems
  <2>2. ListDel(l, r) = l
    BY <2>1 DEF ListDel
  <2> QED BY <1>1, <2>2
<1>2. CASE r \in Elems(l)
  <2>1. PICK a \in DOMAIN l : l[a] = r
    BY <1>2 DEF Elems
  <2>2. \A j \in DOMAIN l : l[j] = r => j = a
    BY <2>1 DEF Once
  <2>3. Len(l) \in Nat /\ DOMAIN l = 1 .. Len(l) /\ a \in 1 .. Len(l)
    BY <2>1
  <2>4. l[a] = r /\ \A i \in 1 .. a - 1 : l[i] # r
    <3> SUFFICES ASSUME NEW i \in 1 .. a - 1, l[i] = r PROVE FALSE
      BY <2>1
    <3>1. i \in 1 .. Len(l) /\ i # a
      BY <2>3
    <3> QED BY <2>2, <2>3, <3>1
  <2>5. (CHOOSE j \in DOMAIN l : l[j] = r /\ \A i \in 1 .. j - 1 : l[i] # r) = a
    BY <2>1, <2>2, <2>4
  <2>6. ListDel(l, r) = Without(l, a)
    BY <2>1, <2>5 DEF ListDel, Without
  <2>7. Without(l, a) \in Seq(T)
    BY <2>1, WithoutFacts
  <2>8. Once(Without(l, a)) /\ Elems(Without(l, a)) = Elems(l) \ {l[a]}
    BY <2>1, WithoutElems
  <2> QED BY <2>1, <2>6, <2>7, <2>8
<1> QED BY <1>1, <1>2

\* rchAppend of a handler that is not on the list.
LEMMA AppendFacts ==
    ASSUME NEW T, NEW l \in Seq(T), NEW r \in T, Once(l), r \notin Elems(l)
    PROVE  Append(l, r) \in Seq(T) /\ Once(Append(l, r)) /\ Elems(Append(l, r)) = Elems(l) \cup {r}
<1> DEFINE w == Append(l, r)
<1>1. /\ w \in Seq(T) /\ Len(l) \in Nat /\ DOMAIN l = 1 .. Len(l) /\ DOMAIN w = 1 .. Len(l) + 1
      /\ w[Len(l) + 1] = r /\ \A i \in 1 .. Len(l) : w[i] = l[i]
  OBVIOUS
<1> HIDE DEF w
<1>2. Once(w)
  <2> SUFFICES ASSUME NEW i \in 1 .. Len(l) + 1, NEW j \in 1 .. Len(l) + 1, w[i] = w[j]
               PROVE  i = j
    BY <1>1 DEF Once
  <2>1. \A a, b \in 1 .. Len(l) : l[a] = l[b] => a = b
    BY <1>1 DEF Once
  <2>2. \A a \in 1 .. Len(l) : l[a] # r
    BY <1>1 DEF Elems
  <2>3. \A a \in 1 .. Len(l) + 1 : a \in 1 .. Len(l) \/ a = Len(l) + 1
    BY <1>1
  <2> QED BY <1>1, <2>1, <2>2, <2>3
<1>3. Elems(w) = Elems(l) \cup {r}
  <2>1. ASSUME NEW x \in Elems(w) PROVE x \in Elems(l) \cup {r}
    <3>1. PICK i \in 1 .. Len(l) + 1 : x = w[i]
      BY <1>1, <2>1 DEF Elems
    <3>2. i \in 1 .. Len(l) \/ i = Len(l) + 1
      BY <1>1
    <3> QED BY <1>1, <3>1, <3>2 DEF Elems
  <2>2. ASSUME NEW x \in Elems(l) PROVE x \in Elems(w)
    <3>1. PICK i \in 1 .. Len(l) : x = l[i]
      BY <1>1, <2>2 DEF Elems
    <3>2. i \in 1 .. Len(l) + 1
      BY <1>1
    <3> QED BY <1>1, <3>1, <3>2 DEF Elems
  <2>3. r \in Elems(w)
    <3>1. Len(l) + 1 \in 1 .. Len(l) + 1
      BY <1>1
    <3> QED BY <1>1, <3>1 DEF Elems
  <2> QED BY <2>1, <2>2, <2>3
<1> QED BY <1>1, <1>2, <1>3 DEF w

\* The scan of _alloc stops at a free entry.
LEMMA NextFreeIsFree ==
    ASSUME NEW n \in Nat, NEW cur \in 0 .. n - 1, NEW res \in SUBSET (0 .. n - 1), res # 0 .. n - 1
    PROVE  NextFree(res, cur, n) \in (0 .. n - 1) \ res
<1> DEFINE free == (0 .. n - 1) \ res
           D == {ScanDist(cur, i, n) : i \in free}
<1>1. \A i \in free : ScanDist(cur, i, n) \in Nat
  BY DEF ScanDist
<1>2. PICK f \in free : TRUE
  OBVIOUS
<1>3. D \in SUBSET Nat /\ D # {}
  BY <1>1, <1>2
<1>4. PICK d \in D : \A y \in D : d <= y
  BY <1>3, Least
<1>5. PICK i \in free : d = ScanDist(cur, i, n)
  BY <1>4
<1>6. \A j \in free : ScanDist(cur, i, n) <= ScanDist(cur, j, n)
  BY <1>4, <1>5
<1> QED BY <1>5, <1>6 DEF NextFree

-----------------------------------------------------------------------------
\* The combinations of happenings for which the theorems hold.  There is one
\* processor.  Only AB use has two paths open: then the answer to a release can
\* come, and the other path get the handler, before release recycles it once
\* more, and an id can come round to a request of the other path.  Ids that come
\* round also meet the requests that interrupted releases leave at the card, and
\* any request if handlers outnumber ids.
Regular(e) ==
    /\ "smp" \notin e
    /\ "ab" \in e => "close" \notin e /\ "late" \notin e
    /\ "late" \in e => "close_signal" \notin e /\ NHandlers <= IdMod

\* Where a process is: without a handler; with a handler that is not built yet;
\* with one on the list; or between two accesses that have to stay together.
Idle == {"closed", "open", "rch", "rchSleep", "cleanup"}
Raw == {"map", "mapSleep", "noMap", "mapClaim", "build"}
Out == {"send", "wait", "check", "copy", "last"}
Claims == {"rchClaim", "mapClaim", "send"}

\* The request of p needs no mapping of the pool.
Bare(p) == proc[p].op = "close" \/ ReadsAB(p)

\* What the place of a process says about its call and what it holds.
PlaceOK(p) ==
    /\ proc[p].pc \in Idle <=> proc[p].rch = NoRch
    /\ proc[p].pc \in Idle \cup {"rchClaim", "map", "mapSleep", "noMap"} => proc[p].kbuf = NoMap
    /\ proc[p].pc \in Out \cup {"build", "error"} /\ Bare(p) => proc[p].kbuf = NoMap
    /\ proc[p].pc \in Out \cup {"build", "error"} /\ ~ Bare(p) => proc[p].kbuf \in Maps
    /\ proc[p].pc = "mapClaim" => proc[p].kbuf \in Maps \ mapRes
    /\ proc[p].pc = "rchClaim" => proc[p].rch \notin rchRes
    /\ proc[p].pc \notin {"closed", "open"} => proc[p].op # "none"
    /\ proc[p].pc \in Raw \ {"build"} => ~ Bare(p)
    /\ proc[p].pc \in {"check", "copy", "error"} => proc[p].op = "read"
    /\ proc[p].pc \in {"last", "cleanup"} => proc[p].op = "close"
    /\ proc[p].pc = "wait" => proc[p].op # "write"
    /\ proc[p].op = "close" => "close" \in env /\ proc[p].pc # "open"
    /\ proc[p].pc = "error" => "error_reply" \in env
    /\ proc[p].pc = "noMap" => "alloc_timeout" \in env
    /\ proc[p].pc = "send" => proc[p].used = TRUE
Places == \A p \in Paths : PlaceOK(p)

\* The process between two accesses has the processor, and the one with a path
\* that takes buffer_AB_busy_mutex has it as long as the path is open.
Turns ==
    /\ \A p \in Paths : proc[p].pc \in Claims /\ "smp" \notin env => cpu = p
    /\ \A p \in Exclusive : proc[p].pc # "closed" => mutex = p

\* The tasklet has answered the release of p and recycled its handler.
Answered(p) == proc[p].op = "close" /\ rch[proc[p].rch].valid = 1

\* The handler of a process: reserved, without a path and nobody else's until it
\* is built; then on the list with the call's handler function and buffer, until
\* the tasklet recycles it (release), or the reader takes it off (error).
HoldOK(p) ==
    /\ proc[p].pc \in Raw =>
          /\ proc[p].rch \in rchRes /\ rch[proc[p].rch].path = NoPath
          /\ \A o \in Paths \ {p} : proc[o].pc \in Raw => proc[o].rch # proc[p].rch
    /\ proc[p].pc \in Out /\ ~ Answered(p) =>
          /\ rch[proc[p].rch].path = p /\ proc[p].rch \in Listed
          /\ proc[p].op = "close" => rch[proc[p].rch].handler = "last" /\ rch[proc[p].rch].valid = 0
          /\ proc[p].op # "close" => rch[proc[p].rch].handler = proc[p].op
    /\ proc[p].pc \in Out /\ Answered(p) =>
          /\ rch[proc[p].rch].path = NoPath /\ proc[p].rch \notin rchRes
          /\ proc[p].pc \in {"wait", "last"}
    /\ proc[p].pc = "error" => rch[proc[p].rch].path = p /\ proc[p].rch \notin Listed
    /\ proc[p].pc \in Out \cup {"error"} =>
          /\ ReadsAB(p) => rch[proc[p].rch].kbuf = ABMap /\ rch[proc[p].rch].pool = FALSE
          /\ ~ ReadsAB(p) => rch[proc[p].rch].kbuf = proc[p].kbuf /\ rch[proc[p].rch].pool = TRUE
    /\ proc[p].pc = "send" =>
          /\ rch[proc[p].rch].valid = 0 /\ rch[proc[p].rch].id = (lastId + 1) % IdMod
          /\ \A k \in DOMAIN pending : pending[k].id # rch[proc[p].rch].id
    /\ proc[p].pc = "copy" => rch[proc[p].rch].valid # 0
Holds == \A p \in Paths : HoldOK(p)

\* The list holds exactly the handlers with a path, but for one that a reader
\* took off after an error.  A handler whose answer is stored is a read's, and
\* the reader of that path still waits for it.
Handlers ==
    /\ Once(list)
    /\ \A r \in Listed : rch[r].path # NoPath
    /\ \A r \in Rchs : rch[r].path # NoPath =>
         /\ r \in rchRes
         /\ proc[rch[r].path].pc # "closed"
         /\ r \in Listed \/ (proc[rch[r].path].pc = "error" /\ proc[rch[r].path].rch = r)
    /\ \A r \in Listed : rch[r].valid # 0 => rch[r].handler = "read"
    /\ \A r \in Listed : rch[r].handler = "read" =>
          /\ proc[rch[r].path].rch = r
          /\ proc[rch[r].path].pc \in Out /\ proc[rch[r].path].op = "read"
    /\ \A r \in Rchs : rch[r].kbuf \in Maps => rch[r].pool = TRUE
    /\ \A r \in Rchs : rch[r].valid = -1 => "error_reply" \in env
    /\ "error_reply" \notin env /\ "close_signal" \notin env => badDel = FALSE

\* A mapping is used by one handler at most, and is reserved while it is used or
\* while a process builds a message for it.
Used(r, m) == rch[r].path # NoPath /\ rch[r].kbuf = m
Mappings ==
    "alloc_timeout" \notin env =>
      /\ \A r \in Rchs, m \in Maps : Used(r, m) => m \in mapRes
      /\ \A r, s \in Rchs, m \in Maps : Used(r, m) /\ Used(s, m) => r = s
      /\ \A p \in Paths, m \in Maps : proc[p].pc = "build" /\ proc[p].kbuf = m =>
           /\ m \in mapRes
           /\ \A r \in Rchs : ~ Used(r, m)
           /\ \A o \in Paths \ {p} : proc[o].pc = "build" => proc[o].kbuf # m

\* How many messages were sent after the one with id i, if fewer than IdMod.
Gap(i) == IF i <= lastId THEN lastId - i ELSE lastId - i + IdMod
Closing(p) == proc[p].pc \in {"wait", "last"} /\ proc[p].op = "close"

\* The handler of a request at the card is still the one that was built for it.
AtCard(q) ==
    /\ q.rch \in Listed /\ rch[q.rch].id = q.id /\ rch[q.rch].path = q.path
    /\ rch[q.rch].kbuf = q.kbuf /\ rch[q.rch].valid = 0 /\ proc[q.path].used = TRUE

\* The requests at the card: each has its handler, their ids differ, a path that
\* has got the answer to its release has none there, and the release is the last.
\* When ids may come round there are fewer requests than ids, in order of id.
Requests ==
    "close_signal" \notin env =>
      /\ \A k \in DOMAIN pending : AtCard(pending[k])
      /\ \A j, k \in DOMAIN pending : pending[j].id = pending[k].id => j = k
      /\ \A p \in Paths : Closing(p) /\ Answered(p) => pending = <<>>
      /\ \A p \in Paths : Closing(p) /\ ~ Answered(p) =>
            \A k \in DOMAIN pending : pending[k].id = rch[proc[p].rch].id =>
                 pending[k].rch = proc[p].rch /\ k = Len(pending)
      /\ \A p \in Paths : proc[p].pc = "last" => Answered(p)
      /\ \A p \in Paths : proc[p].pc = "cleanup" => pending = <<>>
      /\ "late" \in env => \A k \in DOMAIN pending : Gap(pending[k].id) = Len(pending) - k

\* When every message finds a frame: a handler on the list is at the card, has
\* its answer or is about to be sent, and no other handler has the id of a
\* request at the card.
AllSent == NHandlers <= InFrames /\ "close_signal" \notin env /\ "no_frame" \notin env
Sent ==
    AllSent =>
      /\ \A r \in Listed : \/ \E k \in DOMAIN pending : pending[k].rch = r
                           \/ rch[r].valid # 0
                           \/ proc[rch[r].path].pc = "send" /\ proc[rch[r].path].rch = r
      /\ \A k \in DOMAIN pending : \A r \in Listed :
            rch[r].id = pending[k].id => r = pending[k].rch
      /\ \A p \in Paths : proc[p].pc = "send" =>
            \A s \in Listed : rch[s].valid # 0 => rch[s].id # rch[proc[p].rch].id

\* The inductive invariant.
Typed == CoreOK /\ Len(pending) <= InFrames
IInv == Typed /\ Regular(env) /\ Places /\ Turns /\ Holds /\ Handlers /\ Mappings
        /\ Requests /\ Sent

-----------------------------------------------------------------------------
\* The step changes the state of the process of p only, to these values.
Same(p) == \A o \in Paths : o # p => proc'[o] = proc[o]
Now(p, l, op, r, m, u) ==
    /\ proc' \in [Paths -> ProcRecord] /\ Same(p)
    /\ proc'[p].pc = l /\ proc'[p].op = op /\ proc'[p].rch = r /\ proc'[p].kbuf = m
    /\ proc'[p].used = u

\* What assignments to the fields of a process leave there.
LEMMA SetPc ==
    ASSUME proc \in [Paths -> ProcRecord], NEW p \in Paths, NEW l \in PC,
           proc' = [proc EXCEPT ![p].pc = l]
    PROVE  Now(p, l, proc[p].op, proc[p].rch, proc[p].kbuf, proc[p].used)
BY DEF Now, Same, ProcRecord

\* The place and the call.
LEMMA SetPcOp ==
    ASSUME proc \in [Paths -> ProcRecord], NEW p \in Paths, NEW l \in PC, NEW op \in Ops,
           proc' = [proc EXCEPT ![p].op = op, ![p].pc = l]
    PROVE  Now(p, l, op, proc[p].rch, proc[p].kbuf, proc[p].used)
BY DEF Now, Same, ProcRecord

\* The place and the handler.
LEMMA SetPcRch ==
    ASSUME proc \in [Paths -> ProcRecord], NEW p \in Paths, NEW l \in PC, NEW r \in Rchs \cup {NoRch},
           proc' = [proc EXCEPT ![p].pc = l, ![p].rch = r]
    PROVE  Now(p, l, proc[p].op, r, proc[p].kbuf, proc[p].used)
BY DEF Now, Same, ProcRecord

\* The place and the mapping.
LEMMA SetPcKbuf ==
    ASSUME proc \in [Paths -> ProcRecord], NEW p \in Paths, NEW l \in PC, NEW m \in Kbufs,
           proc' = [proc EXCEPT ![p].pc = l, ![p].kbuf = m]
    PROVE  Now(p, l, proc[p].op, proc[p].rch, m, proc[p].used)
BY DEF Now, Same, ProcRecord

\* The place and whether a message was built.
LEMMA SetPcUsed ==
    ASSUME proc \in [Paths -> ProcRecord], NEW p \in Paths, NEW l \in PC, NEW u \in BOOLEAN,
           proc' = [proc EXCEPT ![p].pc = l, ![p].used = u]
    PROVE  Now(p, l, proc[p].op, proc[p].rch, proc[p].kbuf, u)
BY DEF Now, Same, ProcRecord

\* The place, the handler and the mapping.
LEMMA SetPcRchKbuf ==
    ASSUME proc \in [Paths -> ProcRecord], NEW p \in Paths, NEW l \in PC, NEW r \in Rchs \cup {NoRch},
           NEW m \in Kbufs, proc' = [proc EXCEPT ![p].pc = l, ![p].rch = r, ![p].kbuf = m]
    PROVE  Now(p, l, proc[p].op, r, m, proc[p].used)
BY DEF Now, Same, ProcRecord

\* The place, the call and whether a message was built.
LEMMA SetPcOpUsed ==
    ASSUME proc \in [Paths -> ProcRecord], NEW p \in Paths, NEW l \in PC, NEW op \in Ops,
           NEW u \in BOOLEAN, proc' = [proc EXCEPT ![p].pc = l, ![p].op = op, ![p].used = u]
    PROVE  Now(p, l, op, proc[p].rch, proc[p].kbuf, u)
BY DEF Now, Same, ProcRecord

\* All of it.
LEMMA SetAll ==
    ASSUME proc \in [Paths -> ProcRecord], NEW p \in Paths, NEW l \in PC, NEW op \in Ops,
           NEW r \in Rchs \cup {NoRch}, NEW m \in Kbufs, NEW u \in BOOLEAN,
           proc' = [proc EXCEPT ![p] = [pc |-> l, op |-> op, rch |-> r, kbuf |-> m, used |-> u]]
    PROVE  Now(p, l, op, r, m, u)
BY DEF Now, Same, ProcRecord

-----------------------------------------------------------------------------
\* The assumptions on the constants, as the proofs need them.
LEMMA Sizes ==
    /\ NoRch \notin Rchs /\ NoMap \notin Maps /\ ABMap \notin Maps /\ NoMap # ABMap
    /\ NoPath \notin Paths /\ IdMod \in Nat /\ IdMod > 0 /\ InFrames \in Nat /\ NHandlers \in Nat
    /\ NHandlers > 0 /\ NMappings \in Nat /\ NMappings > 1
BY SizesAssumption, PathsAssumption, MapAssumption DEF Rchs, NoRch, Maps

\* The types of the parts of the state.
LEMMA Types ==
    ASSUME CoreOK
    PROVE  /\ proc \in [Paths -> ProcRecord] /\ rch \in [Rchs -> RchRecord]
           /\ pending \in Seq(Request) /\ list \in Seq(Rchs)
           /\ \A p \in Paths : /\ proc[p].pc \in PC /\ proc[p].op \in Ops
                               /\ proc[p].rch \in Rchs \cup {NoRch}
                               /\ proc[p].kbuf \in Kbufs /\ proc[p].used \in BOOLEAN
           /\ \A r \in Rchs : /\ rch[r].path \in Paths \cup {NoPath} /\ rch[r].id \in Ids
                              /\ rch[r].valid \in {-1, 0, 1} /\ rch[r].kbuf \in Kbufs
                              /\ rch[r].pool \in BOOLEAN
           /\ \A k \in DOMAIN pending :
                 /\ pending[k] \in Request /\ pending[k].id \in Ids /\ pending[k].rch \in Rchs
                 /\ pending[k].path \in Paths /\ pending[k].kbuf \in Kbufs
           /\ Listed \subseteq Rchs /\ Listed = Elems(list)
           /\ Len(pending) \in Nat /\ DOMAIN pending = 1 .. Len(pending)
<1>1. /\ proc \in [Paths -> ProcRecord] /\ rch \in [Rchs -> RchRecord]
      /\ pending \in Seq(Request) /\ list \in Seq(Rchs)
  BY DEF CoreOK, ProcRecord, RchRecord, Request
<1>2. \A p \in Paths : /\ proc[p].pc \in PC /\ proc[p].op \in Ops
                       /\ proc[p].rch \in Rchs \cup {NoRch}
                       /\ proc[p].kbuf \in Kbufs /\ proc[p].used \in BOOLEAN
  <2> TAKE p \in Paths
  <2>1. proc[p] \in ProcRecord
    BY <1>1
  <2> QED BY <2>1 DEF ProcRecord
<1>3. \A r \in Rchs : /\ rch[r].path \in Paths \cup {NoPath} /\ rch[r].id \in Ids
                      /\ rch[r].valid \in {-1, 0, 1} /\ rch[r].kbuf \in Kbufs
                      /\ rch[r].pool \in BOOLEAN
  <2> TAKE r \in Rchs
  <2>1. rch[r] \in RchRecord
    BY <1>1
  <2> QED BY <2>1 DEF RchRecord
<1>4. \A k \in DOMAIN pending :
          /\ pending[k] \in Request /\ pending[k].id \in Ids /\ pending[k].rch \in Rchs
          /\ pending[k].path \in Paths /\ pending[k].kbuf \in Kbufs
  <2> TAKE k \in DOMAIN pending
  <2>1. pending[k] \in Request
    BY <1>1
  <2> QED BY <2>1 DEF Request
<1>5. Listed \subseteq Rchs /\ Listed = Elems(list)
  BY <1>1 DEF Listed, Elems
<1>6. Len(pending) \in Nat /\ DOMAIN pending = 1 .. Len(pending)
  BY <1>1
<1> QED BY <1>1, <1>2, <1>3, <1>4, <1>5, <1>6

\* Without AB buffers, which is so when paths are closed, one path is open.
LEMMA Alone ==
    ASSUME IInv, NEW p \in Paths, NEW o \in Paths, "ab" \notin env,
           proc[p].pc # "closed", proc[o].pc # "closed"
    PROVE  p = o
BY DEF IInv, Turns, Exclusive

\* A path that is being closed is the only open one.
LEMMA CloseAlone ==
    ASSUME IInv, NEW p \in Paths, NEW o \in Paths, proc[p].op = "close",
           proc[p].pc # "closed", proc[o].pc # "closed"
    PROVE  p = o
<1>1. "ab" \notin env
  BY DEF IInv, Places, PlaceOK, Regular
<1> QED BY <1>1, Alone

\* The path of p is open, or may be opened.
MayRun(p) == proc[p].pc = "closed" /\ p \in Exclusive => mutex = NoPath

\* Nobody else is between two accesses when a process runs: it would have the
\* processor.
LEMMA NoClaims ==
    ASSUME IInv, NEW p \in Paths, Runs(p), MayRun(p), NEW o \in Paths, o # p
    PROVE  proc[o].pc \notin Claims
BY Sizes DEF IInv, Regular, Turns, Runs

\* The step of a process does not disturb the places of the others.
LEMMA OtherPlaces ==
    ASSUME IInv, NEW p \in Paths, Runs(p), MayRun(p), Same(p), env' = env, PlaceOK(p)'
    PROVE  Places'
<1> SUFFICES ASSUME NEW o \in Paths, o # p PROVE PlaceOK(o)'
  BY DEF Places
<1>1. proc'[o] = proc[o] /\ proc[o].pc # "mapClaim" /\ proc[o].pc # "rchClaim"
  BY NoClaims DEF Same, Claims
<1>2. PlaceOK(o)
  BY DEF IInv, Places
<1>3. Bare(o)' <=> Bare(o)
  BY <1>1 DEF Bare, ReadsAB, Exclusive
<1> QED BY <1>1, <1>2, <1>3 DEF PlaceOK

\* Nor whose turn it is.
LEMMA TurnsKept ==
    ASSUME IInv, NEW p \in Paths, Runs(p), Same(p), env' = env, mutex' = mutex,
           proc'[p].pc \in Claims /\ "smp" \notin env => cpu' = p, proc[p].pc # "closed"
    PROVE  Turns'
<1>1. Exclusive' = Exclusive /\ Exclusive \subseteq Paths
  BY DEF Exclusive
<1>2. ASSUME NEW o \in Paths, proc'[o].pc \in Claims, "smp" \notin env PROVE cpu' = o
  BY <1>2, NoClaims DEF Same, MayRun
<1>3. ASSUME NEW o \in Exclusive, proc'[o].pc # "closed" PROVE mutex' = o
  BY <1>1, <1>3 DEF Same, IInv, Turns
<1> QED BY <1>1, <1>2, <1>3 DEF Turns

\* Steps of a process that is not out with a request, and leaves handlers,
\* list and requests alone.
Quiet(p) ==
    /\ rch' = rch /\ list' = list /\ lastId' = lastId /\ pending' = pending
    /\ badDel' = badDel /\ env' = env /\ Same(p)
    /\ proc[p].pc \notin Out \cup {"error"}
    /\ proc'[p].pc \notin Out \cup {"error", "closed"}
    /\ proc'[p].used = proc[p].used \/ proc[p].pc = "closed"
    /\ proc'[p].pc = "cleanup" /\ "close_signal" \notin env => pending = <<>>

\* Quiet steps keep what is said about handlers ...
LEMMA QuietHandlers ==
    ASSUME IInv, NEW p \in Paths, Quiet(p), rchRes \subseteq rchRes'
    PROVE  Handlers'
<1>1. /\ Handlers /\ CoreOK /\ Listed' = Listed /\ \A r \in Rchs : rch[r].path \in Paths \cup {NoPath}
      /\ Listed \subseteq Rchs
  BY Types DEF IInv, Listed, Quiet, Typed
<1>2. \A o \in Paths : o # p => proc'[o] = proc[o]
  BY DEF Quiet, Same
<1> QED BY <1>1, <1>2 DEF Handlers, Quiet

\* ... about requests ...
LEMMA QuietRequests ==
    ASSUME IInv, NEW p \in Paths, Quiet(p)
    PROVE  Requests' /\ Sent'
<1>1. /\ Handlers /\ Requests /\ Sent /\ Holds /\ Listed' = Listed /\ Listed \subseteq Rchs
      /\ \A r \in Rchs : rch[r].path \in Paths \cup {NoPath}
      /\ \A k \in DOMAIN pending : pending[k].path \in Paths /\ pending[k].rch \in Rchs
  BY Types DEF IInv, Listed, Quiet, Typed
<1>2. \A o \in Paths : o # p => proc'[o] = proc[o]
  BY DEF Quiet, Same
<1>3. /\ env' = env /\ rch' = rch /\ pending' = pending /\ lastId' = lastId
      /\ \A i \in Ids : Gap(i)' = Gap(i)
  BY DEF Quiet, Gap
<1>4. ASSUME "close_signal" \notin env PROVE Requests'
  <2>1. ASSUME NEW k \in DOMAIN pending PROVE AtCard(pending[k])'
    <3>1. AtCard(pending[k]) /\ rch[pending[k].rch].path # NoPath
      BY <1>1, <1>4, <2>1 DEF Requests, AtCard, Handlers
    <3>2. proc[pending[k].path].pc # "closed"
      BY <1>1, <2>1, <3>1 DEF Handlers, AtCard
    <3> QED BY <1>1, <1>2, <1>3, <2>1, <3>1, <3>2 DEF AtCard, Quiet
  <2>2. \A o \in Paths : Closing(o)' => Closing(o) /\ proc'[o] = proc[o]
    BY <1>2 DEF Quiet, Closing, Out
  <2>3. \A o \in Paths : Closing(o)' => (Answered(o)' <=> Answered(o))
    BY <1>3, <2>2 DEF Answered
  <2>4. \A o \in Paths : proc'[o].pc = "last" => Closing(o)' \/ proc[o].pc = "last"
    BY <1>2 DEF Quiet, Closing, Out
  <2>5. \A o \in Paths : proc'[o].pc = "last" => proc'[o] = proc[o]
    BY <1>2 DEF Quiet, Out
  <2>6. \A o \in Paths : proc'[o].pc = "last" => Answered(o)'
    BY <1>1, <1>3, <1>4, <2>5 DEF Requests, Answered
  <2>7. \A o \in Paths : proc'[o].pc = "cleanup" => pending = <<>>
    BY <1>1, <1>2, <1>4 DEF Requests, Quiet
  <2>8. \A o \in Paths : Closing(o)' /\ Answered(o)' => pending = <<>>
    BY <1>1, <1>4, <2>2, <2>3 DEF Requests
  <2>9. \A o \in Paths : Closing(o)' /\ ~ Answered(o)' =>
            \A k \in DOMAIN pending : pending[k].id = rch[proc'[o].rch].id =>
                 pending[k].rch = proc'[o].rch /\ k = Len(pending)
    BY <1>1, <1>4, <2>2, <2>3 DEF Requests
  <2>10. "late" \in env => \A k \in DOMAIN pending : Gap(pending[k].id)' = Len(pending) - k
    BY <1>1, <1>3, <1>4 DEF Requests, Gap
  <2> QED BY <1>1, <1>3, <1>4, <2>1, <2>6, <2>7, <2>8, <2>9, <2>10 DEF Requests
<1>5. Requests'
  BY <1>3, <1>4 DEF Requests
<1>6. ASSUME AllSent PROVE Sent'
  <2>1. \A o \in Paths : proc'[o].pc = "send" <=> proc[o].pc = "send"
    BY <1>2 DEF Quiet, Out
  <2>2. \A o \in Paths : proc[o].pc = "send" => proc'[o] = proc[o]
    BY <1>2 DEF Quiet, Out
  <2>3. \A r \in Listed : rch[r].path \in Paths
    BY <1>1 DEF Handlers
  <2>4. ASSUME NEW r \in Listed
        PROVE  \/ \E k \in DOMAIN pending : pending[k].rch = r
               \/ rch[r].valid # 0
               \/ proc'[rch[r].path].pc = "send" /\ proc'[rch[r].path].rch = r
    BY <1>1, <1>6, <2>1, <2>2, <2>3 DEF Sent
  <2>5. ASSUME NEW o \in Paths, proc'[o].pc = "send", NEW s \in Listed, rch[s].valid # 0
        PROVE  rch[s].id # rch[proc'[o].rch].id
    BY <1>1, <1>6, <2>1, <2>2, <2>5 DEF Sent
  <2> QED BY <1>1, <1>3, <1>6, <2>4, <2>5 DEF Sent
<1>7. Sent'
  BY <1>3, <1>6 DEF Sent, AllSent
<1> QED BY <1>5, <1>7

\* ... and that does not come by a handler.
LEMMA QuietHolds ==
    ASSUME IInv, NEW p \in Paths, Quiet(p), rchRes' = rchRes,
           proc'[p].pc \in Raw => proc[p].pc \in Raw /\ proc'[p].rch = proc[p].rch
    PROVE  Holds'
<1> SUFFICES ASSUME NEW o \in Paths PROVE HoldOK(o)'
  BY DEF Holds
<1>1. /\ HoldOK(o) /\ HoldOK(p) /\ Listed' = Listed /\ \A q \in Paths : q # p => proc'[q] = proc[q]
      /\ rch' = rch /\ pending' = pending /\ lastId' = lastId /\ env' = env
  BY DEF IInv, Listed, Quiet, Holds, Same
<1>2. CASE o = p
  <2>1. proc'[p].pc \in Raw => \A q \in Paths \ {p} : proc'[q].pc \in Raw => proc'[q].rch # proc'[p].rch
    BY <1>1 DEF HoldOK
  <2> QED BY <1>1, <1>2, <2>1 DEF HoldOK, Quiet, Raw, Out
<1>3. CASE o # p
  <2>1. proc'[o] = proc[o] /\ (Answered(o)' <=> Answered(o)) /\ (ReadsAB(o)' <=> ReadsAB(o))
    BY <1>1, <1>3 DEF Answered, ReadsAB, Exclusive
  <2>2. proc'[o].pc \in Raw => \A q \in Paths \ {o} : proc'[q].pc \in Raw => proc'[q].rch # proc'[o].rch
    BY <1>1, <2>1 DEF HoldOK
  <2> QED BY <1>1, <2>1, <2>2 DEF HoldOK
<1> QED BY <1>2, <1>3

\* ... about mappings ...
LEMMA QuietMappings ==
    ASSUME IInv, NEW p \in Paths, Quiet(p), mapRes' = mapRes,
           proc'[p].pc = "build" => proc'[p].kbuf = NoMap
    PROVE  Mappings'
<1>1. /\ Mappings /\ \A q \in Paths : q # p => proc'[q] = proc[q]
      /\ \A r \in Rchs, m \in Maps : Used(r, m)' <=> Used(r, m)
      /\ env' = env
  BY DEF IInv, Quiet, Same, Used
<1> QED BY <1>1, Sizes DEF Mappings

\* ... and so the invariant, when they are right for the process itself.
LEMMA QuietStep ==
    ASSUME IInv, NEW p \in Paths, Runs(p), Quiet(p), proc' \in [Paths -> ProcRecord],
           UNCHANGED <<pools, mutex>>, proc[p].pc # "closed", PlaceOK(p)',
           cpu' \in Paths \cup {NoPath}, proc'[p].pc \in Claims /\ "smp" \notin env => cpu' = p,
           proc'[p].pc \in Raw => proc[p].pc \in Raw /\ proc'[p].rch = proc[p].rch,
           proc'[p].pc = "build" => proc'[p].kbuf = NoMap
    PROVE  IInv'
<1>0. Same(p) /\ env' = env /\ rchRes' = rchRes /\ mapRes' = mapRes /\ mutex' = mutex
  BY DEF Quiet, pools
<1>1. Places'
  BY <1>0, OtherPlaces DEF MayRun
<1>2. Turns'
  BY <1>0, TurnsKept
<1>3. Holds' /\ Handlers' /\ Mappings'
  BY <1>0, QuietHolds, QuietHandlers, QuietMappings
<1>4. Requests' /\ Sent'
  BY QuietRequests
<1>5. Regular(env)'
  BY <1>0 DEF IInv, Regular
<1>6. Typed'
  BY DEF IInv, Typed, CoreOK, Quiet, ProcRecord, pools
<1> QED BY <1>1, <1>2, <1>3, <1>4, <1>5, <1>6 DEF IInv

\* The facts about the process that every action starts from.
LEMMA Here ==
    ASSUME IInv, NEW p \in Paths
    PROVE  /\ proc \in [Paths -> ProcRecord] /\ PlaceOK(p) /\ HoldOK(p)
           /\ proc[p].pc \in PC /\ proc[p].op \in Ops /\ proc[p].rch \in Rchs \cup {NoRch}
           /\ proc[p].kbuf \in Kbufs /\ proc[p].used \in BOOLEAN
           /\ cpu \in Paths \cup {NoPath}
           /\ proc[p].pc \notin Idle => proc[p].rch \in Rchs
<1>1. CoreOK /\ Places /\ Holds /\ Regular(env)
  BY DEF IInv, Typed
<1>2. cpu \in Paths \cup {NoPath}
  BY <1>1 DEF CoreOK
<1> QED BY <1>1, <1>2, Types DEF Places, Holds, Regular, PlaceOK

\* A system call begins.
LEMMA CallStep ==
    ASSUME IInv, NEW p \in Paths, NEW op \in {"read", "write", "close"}, Call(p, op), env' = env
    PROVE  IInv'
<1> DEFINE l == IF op = "close" /\ ~ proc[p].used THEN "cleanup" ELSE "rch"
<1>1. /\ At(p, "open") /\ (op = "close" => "close" \in env)
      /\ proc' = [proc EXCEPT ![p].op = op, ![p].pc = l]
      /\ UNCHANGED <<pools, rch, list, lastId, pending, mutex, cpu, badDel>>
  BY DEF Call
<1>2. /\ l \in PC /\ l \in {"cleanup", "rch"} /\ op \in Ops
      /\ l = "cleanup" => op = "close" /\ proc[p].used = FALSE
  BY Here DEF PC, Ops
<1> HIDE DEF l
<1>3. Now(p, l, op, proc[p].rch, proc[p].kbuf, proc[p].used)
  BY <1>1, <1>2, Here, SetPcOp
<1>4. Runs(p) /\ proc[p].pc = "open"
  BY <1>1 DEF At
<1>5. l = "cleanup" /\ "close_signal" \notin env => pending = <<>>
  <2> SUFFICES ASSUME l = "cleanup", "close_signal" \notin env, pending # <<>>
               PROVE  FALSE
    OBVIOUS
  <2>0. CoreOK
    BY DEF IInv, Typed
  <2>1. 1 \in DOMAIN pending
    BY <2>0, Types
  <2>2. AtCard(pending[1]) /\ pending[1].path \in Paths /\ pending[1].rch \in Rchs
    BY <2>0, <2>1, Types DEF IInv, Requests
  <2>3. proc[pending[1].path].pc # "closed"
    BY <2>2, Sizes DEF AtCard, IInv, Handlers
  <2>4. "ab" \notin env
    BY <1>1, <1>2 DEF IInv, Regular
  <2>5. pending[1].path = p
    BY <1>4, <2>2, <2>3, <2>4, Alone
  <2> QED BY <1>2, <2>2, <2>5 DEF AtCard
<1>6. Quiet(p)
  BY <1>1, <1>2, <1>3, <1>4, <1>5 DEF Quiet, Now, Out
<1>7. PlaceOK(p)'
  BY <1>1, <1>2, <1>3, <1>4, Here DEF Now, PlaceOK, Idle, Out, Raw
<1>8. proc'[p].pc \notin Claims /\ proc'[p].pc \notin Raw /\ proc'[p].pc # "build"
  BY <1>2, <1>3 DEF Now, Claims, Raw
<1> QED BY <1>1, <1>3, <1>4, <1>6, <1>7, <1>8, Here, QuietStep DEF Now

\* _alloc on the handlers: the scan, and the sleep when none is free.
LEMMA RchScanStep ==
    ASSUME IInv, NEW p \in Paths, RchScan(p), env' = env
    PROVE  IInv'
<1> DEFINE r == NextFree(rchRes, rchCur, NHandlers)
<1>0. r \in Rchs /\ r \notin rchRes
  <2>1. rchRes \in SUBSET (0 .. NHandlers - 1) /\ rchCur \in 0 .. NHandlers - 1
        /\ rchRes # 0 .. NHandlers - 1
    BY DEF IInv, Typed, CoreOK, Rchs, RchScan
  <2> QED BY <2>1, NextFreeIsFree, Sizes DEF Rchs
<1>1. /\ At(p, "rch")
      /\ proc' = [proc EXCEPT ![p].pc = "rchClaim", ![p].rch = r]
      /\ cpu' \in {p, NoPath} /\ ("smp" \notin env => cpu' = p)
      /\ UNCHANGED <<pools, rch, list, lastId, pending, mutex, badDel>>
  BY Here DEF RchScan, HoldCpu
<1> HIDE DEF r
<1>2. "rchClaim" \in PC
  BY DEF PC
<1>3. Now(p, "rchClaim", proc[p].op, r, proc[p].kbuf, proc[p].used)
  BY <1>0, <1>1, <1>2, Here, SetPcRch
<1>4. Runs(p) /\ proc[p].pc = "rch"
  BY <1>1 DEF At
<1>6. Quiet(p)
  BY <1>1, <1>3, <1>4 DEF Quiet, Now, Out
<1>7. PlaceOK(p)'
  <2>1. PlaceOK(p) /\ rchRes' = rchRes /\ r # NoRch
    BY <1>0, <1>1, Here, Sizes DEF pools
  <2> QED BY <1>0, <1>3, <1>4, <2>1 DEF Now, PlaceOK, Idle, Out, Raw
<1>8. proc'[p].pc \notin Raw /\ proc'[p].pc # "build"
  BY <1>3 DEF Now, Raw
<1> QED BY <1>1, <1>3, <1>4, <1>6, <1>7, <1>8, Here, QuietStep DEF Now

\* The steps around the sleep in _alloc, on the handler pool.
LEMMA RchSleepStep ==
    ASSUME IInv, NEW p \in Paths, RchSleep(p) \/ RchWake(p) \/ RchTimeout(p), env' = env
    PROVE  IInv'
<1> DEFINE l == proc'[p].pc
<1>1. /\ Runs(p) /\ proc[p].pc \in {"rch", "rchSleep"}
      /\ \E x \in {"rch", "rchSleep", "open"} :
            proc' = [proc EXCEPT ![p].pc = x] /\ (x = "open" => proc[p].op # "close")
      /\ UNCHANGED <<pools, rch, list, lastId, pending, mutex, cpu, badDel>>
  BY DEF RchSleep, RchWake, RchTimeout, At, Goto
<1>2. PICK x \in {"rch", "rchSleep", "open"} :
            proc' = [proc EXCEPT ![p].pc = x] /\ (x = "open" => proc[p].op # "close")
  BY <1>1
<1>3. Now(p, x, proc[p].op, proc[p].rch, proc[p].kbuf, proc[p].used)
  <2>1. x \in PC
    BY DEF PC
  <2> QED BY <1>2, <2>1, Here, SetPc
<1>6. Quiet(p)
  BY <1>1, <1>3 DEF Quiet, Now, Out
<1>7. PlaceOK(p)'
  BY <1>1, <1>2, <1>3, Here DEF Now, PlaceOK, Idle, Out, Raw, pools
<1>8. proc'[p].pc \notin Raw /\ proc'[p].pc # "build" /\ proc'[p].pc \notin Claims
  BY <1>3 DEF Now, Raw, Claims
<1> QED BY <1>1, <1>3, <1>6, <1>7, <1>8, Here, QuietStep DEF Now

\* _alloc on the mappings: the scan, and the sleep when none is free.
LEMMA MapScanStep ==
    ASSUME IInv, NEW p \in Paths, MapScan(p), env' = env
    PROVE  IInv'
<1> DEFINE m == NextFree(mapRes, mapCur, NMappings)
<1>0. m \in Maps /\ m \notin mapRes
  <2>1. mapRes \in SUBSET (0 .. NMappings - 1) /\ mapCur \in 0 .. NMappings - 1
        /\ mapRes # 0 .. NMappings - 1
    BY DEF IInv, Typed, CoreOK, Maps, MapScan
  <2> QED BY <2>1, NextFreeIsFree, Sizes DEF Maps
<1>1. /\ At(p, "map")
      /\ proc' = [proc EXCEPT ![p].pc = "mapClaim", ![p].kbuf = m]
      /\ cpu' \in {p, NoPath} /\ ("smp" \notin env => cpu' = p)
      /\ UNCHANGED <<pools, rch, list, lastId, pending, mutex, badDel>>
  BY Here DEF MapScan, HoldCpu
<1> HIDE DEF m
<1>2. "mapClaim" \in PC /\ m \in Kbufs
  BY <1>0 DEF PC, Kbufs
<1>3. Now(p, "mapClaim", proc[p].op, proc[p].rch, m, proc[p].used)
  BY <1>1, <1>2, Here, SetPcKbuf
<1>4. Runs(p) /\ proc[p].pc = "map"
  BY <1>1 DEF At
<1>6. Quiet(p)
  BY <1>1, <1>3, <1>4 DEF Quiet, Now, Out
<1>7. Bare(p)' <=> Bare(p)
  BY <1>3 DEF Now, Bare, ReadsAB, Exclusive
<1>8. PlaceOK(p)'
  <2>1. PlaceOK(p) /\ mapRes' = mapRes
    BY <1>1, Here DEF pools
  <2> QED BY <1>0, <1>3, <1>4, <1>7, <2>1 DEF Now, PlaceOK, Idle, Out, Raw
<1>9. proc[p].pc \in Raw /\ proc'[p].rch = proc[p].rch /\ proc'[p].pc # "build"
  BY <1>3, <1>4 DEF Now, Raw
<1> QED BY <1>1, <1>3, <1>4, <1>6, <1>8, <1>9, Here, QuietStep DEF Now

\* The steps around the sleep in _alloc, on the pool of mappings.
LEMMA MapSleepStep ==
    ASSUME IInv, NEW p \in Paths, MapSleep(p) \/ MapWake(p) \/ MapTimeout(p), env' = env
    PROVE  IInv'
<1>1. /\ Runs(p) /\ proc[p].pc \in {"map", "mapSleep"}
      /\ \E x \in {"map", "mapSleep", "noMap"} :
            proc' = [proc EXCEPT ![p].pc = x] /\ (x = "noMap" => "alloc_timeout" \in env)
      /\ UNCHANGED <<pools, rch, list, lastId, pending, mutex, cpu, badDel>>
  BY DEF MapSleep, MapWake, MapTimeout, At, Goto
<1>2. PICK x \in {"map", "mapSleep", "noMap"} :
            proc' = [proc EXCEPT ![p].pc = x] /\ (x = "noMap" => "alloc_timeout" \in env)
  BY <1>1
<1>3. Now(p, x, proc[p].op, proc[p].rch, proc[p].kbuf, proc[p].used)
  <2>1. x \in PC
    BY DEF PC
  <2> QED BY <1>2, <2>1, Here, SetPc
<1>6. Quiet(p)
  BY <1>1, <1>3 DEF Quiet, Now, Out
<1>7. Bare(p)' <=> Bare(p)
  BY <1>3 DEF Now, Bare, ReadsAB, Exclusive
<1>8. PlaceOK(p)'
  BY <1>1, <1>2, <1>3, <1>7, Here DEF Now, PlaceOK, Idle, Out, Raw, pools
<1>9. proc[p].pc \in Raw /\ proc'[p].rch = proc[p].rch /\ proc'[p].pc # "build"
      /\ proc'[p].pc \notin Claims
  BY <1>1, <1>3 DEF Now, Raw, Claims
<1> QED BY <1>1, <1>3, <1>6, <1>8, <1>9, Here, QuietStep DEF Now

\* A write of zero bytes returns with what it has reserved.
LEMMA WriteEmptyStep ==
    ASSUME IInv, NEW p \in Paths, WriteEmpty(p), env' = env
    PROVE  IInv'
<1>1. /\ Runs(p) /\ proc[p].pc = "build" /\ proc[p].op = "write"
      /\ proc' = [proc EXCEPT ![p].pc = "open", ![p].rch = NoRch, ![p].kbuf = NoMap]
      /\ UNCHANGED <<pools, rch, list, lastId, pending, mutex, cpu, badDel>>
  BY DEF WriteEmpty, At
<1>3. Now(p, "open", "write", NoRch, NoMap, proc[p].used)
  <2>1. "open" \in PC /\ NoRch \in Rchs \cup {NoRch} /\ NoMap \in Kbufs
    BY DEF PC, Kbufs
  <2> QED BY <1>1, <2>1, Here, SetPcRchKbuf
<1>6. Quiet(p)
  BY <1>1, <1>3 DEF Quiet, Now, Out
<1>7. PlaceOK(p)'
  BY <1>1, <1>3, Here DEF Now, PlaceOK, Idle, Out, Raw, pools
<1>8. proc'[p].pc \notin Raw /\ proc'[p].pc # "build" /\ proc'[p].pc \notin Claims
  BY <1>3 DEF Now, Raw, Claims
<1> QED BY <1>1, <1>3, <1>6, <1>7, <1>8, Here, QuietStep DEF Now

\* acq200_open: the path is the first, or one of an AB buffer.
LEMMA OpenStep ==
    ASSUME IInv, NEW p \in Paths, Open(p), env' = env
    PROVE  IInv'
<1>1. /\ Runs(p) /\ proc[p].pc = "closed"
      /\ p \in Exclusive => mutex = NoPath
      /\ mutex' = IF p \in Exclusive THEN p ELSE mutex
      /\ proc' = [proc EXCEPT ![p] = [pc |-> "open", op |-> "none", rch |-> NoRch,
                                      kbuf |-> NoMap, used |-> FALSE]]
      /\ UNCHANGED <<pools, rch, list, lastId, pending, cpu, badDel>>
  BY DEF Open, At
<1>2. Now(p, "open", "none", NoRch, NoMap, FALSE)
  <2>1. "open" \in PC /\ "none" \in Ops /\ NoRch \in Rchs \cup {NoRch} /\ NoMap \in Kbufs
    BY DEF PC, Kbufs, Ops
  <2> QED BY <1>1, <2>1, Here, SetAll
<1>3. Quiet(p) /\ rchRes' = rchRes /\ mapRes' = mapRes
  BY <1>1, <1>2 DEF Quiet, Now, Out, pools
<1>4. proc'[p].pc \notin Raw /\ proc'[p].pc # "build" /\ proc'[p].pc \notin Claims
  BY <1>2 DEF Now, Raw, Claims
<1>5. PlaceOK(p)'
  BY <1>2 DEF Now, PlaceOK, Idle, Out, Raw
<1>6. Places'
  BY <1>1, <1>3, <1>5, OtherPlaces DEF Quiet, MayRun
<1>7. Turns'
  <2>1. Exclusive' = Exclusive /\ Exclusive \subseteq Paths
    BY DEF Exclusive
  <2>2. ASSUME NEW o \in Paths, proc'[o].pc \in Claims, "smp" \notin env PROVE cpu' = o
    BY <1>1, <1>2, <1>4, <2>2, NoClaims DEF Now, Same, MayRun
  <2>3. ASSUME NEW o \in Exclusive, proc'[o].pc # "closed" PROVE mutex' = o
    BY <1>1, <1>2, <2>1, <2>3, Sizes DEF Now, Same, IInv, Turns
  <2> QED BY <2>1, <2>2, <2>3 DEF Turns
<1>8. Holds' /\ Handlers' /\ Mappings' /\ Requests' /\ Sent'
  BY <1>3, <1>4, QuietHolds, QuietHandlers, QuietMappings, QuietRequests
<1>9. Typed' /\ Regular(env)'
  BY <1>1, <1>2 DEF Now, IInv, Typed, CoreOK, ProcRecord, pools, Regular
<1> QED BY <1>6, <1>7, <1>8, <1>9 DEF IInv

\* The entry that the scan found is still free when it is reserved: nobody else ran.
LEMMA RchClaimStep ==
    ASSUME IInv, NEW p \in Paths, RchClaim(p), env' = env
    PROVE  IInv'
<1> DEFINE r == proc[p].rch
           l == IF proc[p].op = "close" \/ (proc[p].op = "read" /\ p \notin Exclusive)
                THEN "build" ELSE "map"
<1>1. /\ Runs(p) /\ proc[p].pc = "rchClaim"
      /\ rchCur' = r /\ rchRes' = rchRes \cup {r} /\ cpu' = NoPath
      /\ proc' = [proc EXCEPT ![p].pc = l]
      /\ UNCHANGED <<mapRes, mapCur, rch, list, lastId, pending, mutex, badDel>>
  BY DEF RchClaim, At, Goto, FreeCpu
<1>2. r \in Rchs /\ r \notin rchRes /\ proc[p].kbuf = NoMap
  BY <1>1, Here DEF PlaceOK, Idle
<1>3. l \in {"build", "map"} /\ (l = "build" <=> Bare(p))
  BY DEF Bare, ReadsAB
<1>4. Now(p, l, proc[p].op, r, NoMap, proc[p].used)
  <2>1. l \in PC
    BY <1>3 DEF PC
  <2> QED BY <1>1, <1>2, <2>1, Here, SetPc
<1> HIDE DEF l
<1>5. Quiet(p) /\ proc'[p].pc \notin Claims /\ proc'[p].kbuf = NoMap
  BY <1>1, <1>3, <1>4 DEF Quiet, Now, Out, Claims
<1>6. Bare(p)' <=> Bare(p)
  BY <1>4 DEF Now, Bare, ReadsAB, Exclusive
<1>7. PlaceOK(p)'
  BY <1>1, <1>2, <1>3, <1>4, <1>6, Here, Sizes DEF Now, PlaceOK, Idle, Out, Raw
<1>8. Places' /\ Turns'
  BY <1>1, <1>5, <1>7, OtherPlaces, TurnsKept DEF Quiet, MayRun
<1>9. Handlers' /\ Mappings' /\ Requests' /\ Sent'
  BY <1>1, <1>5, QuietHandlers, QuietMappings, QuietRequests
<1>10. Holds'
  <2> SUFFICES ASSUME NEW o \in Paths PROVE HoldOK(o)'
    BY DEF Holds
  <2>1. /\ HoldOK(o) /\ Listed' = Listed /\ \A q \in Paths : q # p => proc'[q] = proc[q]
        /\ rch' = rch /\ pending' = pending /\ lastId' = lastId /\ env' = env
        /\ \A q \in Paths : HoldOK(q)
    BY <1>5 DEF IInv, Listed, Quiet, Holds, Same
  <2>2. rch[r].path = NoPath
    BY <1>2 DEF IInv, Handlers
  <2>3. proc'[p].rch = r /\ proc'[p].pc = l
    BY <1>4 DEF Now
  <2>4. \A q \in Paths \ {p} : proc'[q].pc \in Raw => proc'[q].rch # r
    BY <1>2, <2>1 DEF HoldOK
  <2>5. CASE o = p
    BY <1>1, <1>3, <2>1, <2>2, <2>3, <2>4, <2>5 DEF HoldOK, Raw, Out
  <2>6. CASE o # p
    <3>1. proc'[o] = proc[o] /\ (Answered(o)' <=> Answered(o)) /\ (ReadsAB(o)' <=> ReadsAB(o))
      BY <2>1, <2>6 DEF Answered, ReadsAB, Exclusive
    <3>2. proc'[o].pc \in Raw => \A q \in Paths \ {o} : proc'[q].pc \in Raw => proc'[q].rch # proc'[o].rch
      BY <2>1, <2>3, <2>4, <2>6, <3>1 DEF HoldOK
    <3>3. ~ (proc[o].pc \in Out /\ Answered(o))
      BY <1>1, <2>6, CloseAlone DEF Out, Answered
    <3>4. rchRes \subseteq rchRes'
      BY <1>1
    <3>5. CASE proc[o].pc \in Raw
      BY <2>1, <3>1, <3>2, <3>4, <3>5 DEF HoldOK, Raw, Out
    <3>6. CASE proc[o].pc \notin Raw
      BY <2>1, <3>1, <3>3, <3>6 DEF HoldOK
    <3> QED BY <3>5, <3>6
  <2> QED BY <2>5, <2>6
<1>11. Typed' /\ Regular(env)'
  BY <1>1, <1>2, <1>4 DEF Now, IInv, Typed, CoreOK, ProcRecord, Regular
<1> QED BY <1>8, <1>9, <1>10, <1>11 DEF IInv

\* The same for a mapping, which nobody uses as it was free.
LEMMA MapClaimStep ==
    ASSUME IInv, NEW p \in Paths, MapClaim(p), env' = env
    PROVE  IInv'
<1> DEFINE m == proc[p].kbuf
<1>1. /\ Runs(p) /\ proc[p].pc = "mapClaim"
      /\ mapCur' = m /\ mapRes' = mapRes \cup {m} /\ cpu' = NoPath
      /\ proc' = [proc EXCEPT ![p].pc = "build"]
      /\ UNCHANGED <<rchRes, rchCur, rch, list, lastId, pending, mutex, badDel>>
  BY DEF MapClaim, At, Goto, FreeCpu
<1>2. m \in Maps /\ m \notin mapRes /\ ~ Bare(p)
  BY <1>1, Here DEF PlaceOK, Raw
<1>4. Now(p, "build", proc[p].op, proc[p].rch, m, proc[p].used)
  <2>1. "build" \in PC
    BY DEF PC
  <2> QED BY <1>1, <2>1, Here, SetPc
<1>5. /\ Quiet(p) /\ proc'[p].pc \notin Claims /\ proc[p].pc \in Raw
      /\ proc'[p].rch = proc[p].rch
  BY <1>1, <1>4 DEF Quiet, Now, Out, Claims, Raw
<1>6. Bare(p)' <=> Bare(p)
  BY <1>4 DEF Now, Bare, ReadsAB, Exclusive
<1>7. PlaceOK(p)'
  BY <1>1, <1>2, <1>4, <1>6, Here, Sizes DEF Now, PlaceOK, Idle, Out, Raw
<1>8. Places' /\ Turns'
  BY <1>1, <1>5, <1>7, OtherPlaces, TurnsKept DEF Quiet, MayRun
<1>9. Handlers' /\ Holds' /\ Requests' /\ Sent'
  BY <1>1, <1>5, QuietHandlers, QuietHolds, QuietRequests
<1>10. Mappings'
  <2> SUFFICES ASSUME "alloc_timeout" \notin env PROVE Mappings'
    BY DEF Mappings
  <2>1. /\ Mappings /\ \A q \in Paths : q # p => proc'[q] = proc[q]
        /\ \A r \in Rchs, n \in Maps : Used(r, n)' <=> Used(r, n)
        /\ proc'[p].pc = "build" /\ proc'[p].kbuf = m
    BY <1>1, <1>4 DEF IInv, Now, Same, Used
  <2>2. \A r \in Rchs : ~ Used(r, m)
    BY <1>2, <2>1 DEF Mappings
  <2>3. \A o \in Paths : proc[o].pc = "build" => proc[o].kbuf # m
    BY <1>2, <2>1 DEF Mappings
  <2> HIDE DEF m
  <2>4. /\ \A r \in Rchs, n \in Maps : Used(r, n)' => n \in mapRes'
        /\ \A r, s \in Rchs, n \in Maps : Used(r, n)' /\ Used(s, n)' => r = s
    BY <1>1, <2>1 DEF Mappings
  <2>5. ASSUME NEW o \in Paths, NEW n \in Maps, proc'[o].pc = "build", proc'[o].kbuf = n
        PROVE  /\ n \in mapRes'
               /\ \A r \in Rchs : ~ Used(r, n)'
               /\ \A q \in Paths \ {o} : proc'[q].pc = "build" => proc'[q].kbuf # n
    <3>1. CASE o = p
      BY <1>1, <2>1, <2>2, <2>3, <2>5, <3>1
    <3>2. CASE o # p
      BY <1>1, <2>1, <2>3, <2>5, <3>2 DEF Mappings
    <3> QED BY <3>1, <3>2
  <2> QED BY <2>4, <2>5 DEF Mappings
<1>11. Typed' /\ Regular(env)'
  BY <1>1, <1>2, <1>4 DEF Now, IInv, Typed, CoreOK, ProcRecord, Regular
<1> QED BY <1>8, <1>9, <1>10, <1>11 DEF IInv

\* Steps that change nothing but the place of a process which is not building,
\* and, when they are not Still, the requests at the card.
Stays(p) ==
    /\ rch' = rch /\ list' = list /\ badDel' = badDel /\ env' = env /\ Same(p)
    /\ UNCHANGED pools
Still(p) == Stays(p) /\ lastId' = lastId /\ pending' = pending

\* What such steps keep.
LEMMA StillHolds ==
    ASSUME IInv, NEW p \in Paths, Still(p), proc'[p].pc \notin Raw, HoldOK(p)'
    PROVE  Holds'
<1> SUFFICES ASSUME NEW o \in Paths, o # p PROVE HoldOK(o)'
  BY DEF Holds
<1>1. /\ HoldOK(o) /\ Listed' = Listed /\ \A q \in Paths : q # p => proc'[q] = proc[q]
      /\ rch' = rch /\ pending' = pending /\ lastId' = lastId /\ env' = env /\ rchRes' = rchRes
  BY DEF IInv, Listed, Still, Stays, Holds, Same, pools
<1>2. proc'[o] = proc[o] /\ (Answered(o)' <=> Answered(o)) /\ (ReadsAB(o)' <=> ReadsAB(o))
  BY <1>1 DEF Answered, ReadsAB, Exclusive
<1>3. proc'[o].pc \in Raw => \A q \in Paths \ {o} : proc'[q].pc \in Raw => proc'[q].rch # proc'[o].rch
  BY <1>1, <1>2 DEF HoldOK
<1> QED BY <1>1, <1>2, <1>3 DEF HoldOK

\* The mappings, when the process is not building.
LEMMA StaysMappings ==
    ASSUME IInv, NEW p \in Paths, Stays(p), proc'[p].pc # "build"
    PROVE  Mappings'
<1>1. /\ Mappings /\ \A q \in Paths : q # p => proc'[q] = proc[q]
      /\ \A r \in Rchs, m \in Maps : Used(r, m)' <=> Used(r, m)
      /\ env' = env /\ mapRes' = mapRes
  BY DEF IInv, Stays, Same, Used, pools
<1> QED BY <1>1, Sizes DEF Mappings

\* The requests at the card, of which a process that stays out knows no more.
LEMMA StillSent ==
    ASSUME IInv, NEW p \in Paths, Still(p), proc[p].pc # "send", proc'[p].pc # "send"
    PROVE  Sent'
<1>1. /\ Handlers /\ Sent /\ Listed' = Listed /\ Listed \subseteq Rchs
      /\ \A r \in Rchs : rch[r].path \in Paths \cup {NoPath}
      /\ \A o \in Paths : o # p => proc'[o] = proc[o]
      /\ env' = env /\ rch' = rch /\ pending' = pending
  BY Types DEF IInv, Listed, Still, Stays, Same, Typed
<1>2. ASSUME AllSent PROVE Sent'
  <2>1. \A o \in Paths : proc'[o].pc = "send" \/ proc[o].pc = "send" => proc'[o] = proc[o]
    BY <1>1
  <2>3. \A r \in Listed : rch[r].path \in Paths
    BY <1>1 DEF Handlers
  <2>4. ASSUME NEW r \in Listed
        PROVE  \/ \E k \in DOMAIN pending : pending[k].rch = r
               \/ rch[r].valid # 0
               \/ proc'[rch[r].path].pc = "send" /\ proc'[rch[r].path].rch = r
    BY <1>1, <1>2, <2>1, <2>3 DEF Sent
  <2>5. ASSUME NEW o \in Paths, proc'[o].pc = "send", NEW s \in Listed, rch[s].valid # 0
        PROVE  rch[s].id # rch[proc'[o].rch].id
    BY <1>1, <1>2, <2>1, <2>5 DEF Sent
  <2> QED BY <1>1, <1>2, <2>4, <2>5 DEF Sent
<1> QED BY <1>1, <1>2 DEF Sent, AllSent

\* What the requests at the card say, when the requests and handlers stay.
LEMMA StillRequests ==
    ASSUME IInv, NEW p \in Paths, Still(p),
           "close_signal" \notin env =>
              /\ proc'[p].used = proc[p].used \/ pending = <<>>
              /\ proc'[p].pc \in {"wait", "last"} /\ proc'[p].op = "close" =>
                    Closing(p) /\ proc'[p].rch = proc[p].rch
              /\ proc'[p].pc = "last" => Answered(p)'
              /\ proc'[p].pc = "cleanup" => pending = <<>>
    PROVE  Requests'
<1>1. /\ Requests /\ Listed' = Listed
      /\ \A k \in DOMAIN pending : pending[k].path \in Paths /\ pending[k].rch \in Rchs
      /\ \A o \in Paths : o # p => proc'[o] = proc[o]
      /\ env' = env /\ rch' = rch /\ pending' = pending /\ lastId' = lastId
  BY Types DEF IInv, Listed, Still, Stays, Typed, Same
<1>4. ASSUME "close_signal" \notin env PROVE Requests'
  <2>1. ASSUME NEW k \in DOMAIN pending PROVE AtCard(pending[k])'
    <3>1. AtCard(pending[k]) /\ pending # <<>>
      BY <1>1, <1>4, <2>1 DEF Requests
    <3>2. proc'[pending[k].path].used = proc[pending[k].path].used
      BY <1>1, <1>4, <2>1, <3>1
    <3> QED BY <1>1, <3>1, <3>2 DEF AtCard
  <2>2. \A o \in Paths : Closing(o)' => Closing(o) /\ proc'[o].rch = proc[o].rch
    BY <1>1, <1>4 DEF Closing
  <2>3. \A o \in Paths : Closing(o)' => (Answered(o)' <=> Answered(o))
    BY <1>1, <2>2 DEF Answered, Closing
  <2>6. \A o \in Paths : proc'[o].pc = "last" => Answered(o)'
    <3> TAKE o \in Paths
    <3>1. CASE o = p
      BY <1>4, <3>1
    <3>2. CASE o # p
      BY <1>1, <1>4, <3>2 DEF Requests, Answered
    <3> QED BY <3>1, <3>2
  <2>7. \A o \in Paths : proc'[o].pc = "cleanup" => pending = <<>>
    BY <1>1, <1>4 DEF Requests
  <2>8. \A o \in Paths : Closing(o)' /\ Answered(o)' => pending = <<>>
    BY <1>1, <1>4, <2>2, <2>3 DEF Requests
  <2>9. \A o \in Paths : Closing(o)' /\ ~ Answered(o)' =>
            \A k \in DOMAIN pending : pending[k].id = rch[proc'[o].rch].id =>
                 pending[k].rch = proc'[o].rch /\ k = Len(pending)
    BY <1>1, <1>4, <2>2, <2>3 DEF Requests
  <2>10. "late" \in env => \A k \in DOMAIN pending : Gap(pending[k].id)' = Len(pending) - k
    BY <1>1, <1>4 DEF Requests, Gap
  <2> QED BY <1>1, <1>4, <2>1, <2>6, <2>7, <2>8, <2>9, <2>10 DEF Requests
<1> QED BY <1>1, <1>4 DEF Requests

\* The handlers, when the process does not leave one of its reads behind.
LEMMA StaysHandlers ==
    ASSUME IInv, NEW p \in Paths, Stays(p), proc[p].pc # "error",
           proc'[p].pc = "closed" => \A r \in Rchs : rch[r].path # p,
           \A r \in Listed : rch[r].handler = "read" /\ rch[r].path = p =>
              proc'[p].rch = r /\ proc'[p].pc \in Out /\ proc'[p].op = "read"
    PROVE  Handlers'
<1>1. /\ Handlers /\ Listed' = Listed /\ Listed \subseteq Rchs
      /\ \A s \in Rchs : rch[s].path \in Paths \cup {NoPath}
      /\ \A o \in Paths : o # p => proc'[o] = proc[o]
      /\ rch' = rch /\ list' = list /\ rchRes' = rchRes /\ badDel' = badDel /\ env' = env
  BY Types DEF IInv, Listed, Stays, Typed, Same, pools
<1>2. ASSUME NEW r \in Rchs, rch[r].path # NoPath
      PROVE  /\ r \in rchRes /\ proc'[rch[r].path].pc # "closed"
             /\ r \in Listed \/ (proc'[rch[r].path].pc = "error" /\ proc'[rch[r].path].rch = r)
  BY <1>1, <1>2 DEF Handlers
<1>3. ASSUME NEW r \in Listed, rch[r].handler = "read"
      PROVE  /\ proc'[rch[r].path].rch = r
             /\ proc'[rch[r].path].pc \in Out /\ proc'[rch[r].path].op = "read"
  BY <1>1, <1>3 DEF Handlers
<1> QED BY <1>1, <1>2, <1>3 DEF Handlers

\* The wait of a read or a release ends.
LEMMA WaitStep ==
    ASSUME IInv, NEW p \in Paths, Wait(p), env' = env
    PROVE  IInv'
<1> DEFINE l == IF proc[p].op = "close" THEN "last" ELSE "check"
<1>1. /\ Runs(p) /\ proc[p].pc = "wait" /\ proc' = [proc EXCEPT ![p].pc = l]
      /\ \/ rch[proc[p].rch].valid # 0
         \/ "read_signal" \in env /\ proc[p].op = "read"
         \/ "close_signal" \in env /\ proc[p].op = "close"
      /\ UNCHANGED <<pools, rch, list, lastId, pending, mutex, cpu, badDel>>
  BY DEF Wait, At, Goto
<1>2. Now(p, l, proc[p].op, proc[p].rch, proc[p].kbuf, proc[p].used)
  <2>1. l \in PC
    BY DEF PC
  <2> QED BY <1>1, <2>1, Here, SetPc
<1>3. /\ l \in {"last", "check"} /\ (l = "last" <=> proc[p].op = "close")
      /\ (l = "check" => proc[p].op = "read")
  BY <1>1, Here DEF PlaceOK, Ops
<1> HIDE DEF l
<1>4. Still(p) /\ mutex' = mutex /\ cpu' = cpu
  BY <1>1, <1>2 DEF Still, Stays, Now
<1>5. /\ Bare(p)' <=> Bare(p)
      /\ ReadsAB(p)' <=> ReadsAB(p)
      /\ Answered(p)' <=> Answered(p)
  BY <1>2, <1>4 DEF Now, Bare, ReadsAB, Exclusive, Answered, Still, Stays
<1>6. PlaceOK(p)'
  BY <1>1, <1>2, <1>3, <1>4, <1>5, Here, Sizes DEF Now, PlaceOK, Idle, Out, Raw
<1>7. Places'
  BY <1>1, <1>4, <1>6, OtherPlaces DEF Still, Stays, MayRun
<1>8. Turns'
  <2>1. proc'[p].pc \notin Claims
    BY <1>2, <1>3 DEF Now, Claims
  <2> QED BY <1>1, <1>4, <2>1, TurnsKept DEF Still, Stays
<1>9. proc'[p].pc \notin Raw /\ proc'[p].pc # "build" /\ proc'[p].pc # "send"
  BY <1>2, <1>3 DEF Now, Raw
<1>10. HoldOK(p)'
  <2>1. Listed' = Listed /\ rch' = rch /\ rchRes' = rchRes /\ HoldOK(p)
    BY <1>4, Here DEF Still, Stays, Listed, pools
  <2>2. l = "check" => ~ Answered(p)
    BY <1>3 DEF Answered
  <2> QED BY <1>1, <1>2, <1>3, <1>5, <1>9, <2>1, <2>2 DEF HoldOK, Now, Out
<1>11. Holds' /\ Mappings' /\ Sent'
  BY <1>1, <1>4, <1>9, <1>10, StillHolds, StaysMappings, StillSent DEF Still
<1>12. Requests'
  <2>1. proc'[p].used = proc[p].used /\ proc'[p].rch = proc[p].rch /\ proc'[p].pc # "cleanup"
    BY <1>2, <1>3 DEF Now
  <2>2. proc'[p].op = "close" => Closing(p)
    BY <1>1, <1>2 DEF Closing, Now
  <2>3. "close_signal" \notin env /\ proc'[p].pc = "last" => Answered(p)'
    <3> SUFFICES ASSUME "close_signal" \notin env, l = "last" PROVE Answered(p)
      BY <1>2, <1>5 DEF Now
    <3>1. proc[p].op = "close" /\ rch[proc[p].rch].valid # 0
      BY <1>1, <1>3
    <3> QED BY <1>1, <3>1, Here DEF HoldOK, Out
  <2> QED BY <1>4, <2>1, <2>2, <2>3, StillRequests
<1>13. Handlers'
  <2>1. /\ proc'[p].pc \in Out /\ proc'[p].op = proc[p].op /\ proc'[p].rch = proc[p].rch
        /\ proc'[p].pc # "closed"
    BY <1>2, <1>3 DEF Now, Out
  <2>2. \A r \in Listed : rch[r].handler = "read" /\ rch[r].path = p =>
            proc[p].rch = r /\ proc[p].op = "read"
    BY DEF IInv, Handlers
  <2> QED BY <1>1, <1>4, <2>1, <2>2, StaysHandlers DEF Still
<1>14. Typed' /\ Regular(env)'
  BY <1>1, <1>2 DEF Now, IInv, Typed, CoreOK, ProcRecord, Regular, pools
<1> QED BY <1>7, <1>8, <1>11, <1>12, <1>13, <1>14 DEF IInv

\* acq200_release: the path has no handler left, and no request at the card.
LEMMA ReleaseStep ==
    ASSUME IInv, NEW p \in Paths, Release(p), env' = env
    PROVE  IInv'
<1>1. /\ Runs(p) /\ proc[p].pc = "cleanup" /\ Trapped(p) = {}
      /\ mutex' = IF mutex = p THEN NoPath ELSE mutex
      /\ proc' = [proc EXCEPT ![p].pc = "closed", ![p].op = "none", ![p].used = FALSE]
      /\ UNCHANGED <<pools, rch, list, lastId, pending, cpu, badDel>>
  BY DEF Release, At
<1>2. Now(p, "closed", "none", proc[p].rch, proc[p].kbuf, FALSE)
  <2>1. "closed" \in PC /\ "none" \in Ops
    BY DEF PC, Ops
  <2> QED BY <1>1, <2>1, Here, SetPcOpUsed
<1>4. Still(p) /\ cpu' = cpu
  BY <1>1, <1>2 DEF Still, Stays, Now
<1>6. PlaceOK(p)'
  BY <1>1, <1>2, Here DEF Now, PlaceOK, Idle, Out, Raw
<1>7. Places'
  BY <1>1, <1>4, <1>6, OtherPlaces DEF Still, Stays, MayRun
<1>8. Turns'
  <2>1. Exclusive' = Exclusive /\ Exclusive \subseteq Paths
    BY <1>4 DEF Exclusive, Still, Stays
  <2>2. ASSUME NEW o \in Paths, proc'[o].pc \in Claims, "smp" \notin env PROVE cpu' = o
    BY <1>1, <1>2, <2>2, NoClaims DEF Now, Same, Claims, MayRun
  <2>3. ASSUME NEW o \in Exclusive, proc'[o].pc # "closed" PROVE mutex' = o
    BY <1>1, <1>2, <2>1, <2>3 DEF Now, Same, IInv, Turns
  <2> QED BY <2>1, <2>2, <2>3 DEF Turns
<1>9. proc'[p].pc \notin Raw /\ proc'[p].pc # "build" /\ proc'[p].pc # "send"
  BY <1>2 DEF Now, Raw
<1>10. HoldOK(p)'
  BY <1>2, <1>9 DEF HoldOK, Now, Out, Raw
<1>11. Holds' /\ Mappings' /\ Sent'
  BY <1>1, <1>4, <1>9, <1>10, StillHolds, StaysMappings, StillSent DEF Still
<1>12. Requests'
  <2>1. "close_signal" \notin env => pending = <<>>
    BY <1>1 DEF IInv, Requests
  <2> QED BY <1>2, <1>4, <2>1, StillRequests DEF Now
<1>13. Handlers'
  <2>1. Handlers /\ Listed \subseteq Rchs /\ \A r \in Rchs : rch[r].path \in Paths \cup {NoPath}
    BY Types DEF IInv, Typed
  <2>2. \A r \in Listed : rch[r].path # p
    BY <1>1 DEF Trapped, Listed
  <2>3. \A r \in Rchs : rch[r].path # p
    BY <1>1, <2>1, <2>2, Sizes DEF Handlers
  <2> QED BY <1>1, <1>4, <2>1, <2>3, StaysHandlers DEF Still
<1>14. Typed' /\ Regular(env)'
  BY <1>1, <1>2 DEF Now, IInv, Typed, CoreOK, ProcRecord, Regular, pools
<1> QED BY <1>7, <1>8, <1>11, <1>12, <1>13, <1>14 DEF IInv

\* After the wait of a release: the second recycle of an answered handler frees nothing.
Closes(p) ==
    /\ Runs(p) /\ proc[p].pc = "last"
    /\ IF rch[proc[p].rch].valid = 1 THEN Recycle(rch, proc[p].rch)
                                     ELSE UNCHANGED <<pools, rch, list, badDel>>
    /\ Now(p, "cleanup", proc[p].op, NoRch, proc[p].kbuf, proc[p].used)
    /\ UNCHANGED <<lastId, pending, mutex, cpu>>
LEMMA CloseLastStep ==
    ASSUME IInv, NEW p \in Paths, Closes(p), env' = env
    PROVE  IInv'
<1> DEFINE r == proc[p].rch
<1>1. /\ Runs(p) /\ proc[p].pc = "last"
      /\ IF rch[r].valid = 1 THEN Recycle(rch, r) ELSE UNCHANGED <<pools, rch, list, badDel>>
      /\ UNCHANGED <<lastId, pending, mutex, cpu>>
  BY DEF Closes
<1>2. Now(p, "cleanup", proc[p].op, NoRch, proc[p].kbuf, proc[p].used)
  BY DEF Closes
<1>3. proc[p].op = "close" /\ proc[p].kbuf = NoMap /\ ~ ReadsAB(p)
  BY <1>1, Here DEF PlaceOK, Bare, Out, ReadsAB
<1>4. UNCHANGED <<pools, rch, list, badDel>>
  <2>1. CASE rch[r].valid # 1
    BY <1>1, <2>1
  <2>2. CASE rch[r].valid = 1
    <3>1. rch[r].path = NoPath /\ r \notin rchRes
      BY <1>1, <1>3, <2>2, Here DEF HoldOK, Out, Answered
    <3>2. rch[r].kbuf = NoMap
      BY <1>1, <1>3, Here DEF HoldOK, Out
    <3>3. NoMap \notin mapRes
      BY Sizes DEF IInv, Typed, CoreOK
    <3> QED BY <1>1, <2>2, <3>1, <3>2, <3>3 DEF Recycle, PoolFree, pools
  <2> QED BY <2>1, <2>2
<1>5. Still(p) /\ mutex' = mutex /\ cpu' = cpu
  BY <1>1, <1>2, <1>4 DEF Still, Stays, Now
<1>6. PlaceOK(p)'
  BY <1>1, <1>2, <1>3, <1>5, Here DEF Now, PlaceOK, Idle, Out, Raw
<1>7. Places'
  BY <1>1, <1>5, <1>6, OtherPlaces DEF Still, Stays, MayRun
<1>9. /\ proc'[p].pc \notin Raw /\ proc'[p].pc # "build" /\ proc'[p].pc # "send"
      /\ proc'[p].pc \notin Claims
  BY <1>2 DEF Now, Raw, Claims
<1>8. Turns'
  BY <1>1, <1>5, <1>9, TurnsKept DEF Still, Stays
<1>10. HoldOK(p)'
  BY <1>2, <1>9 DEF HoldOK, Now, Out, Raw
<1>11. Holds' /\ Mappings' /\ Sent'
  BY <1>1, <1>5, <1>9, <1>10, StillHolds, StaysMappings, StillSent DEF Still
<1>12. Requests'
  <2>1. "close_signal" \notin env => pending = <<>>
    BY <1>1, <1>3 DEF IInv, Requests, Closing
  <2> QED BY <1>2, <1>5, <2>1, StillRequests DEF Now
<1>13. Handlers'
  <2>1. \A s \in Listed : rch[s].handler = "read" => rch[s].path # p
    BY <1>3 DEF IInv, Handlers
  <2>2. proc'[p].pc = "cleanup"
    BY <1>2 DEF Now
  <2> QED BY <1>1, <1>5, <2>1, <2>2, StaysHandlers DEF Still
<1>14. Typed' /\ Regular(env)'
  BY <1>1, <1>2, <1>4 DEF Now, IInv, Typed, CoreOK, ProcRecord, Regular, pools
<1> QED BY <1>7, <1>8, <1>11, <1>12, <1>13, <1>14 DEF IInv

-----------------------------------------------------------------------------
\* Handler r is given back, with its mapping.
Frees(r) ==
    /\ rch' \in [Rchs -> RchRecord] /\ \A s \in Rchs : s # r => rch'[s] = rch[s]
    /\ rch'[r].path = NoPath /\ rch'[r].kbuf = rch[r].kbuf /\ rch'[r].pool = rch[r].pool
    /\ rch'[r].id = rch[r].id /\ rch'[r].valid \in {rch[r].valid, 1}
    /\ list' \in Seq(Rchs) /\ Once(list') /\ Listed' = Listed \ {r}
    /\ rchRes' = rchRes \ {r} /\ rchCur' = rchCur /\ mapCur' = mapCur
    /\ mapRes' \subseteq mapRes
    /\ \A m \in mapRes : m \in mapRes' <=> ~ (rch[r].pool = TRUE /\ rch[r].kbuf = m)
    /\ badDel' \in BOOLEAN /\ (r \in Listed => badDel' = badDel)
    /\ rch[r].path = NoPath /\ "close_signal" \notin env => badDel' = badDel

\* The assignments of i2o_recycleRch to the handler.
LEMMA Detached ==
    ASSUME NEW h \in [Rchs -> RchRecord], NEW r \in Rchs,
           rch' = [h EXCEPT ![r].path = NoPath, ![r].handler = "none"]
    PROVE  /\ rch'[r].path = NoPath /\ rch'[r].id = h[r].id
           /\ rch'[r].valid = h[r].valid /\ rch'[r].kbuf = h[r].kbuf /\ rch'[r].pool = h[r].pool
           /\ \A s \in Rchs : s # r => rch'[s] = h[s]
           /\ rch' \in [Rchs -> RchRecord]
<1> DEFINE n == [[h[r] EXCEPT !.path = NoPath] EXCEPT !.handler = "none"]
<1>1. h[r] \in RchRecord /\ DOMAIN h = Rchs
  OBVIOUS
<1>2. /\ n \in RchRecord /\ n.path = NoPath /\ n.id = h[r].id /\ n.valid = h[r].valid
      /\ n.kbuf = h[r].kbuf /\ n.pool = h[r].pool
  BY <1>1 DEF RchRecord
<1>3. rch' = [h EXCEPT ![r] = n]
  <2>1. rch' = [[h EXCEPT ![r].path = NoPath] EXCEPT ![r].handler = "none"]
    OBVIOUS
  <2>2. [h EXCEPT ![r].path = NoPath][r] = [h[r] EXCEPT !.path = NoPath]
    BY <1>1
  <2> QED BY <1>1, <2>1, <2>2
<1> HIDE DEF n
<1>4. rch'[r] = n /\ \A s \in Rchs : s # r => rch'[s] = h[s]
  BY <1>1, <1>3
<1>5. rch' \in [Rchs -> RchRecord]
  BY <1>2, <1>3
<1> QED BY <1>2, <1>4, <1>5

\* i2o_recycleRch gives the handler and its mapping back, whatever its state.
LEMMA RecycleFrees ==
    ASSUME IInv, NEW r \in Rchs, NEW h \in [Rchs -> RchRecord], \A s \in Rchs : s # r => h[s] = rch[s],
           h[r].path = rch[r].path, h[r].kbuf = rch[r].kbuf, h[r].pool = rch[r].pool,
           h[r].id = rch[r].id, h[r].valid \in {rch[r].valid, 1}, Recycle(h, r)
    PROVE  Frees(r) /\ rch'[r].valid = h[r].valid
<1>1. /\ CoreOK /\ Once(list) /\ list \in Seq(Rchs) /\ Listed = Elems(list) /\ Listed' = Elems(list')
      /\ badDel \in BOOLEAN /\ rch[r].pool \in BOOLEAN
      /\ r \in Listed => rch[r].path # NoPath
  <2>1. CoreOK /\ Handlers
    BY DEF IInv, Typed
  <2>2. Listed' = Elems(list')
    BY DEF Listed, Elems
  <2>3. badDel \in BOOLEAN
    BY <2>1 DEF CoreOK
  <2> QED BY <2>1, <2>2, <2>3, Types DEF Handlers
<1>2. /\ rchRes' = rchRes \ {r} /\ rchCur' = rchCur /\ mapCur' = mapCur
      /\ mapRes' = IF h[r].pool THEN mapRes \ {h[r].kbuf} ELSE mapRes
  BY DEF Recycle, PoolFree
<1>3. mapRes' \subseteq mapRes /\ \A m \in mapRes : m \in mapRes' <=> ~ (rch[r].pool = TRUE /\ rch[r].kbuf = m)
  BY <1>1, <1>2
<1>4. CASE h[r].path = NoPath
  <2>1. rch' = h /\ list' = list /\ badDel' = badDel
    BY <1>4 DEF Recycle
  <2>2. r \notin Listed /\ Listed' = Listed
    BY <1>1, <1>4, <2>1
  <2> QED BY <1>1, <1>2, <1>3, <1>4, <2>1, <2>2 DEF Frees
<1>5. CASE h[r].path # NoPath
  <2>1. /\ list' = ListDel(list, r) /\ badDel' = (badDel \/ r \notin Listed)
        /\ rch' = [h EXCEPT ![r].path = NoPath, ![r].handler = "none"]
    BY <1>5 DEF Recycle, rchRemove
  <2>2. list' \in Seq(Rchs) /\ Once(list') /\ Listed' = Listed \ {r}
    BY <1>1, <2>1, ListDelFacts
  <2>3. badDel' \in BOOLEAN /\ (r \in Listed => badDel' = badDel)
    <3>1. CASE badDel = TRUE
      BY <2>1, <3>1, Zenon
    <3>2. CASE badDel = FALSE /\ r \in Listed
      BY <2>1, <3>2, Zenon
    <3>3. CASE badDel = FALSE /\ r \notin Listed
      BY <2>1, <3>3, Zenon
    <3> QED BY <1>1, <3>1, <3>2, <3>3
  <2>4. /\ rch'[r].path = NoPath /\ rch'[r].id = h[r].id /\ rch'[r].valid = h[r].valid
        /\ rch'[r].kbuf = h[r].kbuf /\ rch'[r].pool = h[r].pool
        /\ \A s \in Rchs : s # r => rch'[s] = h[s]
        /\ rch' \in [Rchs -> RchRecord]
    BY <2>1, Detached
  <2> QED BY <1>1, <1>2, <1>3, <1>5, <2>2, <2>3, <2>4 DEF Frees
<1> QED BY <1>4, <1>5

\* What the processes do when r is given back: those that do not hold it
\* nothing, one that closes waits with its answer, one that holds it returns.
Apart(p, r) == proc'[p] = proc[p] /\ proc[p].rch # r
WaitsClosed(p, r) ==
    proc'[p] = proc[p] /\ proc[p].rch = r /\ Closing(p) /\ rch'[r].valid = 1
Returns(p, r) ==
    /\ proc[p].rch = r /\ proc[p].pc \notin Idle /\ proc[p].op # "close"
    /\ proc'[p].pc = "open" /\ proc'[p].rch = NoRch /\ proc'[p].kbuf = NoMap
    /\ proc'[p].op = proc[p].op /\ proc'[p].used = proc[p].used

\* A step that gives r back.
FreeStep(r) ==
    /\ Frees(r) /\ \A p \in Paths : Apart(p, r) \/ WaitsClosed(p, r) \/ Returns(p, r)
    /\ proc' \in [Paths -> ProcRecord] /\ UNCHANGED <<lastId, mutex, cpu, env>>

\* Giving a handler back keeps the places of the processes ...
LEMMA FreePlaces ==
    ASSUME IInv, NEW r \in Rchs, FreeStep(r)
    PROVE  Places' /\ Turns'
<1>1. rchRes' \subseteq rchRes /\ mapRes' \subseteq mapRes /\ env' = env /\ cpu' = cpu /\ mutex' = mutex
  BY DEF FreeStep, Frees
<1>2. ASSUME NEW p \in Paths PROVE PlaceOK(p)'
  <2>1. PlaceOK(p)
    BY Here
  <2>2. CASE proc'[p] = proc[p]
    <3>1. Bare(p)' <=> Bare(p)
      BY <1>1, <2>2 DEF Bare, ReadsAB, Exclusive
    <3> QED BY <1>1, <2>1, <2>2, <3>1 DEF PlaceOK
  <2>3. CASE Returns(p, r)
    BY <1>1, <2>1, <2>3 DEF Returns, PlaceOK, Idle, Out, Raw
  <2> QED BY <2>2, <2>3 DEF FreeStep, Apart, WaitsClosed
<1>3. Turns'
  <2>1. Exclusive' = Exclusive /\ Exclusive \subseteq Paths /\ Turns
    BY <1>1 DEF Exclusive, IInv
  <2>2. ASSUME NEW o \in Paths, proc'[o].pc \in Claims PROVE proc'[o] = proc[o]
    BY <2>2 DEF FreeStep, Apart, WaitsClosed, Returns, Claims
  <2>3. ASSUME NEW o \in Paths, proc'[o].pc # "closed" PROVE proc[o].pc # "closed"
    BY <2>3 DEF FreeStep, Apart, WaitsClosed, Returns, Idle
  <2> QED BY <1>1, <2>1, <2>2, <2>3 DEF Turns
<1> QED BY <1>2, <1>3 DEF Places

\* ... what they hold, as nobody else holds r ...
LEMMA FreeHolds ==
    ASSUME IInv, NEW r \in Rchs, FreeStep(r),
           \A k \in DOMAIN pending' : \E j \in DOMAIN pending : pending'[k] = pending[j]
    PROVE  Holds'
<1> SUFFICES ASSUME NEW o \in Paths PROVE HoldOK(o)'
  BY DEF Holds
<1>1. /\ HoldOK(o) /\ PlaceOK(o) /\ proc[o].rch \in Rchs \cup {NoRch}
      /\ proc[o].pc \notin Idle => proc[o].rch \in Rchs
  BY Here
<1>2. /\ \A s \in Rchs : s # r => rch'[s] = rch[s]
      /\ rch'[r].path = NoPath /\ rch'[r].kbuf = rch[r].kbuf /\ rch'[r].pool = rch[r].pool
      /\ Listed' = Listed \ {r} /\ rchRes' = rchRes \ {r} /\ env' = env /\ lastId' = lastId
  BY DEF FreeStep, Frees
<1>3. \A q \in Paths : proc'[q].pc \in Raw => proc'[q] = proc[q]
  BY DEF FreeStep, Apart, WaitsClosed, Returns, Raw
<1>4. CASE Apart(o, r)
  <2>1. proc'[o] = proc[o] /\ proc[o].rch # r
    BY <1>4 DEF Apart
  <2>2. CASE proc[o].pc \in Idle
    BY <2>1, <2>2 DEF HoldOK, Idle, Out, Raw
  <2>3. CASE proc[o].pc \notin Idle
    <3>1. /\ rch'[proc[o].rch] = rch[proc[o].rch]
          /\ proc[o].rch \in Listed' <=> proc[o].rch \in Listed
          /\ proc[o].rch \in rchRes' <=> proc[o].rch \in rchRes
      BY <1>1, <1>2, <2>1, <2>3
    <3>2. (Answered(o)' <=> Answered(o)) /\ (ReadsAB(o)' <=> ReadsAB(o))
      BY <1>2, <2>1, <3>1 DEF Answered, ReadsAB, Exclusive
    <3>3. proc'[o].pc \in Raw => \A q \in Paths \ {o} : proc'[q].pc \in Raw => proc'[q].rch # proc'[o].rch
      BY <1>1, <1>3, <2>1 DEF HoldOK
    <3>4. proc[o].pc = "send" => \A k \in DOMAIN pending' : pending'[k].id # rch[proc[o].rch].id
      BY <1>1 DEF HoldOK
    <3> HIDE DEF Answered
    <3>5. CASE proc[o].pc \in Raw
      BY <1>1, <2>1, <3>1, <3>3, <3>5 DEF HoldOK, Raw, Out
    <3>6. CASE proc[o].pc \notin Raw
      BY <1>1, <1>2, <2>1, <3>1, <3>2, <3>4, <3>6 DEF HoldOK
    <3> QED BY <3>5, <3>6
  <2> QED BY <2>2, <2>3
<1>5. CASE WaitsClosed(o, r)
  <2>1. /\ proc'[o] = proc[o] /\ proc[o].rch = r /\ proc[o].pc \in {"wait", "last"}
        /\ proc[o].op = "close" /\ rch'[r].valid = 1
    BY <1>5 DEF WaitsClosed, Closing
  <2>2. Answered(o)' /\ ~ ReadsAB(o)' /\ ~ ReadsAB(o)
    BY <2>1 DEF Answered, ReadsAB
  <2>3. rch[r].kbuf = proc[o].kbuf /\ rch[r].pool = TRUE
    BY <1>1, <2>1, <2>2 DEF HoldOK, Out
  <2>4. r \notin rchRes'
    BY <1>2
  <2> QED BY <1>2, <2>1, <2>2, <2>3, <2>4 DEF HoldOK, Raw, Out
<1>6. CASE Returns(o, r)
  BY <1>6 DEF Returns, HoldOK, Raw, Out
<1> QED BY <1>4, <1>5, <1>6 DEF FreeStep

\* ... the list ...
LEMMA FreeHandlers ==
    ASSUME IInv, NEW r \in Rchs, FreeStep(r),
           r \in Listed \/ rch[r].path = NoPath \/ "error_reply" \in env
    PROVE  Handlers'
<1>1. /\ \A s \in Rchs : s # r => rch'[s] = rch[s]
      /\ rch'[r].path = NoPath /\ rch'[r].kbuf = rch[r].kbuf /\ rch'[r].pool = rch[r].pool
      /\ Listed' = Listed \ {r} /\ rchRes' = rchRes \ {r} /\ env' = env /\ Once(list')
      /\ rch'[r].valid \in {rch[r].valid, 1}
      /\ r \in Listed => badDel' = badDel
      /\ rch[r].path = NoPath /\ "close_signal" \notin env => badDel' = badDel
  BY DEF FreeStep, Frees
<1>2. /\ Handlers /\ Listed \subseteq Rchs
      /\ \A s \in Rchs : rch[s].path \in Paths \cup {NoPath}
  BY Types DEF IInv, Typed
<1>3. \A q \in Paths : proc'[q].pc = "closed" => proc[q].pc = "closed"
  BY DEF FreeStep, Apart, WaitsClosed, Returns
<1>4. \A q \in Paths : proc[q].rch # r => proc'[q] = proc[q]
  BY DEF FreeStep, Apart, WaitsClosed, Returns
<1>5. ASSUME NEW s \in Rchs, rch'[s].path # NoPath
      PROVE  /\ s \in rchRes' /\ proc'[rch'[s].path].pc # "closed"
             /\ s \in Listed' \/ (proc'[rch'[s].path].pc = "error" /\ proc'[rch'[s].path].rch = s)
  <2>1. s # r /\ rch'[s] = rch[s] /\ rch[s].path \in Paths
    BY <1>1, <1>2, <1>5
  <2>2. s \in rchRes /\ proc[rch[s].path].pc # "closed"
    BY <1>2, <1>5, <2>1 DEF Handlers
  <2>3. s \in Listed \/ (proc[rch[s].path].pc = "error" /\ proc[rch[s].path].rch = s)
    BY <1>2, <1>5, <2>1 DEF Handlers
  <2> QED BY <1>1, <1>3, <1>4, <2>1, <2>2, <2>3
<1>6. ASSUME NEW s \in Listed', rch'[s].handler = "read"
      PROVE  /\ proc'[rch'[s].path].rch = s
             /\ proc'[rch'[s].path].pc \in Out /\ proc'[rch'[s].path].op = "read"
  <2>1. s # r /\ s \in Listed /\ s \in Rchs /\ rch'[s] = rch[s]
    BY <1>1, <1>2, <1>6
  <2>2. rch[s].path \in Paths
    BY <1>2, <2>1 DEF Handlers
  <2> QED BY <1>2, <1>4, <1>6, <2>1, <2>2 DEF Handlers
<1>7. /\ \A s \in Listed' : rch'[s].path # NoPath /\ (rch'[s].valid # 0 => rch'[s].handler = "read")
      /\ \A s \in Rchs : rch'[s].kbuf \in Maps => rch'[s].pool = TRUE
      /\ \A s \in Rchs : rch'[s].valid = -1 => "error_reply" \in env
      /\ "error_reply" \notin env /\ "close_signal" \notin env => badDel' = FALSE
  BY <1>1, <1>2 DEF Handlers
<1> QED BY <1>1, <1>5, <1>6, <1>7 DEF Handlers

\* The mapping of r has no user.
Spent(r) ==
    \A m \in Maps : rch[r].kbuf = m =>
        /\ \A s \in Rchs : ~ Used(s, m)
        /\ \A q \in Paths : proc[q].pc = "build" => proc[q].kbuf # m

\* ... and the mappings, of which r's has no other user.
LEMMA FreeMappings ==
    ASSUME IInv, NEW r \in Rchs, FreeStep(r),
           rch[r].path # NoPath \/ "alloc_timeout" \in env \/ Spent(r)
    PROVE  Mappings'
<1> SUFFICES ASSUME "alloc_timeout" \notin env PROVE Mappings'
  BY DEF Mappings, FreeStep
<1>1. /\ \A s \in Rchs : s # r => rch'[s] = rch[s]
      /\ rch'[r].path = NoPath /\ env' = env
      /\ \A m \in mapRes : m \notin mapRes' => rch[r].kbuf = m
  BY DEF FreeStep, Frees
<1>2. Mappings
  BY DEF IInv
<1>3. \A s \in Rchs, m \in Maps : Used(s, m)' => s # r /\ Used(s, m)
  BY <1>1 DEF Used
<1>4. \A m \in mapRes : m \notin mapRes' => Used(r, m) \/ (Spent(r) /\ rch[r].kbuf = m)
  BY <1>1 DEF Used
<1>5. \A q \in Paths : proc'[q].pc = "build" => proc'[q] = proc[q]
  BY DEF FreeStep, Apart, WaitsClosed, Returns
<1>6. \A s \in Rchs, m \in Maps : Used(s, m)' => m \in mapRes'
  BY <1>2, <1>3, <1>4 DEF Mappings, Spent
<1>7. \A s, t \in Rchs, m \in Maps : Used(s, m)' /\ Used(t, m)' => s = t
  BY <1>2, <1>3 DEF Mappings
<1>8. ASSUME NEW p \in Paths, NEW m \in Maps, proc'[p].pc = "build", proc'[p].kbuf = m
      PROVE  /\ m \in mapRes'
             /\ \A s \in Rchs : ~ Used(s, m)'
             /\ \A o \in Paths \ {p} : proc'[o].pc = "build" => proc'[o].kbuf # m
  BY <1>2, <1>3, <1>4, <1>5, <1>8 DEF Mappings, Spent
<1> QED BY <1>6, <1>7, <1>8 DEF Mappings

\* A handler without a request at the card is given back.
LEMMA FreeRequests ==
    ASSUME IInv, NEW r \in Rchs, FreeStep(r), pending' = pending,
           \A p \in Paths : ~ WaitsClosed(p, r),
           "close_signal" \notin env => \A k \in DOMAIN pending : pending[k].rch # r
    PROVE  Requests' /\ Sent'
<1>1. /\ \A s \in Rchs : s # r => rch'[s] = rch[s]
      /\ Listed' = Listed \ {r} /\ env' = env /\ lastId' = lastId
  BY DEF FreeStep, Frees
<1>2. /\ Requests /\ Sent /\ Handlers /\ Listed \subseteq Rchs
      /\ \A s \in Rchs : rch[s].path \in Paths \cup {NoPath}
      /\ \A k \in DOMAIN pending : pending[k].path \in Paths /\ pending[k].rch \in Rchs
      /\ \A p \in Paths : proc[p].pc \notin Idle => proc[p].rch \in Rchs
  BY Types, Here DEF IInv, Typed
<1>3. \A p \in Paths : Apart(p, r) \/ Returns(p, r)
  BY DEF FreeStep
<1>4. ASSUME "close_signal" \notin env PROVE Requests'
  <2>1. ASSUME NEW k \in DOMAIN pending PROVE AtCard(pending[k])'
    <3>1. AtCard(pending[k]) /\ pending[k].rch # r /\ pending[k].rch \in Rchs /\ pending[k].path \in Paths
      BY <1>2, <1>4, <2>1 DEF Requests
    <3>2. proc'[pending[k].path].used = proc[pending[k].path].used
      BY <1>3, <3>1 DEF Apart, Returns
    <3> QED BY <1>1, <3>1, <3>2 DEF AtCard
  <2>2. \A o \in Paths : Closing(o)' => Closing(o) /\ proc'[o] = proc[o] /\ proc[o].rch # r
    BY <1>3 DEF Apart, Returns, Closing
  <2>3. \A o \in Paths : Closing(o)' => rch'[proc[o].rch] = rch[proc[o].rch]
    BY <1>1, <1>2, <2>2 DEF Closing, Idle
  <2>4. \A o \in Paths : Closing(o)' => (Answered(o)' <=> Answered(o))
    BY <2>2, <2>3 DEF Answered
  <2>6. \A o \in Paths : proc'[o].pc = "last" => Answered(o)'
    <3> SUFFICES ASSUME NEW o \in Paths, proc'[o].pc = "last" PROVE Answered(o)'
      OBVIOUS
    <3>1. proc'[o] = proc[o] /\ proc[o].rch # r
      BY <1>3 DEF Apart, Returns
    <3>2. Answered(o)
      BY <1>2, <1>4, <3>1 DEF Requests
    <3>3. rch'[proc[o].rch] = rch[proc[o].rch]
      BY <1>1, <1>2, <3>1 DEF Idle
    <3> QED BY <3>1, <3>2, <3>3 DEF Answered
  <2>7. \A o \in Paths : proc'[o].pc = "cleanup" => pending = <<>>
    BY <1>2, <1>3, <1>4 DEF Requests, Apart, Returns
  <2>8. \A o \in Paths : Closing(o)' /\ Answered(o)' => pending = <<>>
    BY <1>2, <1>4, <2>2, <2>4 DEF Requests
  <2>9. \A o \in Paths : Closing(o)' /\ ~ Answered(o)' =>
            \A k \in DOMAIN pending : pending[k].id = rch'[proc'[o].rch].id =>
                 pending[k].rch = proc'[o].rch /\ k = Len(pending)
    BY <1>2, <1>4, <2>2, <2>3, <2>4 DEF Requests
  <2>10. "late" \in env => \A k \in DOMAIN pending : Gap(pending[k].id)' = Len(pending) - k
    BY <1>1, <1>2, <1>4 DEF Requests, Gap
  <2> QED BY <1>1, <1>2, <1>4, <2>1, <2>6, <2>7, <2>8, <2>9, <2>10 DEF Requests
<1>5. ASSUME AllSent PROVE Sent'
  <2>1. \A s \in Listed' : s \in Listed /\ s # r /\ s \in Rchs /\ rch'[s] = rch[s] /\ rch[s].path \in Paths
    BY <1>1, <1>2 DEF Handlers
  <2>2. \A o \in Paths : proc[o].rch # r => proc'[o] = proc[o]
    BY <1>3 DEF Apart, Returns
  <2>3. ASSUME NEW s \in Listed'
        PROVE  \/ \E k \in DOMAIN pending : pending[k].rch = s
               \/ rch'[s].valid # 0
               \/ proc'[rch'[s].path].pc = "send" /\ proc'[rch'[s].path].rch = s
    BY <1>2, <1>5, <2>1, <2>2, <2>3 DEF Sent
  <2>4. ASSUME NEW o \in Paths, proc'[o].pc = "send", NEW s \in Listed', rch'[s].valid # 0
        PROVE  rch'[s].id # rch'[proc'[o].rch].id
    <3>1. proc'[o] = proc[o] /\ proc[o].rch # r
      BY <1>3, <2>4 DEF Apart, Returns
    <3>2. rch'[proc[o].rch] = rch[proc[o].rch]
      BY <1>1, <1>2, <2>4, <3>1 DEF Idle
    <3> QED BY <1>2, <1>5, <2>1, <2>4, <3>1, <3>2 DEF Sent
  <2>5. \A k \in DOMAIN pending, s \in Listed' : rch'[s].id = pending[k].id => s = pending[k].rch
    BY <1>2, <1>5, <2>1 DEF Sent
  <2> QED BY <1>1, <2>3, <2>4, <2>5 DEF Sent
<1> QED BY <1>1, <1>4, <1>5 DEF Requests, Sent, AllSent

\* ... and so the invariant holds on.
LEMMA FreeKeeps ==
    ASSUME IInv, NEW r \in Rchs, FreeStep(r), pending' = pending,
           \A p \in Paths : ~ WaitsClosed(p, r),
           "close_signal" \notin env => \A k \in DOMAIN pending : pending[k].rch # r,
           r \in Listed \/ rch[r].path = NoPath \/ "error_reply" \in env,
           rch[r].path # NoPath \/ "alloc_timeout" \in env \/ Spent(r)
    PROVE  IInv'
<1>1. Places' /\ Turns' /\ Holds' /\ Handlers' /\ Mappings'
  BY FreePlaces, FreeHolds, FreeHandlers, FreeMappings
<1>2. Requests' /\ Sent'
  BY FreeRequests
<1>3. Typed' /\ Regular(env)'
  BY DEF FreeStep, Frees, IInv, Typed, CoreOK, Regular, ProcRecord, RchRecord
<1> QED BY <1>1, <1>2, <1>3 DEF IInv

\* Only one process holds a handler that is on the list or being prepared.
LEMMA SoleHolder ==
    ASSUME IInv, NEW p \in Paths, NEW o \in Paths, o # p,
           proc[p].pc \notin Idle \cup {"rchClaim"}, proc[p].op # "close"
    PROVE  proc[o].rch # proc[p].rch
<1> SUFFICES ASSUME proc[o].rch = proc[p].rch PROVE FALSE
  OBVIOUS
<1>1. /\ HoldOK(p) /\ HoldOK(o) /\ PlaceOK(p) /\ PlaceOK(o) /\ proc[p].rch \in Rchs
      /\ proc[o].pc \in PC /\ proc[p].pc \in PC
  BY Here
<1>2. proc[p].pc \in Raw \cup Out \cup {"error"}
  BY <1>1 DEF PC, Idle, Raw, Out
<1>3. proc[p].rch \in rchRes
  <2>1. CASE proc[p].pc \in Raw
    BY <1>1, <2>1 DEF HoldOK
  <2>2. CASE proc[p].pc \in Out \cup {"error"}
    <3>1. rch[proc[p].rch].path = p
      BY <1>1, <2>2 DEF HoldOK, Answered
    <3> QED BY <1>1, <3>1, Sizes DEF IInv, Handlers
  <2> QED BY <1>2, <2>1, <2>2
<1>4. proc[o].pc \in Raw \cup Out \cup {"error"}
  <2>1. proc[o].rch # NoRch
    BY <1>1, Sizes
  <2>2. proc[o].pc # "rchClaim"
    BY <1>1, <1>3 DEF PlaceOK
  <2> QED BY <1>1, <2>1, <2>2 DEF PlaceOK, PC, Idle, Raw, Out
<1>5. ~ Answered(o) \/ proc[o].pc \notin Out
  BY <1>1, <1>3 DEF HoldOK
<1>6. \/ proc[p].pc \in Raw /\ rch[proc[p].rch].path = NoPath
      \/ proc[p].pc \notin Raw /\ rch[proc[p].rch].path = p
  BY <1>1, <1>2 DEF HoldOK, Answered, Raw, Out
<1>7. \/ proc[o].pc \in Raw /\ rch[proc[o].rch].path = NoPath
      \/ proc[o].pc \notin Raw /\ rch[proc[o].rch].path = o
  BY <1>1, <1>4, <1>5 DEF HoldOK, Raw, Out
<1>8. ~ (proc[p].pc \in Raw /\ proc[o].pc \in Raw)
  BY <1>1 DEF HoldOK
<1> QED BY <1>6, <1>7, <1>8, Sizes

\* A process returns and gives its handler back: i2o_recycleRch without a
\* mapping, or at the end of a read.
Ends(p) ==
    /\ proc[p].pc \in {"noMap", "copy", "error"} /\ Recycle(rch, proc[p].rch)
    /\ Now(p, "open", proc[p].op, NoRch, NoMap, proc[p].used)
    /\ UNCHANGED <<lastId, pending, mutex, cpu>>
LEMMA ReturnFrees ==
    ASSUME IInv, NEW p \in Paths, Ends(p), env' = env
    PROVE  /\ proc[p].rch \in Rchs /\ proc[p].pc \in {"noMap", "copy", "error"}
           /\ FreeStep(proc[p].rch) /\ pending' = pending
           /\ \A o \in Paths : ~ WaitsClosed(o, proc[p].rch)
           /\ \A o \in Paths : Returns(o, proc[p].rch) => o = p
<1> DEFINE r == proc[p].rch
<1>1. /\ proc[p].pc \in {"noMap", "copy", "error"} /\ Recycle(rch, r)
      /\ UNCHANGED <<lastId, pending, mutex, cpu>>
  BY DEF Ends
<1>2. /\ r \in Rchs /\ PlaceOK(p) /\ proc[p].pc \notin Idle \cup {"rchClaim"}
      /\ proc[p].op # "close" /\ rch \in [Rchs -> RchRecord] /\ proc \in [Paths -> ProcRecord]
  <2>1. proc[p].pc \notin Idle \cup {"rchClaim"}
    BY <1>1 DEF Idle
  <2>2. PlaceOK(p) /\ r \in Rchs /\ proc \in [Paths -> ProcRecord]
    BY <2>1, Here
  <2>3. proc[p].op # "close"
    BY <1>1, <2>2 DEF PlaceOK, Raw, Bare
  <2>4. rch \in [Rchs -> RchRecord]
    BY Types DEF IInv, Typed
  <2> QED BY <2>1, <2>2, <2>3, <2>4
<1>3. Now(p, "open", proc[p].op, NoRch, NoMap, proc[p].used)
  BY DEF Ends
<1>4. Frees(r)
  BY <1>1, <1>2, RecycleFrees
<1>5. Returns(p, r)
  BY <1>2, <1>3 DEF Returns, Now
<1>6. \A o \in Paths : o # p => Apart(o, r)
  BY <1>2, <1>3, SoleHolder DEF Apart, Now, Same
<1> HIDE DEF r
<1>7. FreeStep(r)
  BY <1>1, <1>3, <1>4, <1>5, <1>6 DEF FreeStep, Now
<1>8. \A o \in Paths : ~ WaitsClosed(o, r)
  BY <1>2, <1>6 DEF WaitsClosed, Apart, Closing
<1>9. \A o \in Paths : Returns(o, r) => o = p
  BY <1>6 DEF Returns, Apart
<1> QED BY <1>1, <1>2, <1>7, <1>8, <1>9 DEF r

\* The end of a read, and of a call that got no mapping.
LEMMA ReturnStep ==
    ASSUME IInv, NEW p \in Paths, Ends(p), env' = env
    PROVE  IInv'
<1> DEFINE r == proc[p].rch
<1>1. /\ r \in Rchs /\ proc[p].pc \in {"noMap", "copy", "error"} /\ FreeStep(r)
      /\ pending' = pending /\ (\A o \in Paths : ~ WaitsClosed(o, r)) /\ PlaceOK(p) /\ HoldOK(p)
  BY ReturnFrees, Here
<1>2. proc[p].op # "close"
  BY <1>1 DEF PlaceOK, Raw, Bare
<1> HIDE DEF r
<1>3. CASE proc[p].pc = "noMap"
  <2>1. rch[r].path = NoPath /\ "alloc_timeout" \in env
    BY <1>1, <1>3 DEF HoldOK, PlaceOK, Raw, r
  <2>2. "close_signal" \notin env => \A k \in DOMAIN pending : pending[k].rch # r
    <3> SUFFICES ASSUME "close_signal" \notin env, NEW k \in DOMAIN pending, pending[k].rch = r
                 PROVE  FALSE
      OBVIOUS
    <3>1. AtCard(pending[k]) /\ pending[k].path \in Paths
      BY Types DEF IInv, Requests, Typed
    <3> QED BY <2>1, <3>1, Sizes DEF AtCard
  <2> QED BY <1>1, <2>1, <2>2, FreeKeeps
<1>4. CASE proc[p].pc = "copy"
  <2>1. r \in Listed /\ rch[r].path = p /\ rch[r].valid # 0
    BY <1>1, <1>2, <1>4 DEF HoldOK, Out, Answered, r
  <2>2. "close_signal" \notin env => \A k \in DOMAIN pending : pending[k].rch # r
    BY <2>1 DEF IInv, Requests, AtCard
  <2> QED BY <1>1, <2>1, <2>2, FreeKeeps, Sizes
<1>5. CASE proc[p].pc = "error"
  <2>1. r \notin Listed /\ rch[r].path = p /\ "error_reply" \in env
    BY <1>1, <1>5 DEF HoldOK, PlaceOK, r
  <2>2. "close_signal" \notin env => \A k \in DOMAIN pending : pending[k].rch # r
    BY <2>1 DEF IInv, Requests, AtCard
  <2> QED BY <1>1, <2>1, <2>2, FreeKeeps, Sizes
<1> QED BY <1>1, <1>3, <1>4, <1>5

\* A round of _cleanup_on_bridge_release recycles r: a handler of the path that is
\* on the list, or one that the tasklet has recycled since the test of its path.
Cleans(p, r) ==
    /\ proc[p].pc = "cleanup" /\ Frees(r) /\ proc' \in [Paths -> ProcRecord]
    /\ \A o \in Paths : proc'[o] = proc[o]
    /\ UNCHANGED <<lastId, pending, mutex, cpu>>

\* It gives back a handler that nobody else holds.
LEMMA CleanupFrees ==
    ASSUME IInv, NEW p \in Paths, NEW r \in Rchs, Cleans(p, r), env' = env
    PROVE  FreeStep(r) /\ \A o \in Paths : Apart(o, r)
<1>1. ASSUME NEW o \in Paths PROVE proc[o].rch # r
  <2>1. CASE o = p
    BY <2>1, Here, Sizes DEF Cleans, PlaceOK, Idle
  <2>2. CASE o # p
    <3>1. proc[o].pc = "closed"
      BY <2>2, Here, CloseAlone DEF Cleans, PlaceOK
    <3> QED BY <3>1, Here, Sizes DEF PlaceOK, Idle
  <2> QED BY <2>1, <2>2
<1> QED BY <1>1 DEF Cleans, FreeStep, Apart

\* A round of _cleanup_on_bridge_release.
LEMMA CleanupOneStep ==
    ASSUME IInv, NEW p \in Paths, NEW r \in Rchs, Cleans(p, r), env' = env,
           \/ r \in Listed /\ rch[r].path = p
           \/ rch[r].path = NoPath /\ ("alloc_timeout" \notin env => Spent(r))
    PROVE  IInv'
<1>1. FreeStep(r) /\ \A o \in Paths : Apart(o, r)
  BY CleanupFrees
<1>2. proc[p].pc = "cleanup" /\ pending' = pending
  BY DEF Cleans
<1>3. \A o \in Paths : ~ WaitsClosed(o, r)
  BY <1>1, Sizes DEF Apart, WaitsClosed
<1>4. "close_signal" \notin env => \A j \in DOMAIN pending : pending[j].rch # r
  <2> SUFFICES ASSUME "close_signal" \notin env PROVE DOMAIN pending = {}
    OBVIOUS
  <2>1. pending = <<>>
    BY <1>2 DEF IInv, Requests
  <2> QED BY <2>1
<1> QED BY <1>1, <1>2, <1>3, <1>4, FreeKeeps, Sizes

\* rchRemoveIfNotValid: a handler that waits on loses its handler function ...
Disarms(p, r) ==
    /\ rch' \in [Rchs -> RchRecord] /\ \A s \in Rchs : s # r => rch'[s] = rch[s]
    /\ rch'[r].path = rch[r].path /\ rch'[r].kbuf = rch[r].kbuf /\ rch'[r].pool = rch[r].pool
    /\ rch'[r].id = rch[r].id /\ rch'[r].valid = rch[r].valid /\ rch'[r].handler = "none"
    /\ UNCHANGED <<pools, lastId, pending, mutex, cpu, env, badDel>> /\ Same(p)

\* The assignment of rchRemoveIfNotValid to the handler.
LEMMA Disarmed ==
    ASSUME rch \in [Rchs -> RchRecord], NEW r \in Rchs,
           rch' = [rch EXCEPT ![r].handler = "none"]
    PROVE  /\ rch' \in [Rchs -> RchRecord] /\ \A s \in Rchs : s # r => rch'[s] = rch[s]
           /\ rch'[r].path = rch[r].path /\ rch'[r].kbuf = rch[r].kbuf /\ rch'[r].pool = rch[r].pool
           /\ rch'[r].id = rch[r].id /\ rch'[r].valid = rch[r].valid /\ rch'[r].handler = "none"
BY DEF RchRecord

\* What the step of a reader in rchRemoveIfNotValid keeps, whatever it found:
\* its handler stays on the list (0), or is taken from it (-1).
LEMMA DisarmKeeps ==
    ASSUME IInv, NEW p \in Paths, NEW r \in Rchs, Disarms(p, r), proc[p].pc = "check", proc[p].rch = r,
           list' \in Seq(Rchs), Once(list'), Listed' \subseteq Listed, Listed \subseteq Listed' \cup {r},
           r \in Listed' => rch[r].valid = 0, r \notin Listed' => rch[r].valid # 0,
           Runs(p), proc' \in [Paths -> ProcRecord], proc'[p].used = proc[p].used, PlaceOK(p)',
           HoldOK(p)',
           r \in Listed' => proc'[p].pc = "open",
           r \notin Listed' => proc'[p].pc = "error" /\ proc'[p].rch = r
    PROVE  IInv'
<1>1. /\ \A s \in Rchs : s # r => rch'[s] = rch[s]
      /\ \A s \in Rchs : /\ rch'[s].path = rch[s].path /\ rch'[s].kbuf = rch[s].kbuf
                         /\ rch'[s].pool = rch[s].pool /\ rch'[s].id = rch[s].id
                         /\ rch'[s].valid = rch[s].valid
      /\ \A o \in Paths : o # p => proc'[o] = proc[o]
      /\ env' = env /\ lastId' = lastId /\ pending' = pending /\ badDel' = badDel
      /\ rchRes' = rchRes /\ mapRes' = mapRes /\ mutex' = mutex /\ cpu' = cpu
      /\ rch'[r].handler = "none"
  BY DEF Disarms, Same, pools
<1>2. /\ Handlers /\ Holds /\ Mappings /\ Requests /\ Sent /\ CoreOK
      /\ PlaceOK(p) /\ HoldOK(p)
  BY Here DEF IInv, Typed
<1>3. /\ Listed \subseteq Rchs /\ \A s \in Rchs : rch[s].path \in Paths \cup {NoPath}
      /\ \A k \in DOMAIN pending : pending[k].path \in Paths /\ pending[k].rch \in Rchs
      /\ \A o \in Paths : proc[o].pc \notin Idle => proc[o].rch \in Rchs
  BY <1>2, Types, Here
<1>4. proc[p].op = "read" /\ ~ Answered(p) /\ rch[r].path = p /\ r \in Listed
  BY <1>2 DEF PlaceOK, HoldOK, Answered, Out
<1>5. \A o \in Paths : o # p => proc[o].rch # r
  BY <1>4, SoleHolder DEF Idle
<1>6. /\ proc'[p].pc \in {"open", "error"} /\ proc'[p].pc \notin Claims \cup Raw \cup Out
      /\ proc'[p].pc # "build" /\ proc'[p].pc # "closed"
  BY DEF Claims, Raw, Out
<1>7. Places' /\ Turns'
  BY <1>1, <1>6, OtherPlaces, TurnsKept DEF Same, MayRun
<1>8. Holds'
  <2> SUFFICES ASSUME NEW o \in Paths, o # p PROVE HoldOK(o)'
    BY DEF Holds
  <2>1. HoldOK(o) /\ proc'[o] = proc[o] /\ proc[o].rch # r
    BY <1>1, <1>2, <1>5 DEF Holds
  <2>2. CASE proc[o].pc \in Idle
    BY <2>1, <2>2 DEF HoldOK, Idle, Out, Raw
  <2>3. CASE proc[o].pc \notin Idle
    <3>1. /\ rch'[proc[o].rch] = rch[proc[o].rch]
          /\ proc[o].rch \in Listed' <=> proc[o].rch \in Listed
      BY <1>1, <1>3, <2>1, <2>3
    <3>2. (Answered(o)' <=> Answered(o)) /\ (ReadsAB(o)' <=> ReadsAB(o))
      BY <1>1, <2>1, <3>1 DEF Answered, ReadsAB, Exclusive
    <3>3. proc'[o].pc \in Raw => \A q \in Paths \ {o} : proc'[q].pc \in Raw => proc'[q].rch # proc'[o].rch
      BY <1>1, <1>6, <2>1 DEF HoldOK
    <3>5. CASE proc[o].pc \in Raw
      BY <1>1, <2>1, <3>1, <3>3, <3>5 DEF HoldOK, Raw, Out
    <3>6. CASE proc[o].pc \notin Raw
      BY <1>1, <2>1, <3>1, <3>2, <3>6 DEF HoldOK
    <3> QED BY <3>5, <3>6
  <2> QED BY <2>2, <2>3
<1>9. Handlers'
  <2>1. ASSUME NEW s \in Rchs, rch'[s].path # NoPath
        PROVE  /\ s \in rchRes' /\ proc'[rch'[s].path].pc # "closed"
               /\ s \in Listed' \/ (proc'[rch'[s].path].pc = "error" /\ proc'[rch'[s].path].rch = s)
    <3>1. rch'[s].path = rch[s].path /\ rch[s].path \in Paths
      BY <1>1, <1>3, <2>1
    <3>2. s \in rchRes /\ proc[rch[s].path].pc # "closed"
      BY <1>2, <2>1, <3>1 DEF Handlers
    <3>3. s \in Listed \/ (proc[rch[s].path].pc = "error" /\ proc[rch[s].path].rch = s)
      BY <1>2, <2>1, <3>1 DEF Handlers
    <3>4. CASE s = r
      BY <1>1, <1>4, <1>6, <3>1, <3>2, <3>4
    <3>5. CASE s # r
      BY <1>1, <1>6, <3>1, <3>2, <3>3, <3>5
    <3> QED BY <3>4, <3>5
  <2>2. ASSUME NEW s \in Listed', rch'[s].handler = "read"
        PROVE  /\ proc'[rch'[s].path].rch = s
               /\ proc'[rch'[s].path].pc \in Out /\ proc'[rch'[s].path].op = "read"
    <3>1. s # r /\ s \in Listed /\ s \in Rchs /\ rch'[s] = rch[s]
      BY <1>1, <1>3, <2>2
    <3>2. rch[s].path \in Paths /\ proc[rch[s].path].rch = s
      BY <1>2, <1>3, <2>2, <3>1 DEF Handlers
    <3>3. rch[s].path # p
      BY <3>1, <3>2
    <3> QED BY <1>1, <1>2, <2>2, <3>1, <3>2, <3>3 DEF Handlers
  <2>3. \A s \in Listed' : rch'[s].path # NoPath /\ (rch'[s].valid # 0 => rch'[s].handler = "read")
    BY <1>1, <1>2, <1>3 DEF Handlers
  <2>4. /\ \A s \in Rchs : rch'[s].kbuf \in Maps => rch'[s].pool = TRUE
        /\ \A s \in Rchs : rch'[s].valid = -1 => "error_reply" \in env
        /\ "error_reply" \notin env /\ "close_signal" \notin env => badDel' = FALSE
    BY <1>1, <1>2 DEF Handlers
  <2> QED BY <1>1, <2>1, <2>2, <2>3, <2>4 DEF Handlers
<1>10. Mappings'
  <2>1. \A s \in Rchs, m \in Maps : Used(s, m)' <=> Used(s, m)
    BY <1>1 DEF Used
  <2>2. \A o \in Paths : proc'[o].pc = "build" => proc'[o] = proc[o]
    BY <1>1, <1>6
  <2> QED BY <1>1, <1>2, <2>1, <2>2 DEF Mappings
<1>11. ASSUME "close_signal" \notin env PROVE Requests'
  <2>1. ASSUME NEW k \in DOMAIN pending PROVE AtCard(pending[k])'
    <3>1. AtCard(pending[k])
      BY <1>2, <1>11, <2>1 DEF Requests
    <3>2. pending[k].rch \in Listed' /\ proc'[pending[k].path].used = proc[pending[k].path].used
      BY <1>1, <1>3, <2>1, <3>1 DEF AtCard
    <3> QED BY <1>1, <1>3, <2>1, <3>1, <3>2 DEF AtCard
  <2>2. \A o \in Paths : Closing(o)' \/ proc'[o].pc \in {"last", "cleanup"} =>
            o # p /\ proc'[o] = proc[o]
    BY <1>1, <1>6 DEF Closing
  <2>3. \A o \in Paths : Closing(o)' \/ proc'[o].pc = "last" =>
            (Answered(o)' <=> Answered(o)) /\ rch'[proc[o].rch].id = rch[proc[o].rch].id
    BY <1>1, <1>3, <2>2 DEF Answered, Closing, Idle
  <2>4. \A o \in Paths : Closing(o)' => Closing(o)
    BY <2>2 DEF Closing
  <2>6. \A o \in Paths : proc'[o].pc = "last" => Answered(o)'
    BY <1>2, <1>11, <2>2, <2>3 DEF Requests
  <2>7. \A o \in Paths : proc'[o].pc = "cleanup" => pending = <<>>
    BY <1>2, <1>11, <2>2 DEF Requests
  <2>8. \A o \in Paths : Closing(o)' /\ Answered(o)' => pending = <<>>
    BY <1>2, <1>11, <2>3, <2>4 DEF Requests
  <2>9. \A o \in Paths : Closing(o)' /\ ~ Answered(o)' =>
            \A k \in DOMAIN pending : pending[k].id = rch'[proc'[o].rch].id =>
                 pending[k].rch = proc'[o].rch /\ k = Len(pending)
    BY <1>2, <1>11, <2>2, <2>3, <2>4 DEF Requests
  <2>10. "late" \in env => \A k \in DOMAIN pending : Gap(pending[k].id)' = Len(pending) - k
    BY <1>1, <1>2, <1>11 DEF Requests, Gap
  <2> QED BY <1>1, <1>2, <1>11, <2>1, <2>6, <2>7, <2>8, <2>9, <2>10 DEF Requests
<1>12. ASSUME AllSent PROVE Sent'
  <2>1. \A s \in Listed' : s \in Listed /\ s \in Rchs /\ rch'[s].path = rch[s].path /\ rch[s].path \in Paths
           /\ rch'[s].valid = rch[s].valid /\ rch'[s].id = rch[s].id
    BY <1>1, <1>2, <1>3 DEF Handlers
  <2>2. \A o \in Paths : proc'[o].pc = "send" \/ proc[o].pc = "send" => proc'[o] = proc[o]
    BY <1>1, <1>6
  <2>3. ASSUME NEW s \in Listed'
        PROVE  \/ \E k \in DOMAIN pending : pending[k].rch = s
               \/ rch'[s].valid # 0
               \/ proc'[rch'[s].path].pc = "send" /\ proc'[rch'[s].path].rch = s
    BY <1>2, <1>12, <2>1, <2>2, <2>3 DEF Sent
  <2>4. ASSUME NEW o \in Paths, proc'[o].pc = "send", NEW s \in Listed', rch'[s].valid # 0
        PROVE  rch'[s].id # rch'[proc'[o].rch].id
    <3>1. proc'[o] = proc[o] /\ rch'[proc[o].rch].id = rch[proc[o].rch].id
      BY <1>1, <1>3, <2>2, <2>4 DEF Idle
    <3> QED BY <1>2, <1>12, <2>1, <2>4, <3>1 DEF Sent
  <2>5. \A k \in DOMAIN pending, s \in Listed' : rch'[s].id = pending[k].id => s = pending[k].rch
    BY <1>2, <1>12, <2>1 DEF Sent
  <2> QED BY <1>1, <2>3, <2>4, <2>5 DEF Sent
<1>13. Typed' /\ Regular(env)'
  BY DEF Disarms, IInv, Typed, CoreOK, Regular, ProcRecord, RchRecord, pools
<1>14. Requests' /\ Sent'
  BY <1>1, <1>11, <1>12 DEF Requests, Sent, AllSent
<1> QED BY <1>7, <1>8, <1>9, <1>10, <1>13, <1>14 DEF IInv

\* What the two results of rchRemoveIfNotValid assign to the process.
LEMMA SetOpen ==
    ASSUME proc \in [Paths -> ProcRecord], NEW p \in Paths, NEW l \in PC, NEW r \in Rchs \cup {NoRch},
           NEW m \in Kbufs, proc' = [proc EXCEPT ![p] = [@ EXCEPT !.pc = l, !.rch = r, !.kbuf = m]]
    PROVE  Now(p, l, proc[p].op, r, m, proc[p].used)
BY DEF Now, Same, ProcRecord

\* A reader that found its answer goes on.
LEMMA SetOn ==
    ASSUME proc \in [Paths -> ProcRecord], NEW p \in Paths, NEW l \in PC,
           proc' = [proc EXCEPT ![p] = [@ EXCEPT !.pc = l]]
    PROVE  Now(p, l, proc[p].op, proc[p].rch, proc[p].kbuf, proc[p].used)
BY DEF Now, Same, ProcRecord

\* rchRemoveIfNotValid: a signal came first, the answer is there, or it is an error.
LEMMA CheckStep ==
    ASSUME IInv, NEW p \in Paths, Check(p), env' = env
    PROVE  IInv'
<1> DEFINE r == proc[p].rch
           v == rch[r].valid
<1>1. /\ Runs(p) /\ proc[p].pc = "check"
      /\ rch' = IF v = 1 THEN rch ELSE [rch EXCEPT ![r].handler = "none"]
      /\ list' = IF v < 0 THEN ListDel(list, r) ELSE list
      /\ badDel' = (badDel \/ (v < 0 /\ r \notin Listed))
      /\ proc' = [proc EXCEPT ![p] =
                    IF v = 0 THEN [@ EXCEPT !.pc = "open", !.rch = NoRch, !.kbuf = NoMap]
                    ELSE [@ EXCEPT !.pc = IF v = 1 THEN "copy" ELSE "error"]]
      /\ UNCHANGED <<pools, lastId, pending, mutex, cpu>>
  BY DEF Check, At
<1>2. /\ r \in Rchs /\ PlaceOK(p) /\ HoldOK(p) /\ proc[p].op = "read"
      /\ rch \in [Rchs -> RchRecord] /\ v \in {-1, 0, 1} /\ proc \in [Paths -> ProcRecord]
      /\ list \in Seq(Rchs) /\ Once(list) /\ Listed = Elems(list) /\ Listed' = Elems(list')
  <2>1. PlaceOK(p) /\ HoldOK(p) /\ r \in Rchs
    BY <1>1, Here DEF Idle
  <2>2. proc[p].op = "read"
    BY <1>1, <2>1 DEF PlaceOK
  <2>3. Listed' = Elems(list')
    BY DEF Listed, Elems
  <2> QED BY <2>1, <2>2, <2>3, Types DEF IInv, Typed, Handlers
<1>3. r \in Listed /\ rch[r].path = p /\ ~ Answered(p)
  BY <1>1, <1>2 DEF HoldOK, Out, Answered
<1>4. badDel' = badDel
  <2>1. badDel \in BOOLEAN
    BY DEF IInv, Typed, CoreOK
  <2>2. ~ (v < 0 /\ r \notin Listed)
    BY <1>3
  <2>3. CASE badDel = TRUE
    BY <1>1, <2>3, Zenon
  <2>4. CASE badDel = FALSE
    BY <1>1, <2>2, <2>4, Zenon
  <2> QED BY <2>1, <2>3, <2>4
<1>5. CASE v = 1
  <2>1. rch' = rch /\ list' = list /\ proc' = [proc EXCEPT ![p] = [@ EXCEPT !.pc = "copy"]]
    BY <1>1, <1>5
  <2>2. Now(p, "copy", proc[p].op, r, proc[p].kbuf, proc[p].used)
    <3>1. "copy" \in PC
      BY DEF PC
    <3> QED BY <1>2, <2>1, <3>1, SetOn
  <2>3. Still(p) /\ mutex' = mutex /\ cpu' = cpu
    BY <1>1, <1>4, <2>1, <2>2 DEF Still, Stays, Now
  <2>4. /\ Bare(p)' <=> Bare(p)
        /\ ReadsAB(p)' <=> ReadsAB(p)
        /\ Answered(p)' <=> Answered(p)
    BY <2>2, <2>3 DEF Now, Bare, ReadsAB, Exclusive, Answered, Still, Stays
  <2>5. PlaceOK(p)'
    BY <1>1, <1>2, <2>2, <2>3, <2>4, Sizes DEF Now, PlaceOK, Idle, Out, Raw
  <2>6. /\ proc'[p].pc \notin Claims /\ proc'[p].pc \notin Raw /\ proc'[p].pc # "build"
        /\ proc'[p].pc # "send" /\ proc'[p].pc \in Out
    BY <2>2 DEF Now, Claims, Raw, Out
  <2>7. Places' /\ Turns'
    BY <1>1, <2>3, <2>5, <2>6, OtherPlaces, TurnsKept DEF Still, Stays, MayRun
  <2>8. HoldOK(p)'
    <3>1. Listed' = Listed
      BY <2>1 DEF Listed
    <3> QED BY <1>1, <1>2, <1>3, <1>5, <2>1, <2>2, <2>4, <2>6, <3>1 DEF HoldOK, Now, Out
  <2>9. Holds' /\ Mappings' /\ Sent'
    BY <1>1, <2>3, <2>6, <2>8, StillHolds, StaysMappings, StillSent DEF Still
  <2>10. Requests'
    BY <1>2, <2>2, <2>3, StillRequests DEF Now
  <2>11. Handlers'
    <3>1. \A s \in Listed : rch[s].handler = "read" /\ rch[s].path = p => r = s
      BY DEF IInv, Handlers
    <3> QED BY <1>1, <1>2, <2>2, <2>3, <2>6, <3>1, StaysHandlers DEF Now, Still
  <2>12. Typed' /\ Regular(env)'
    BY <1>1, <1>4, <2>1, <2>2 DEF Now, IInv, Typed, CoreOK, ProcRecord, Regular, pools
  <2> QED BY <2>7, <2>9, <2>10, <2>11, <2>12 DEF IInv
<1>6. CASE v # 1
  <2>1. rch' = [rch EXCEPT ![r].handler = "none"]
    BY <1>1, <1>6
  <2>2. /\ rch' \in [Rchs -> RchRecord] /\ \A s \in Rchs : s # r => rch'[s] = rch[s]
        /\ rch'[r].path = rch[r].path /\ rch'[r].kbuf = rch[r].kbuf /\ rch'[r].pool = rch[r].pool
        /\ rch'[r].id = rch[r].id /\ rch'[r].valid = rch[r].valid /\ rch'[r].handler = "none"
    BY <1>2, <2>1, Disarmed
  <2>3. CASE v = 0
    <3>1. list' = list /\ Listed' = Listed
      BY <1>1, <2>3 DEF Listed
    <3>2. Now(p, "open", proc[p].op, NoRch, NoMap, proc[p].used)
      <4>1. "open" \in PC /\ NoRch \in Rchs \cup {NoRch} /\ NoMap \in Kbufs
        BY DEF PC, Kbufs
      <4>2. proc' = [proc EXCEPT ![p] = [@ EXCEPT !.pc = "open", !.rch = NoRch, !.kbuf = NoMap]]
        BY <1>1, <2>3
      <4> QED BY <1>2, <4>1, <4>2, SetOpen
    <3>3. PlaceOK(p)' /\ HoldOK(p)'
      BY <1>2, <3>2 DEF Now, PlaceOK, HoldOK, Idle, Out, Raw
    <3>4. Disarms(p, r)
      BY <1>1, <1>4, <2>2, <3>2 DEF Disarms, Now
    <3> QED BY <1>1, <1>2, <1>3, <2>3, <3>1, <3>2, <3>3, <3>4, DisarmKeeps DEF Now
  <2>4. CASE v = -1
    <3>1. list' \in Seq(Rchs) /\ Once(list') /\ Listed' = Listed \ {r}
      <4>1. list' = ListDel(list, r)
        BY <1>1, <2>4
      <4> QED BY <1>2, <4>1, ListDelFacts
    <3>2. Now(p, "error", proc[p].op, r, proc[p].kbuf, proc[p].used)
      <4>1. "error" \in PC
        BY DEF PC
      <4>2. proc' = [proc EXCEPT ![p] = [@ EXCEPT !.pc = "error"]]
        BY <1>1, <2>4
      <4> QED BY <1>2, <4>1, <4>2, SetOn
    <3>3. (Bare(p)' <=> Bare(p)) /\ (ReadsAB(p)' <=> ReadsAB(p))
      BY <3>2 DEF Now, Bare, ReadsAB, Exclusive
    <3>4. "error_reply" \in env
      BY <1>2, <2>4 DEF IInv, Handlers
    <3>5. PlaceOK(p)'
      BY <1>1, <1>2, <3>2, <3>3, <3>4, Sizes DEF Now, PlaceOK, Idle, Out, Raw
    <3>6. HoldOK(p)'
      BY <1>1, <1>2, <1>3, <2>2, <3>1, <3>2, <3>3 DEF Now, HoldOK, Out, Raw
    <3>7. Disarms(p, r)
      BY <1>1, <1>4, <2>2, <3>2 DEF Disarms, Now
    <3> QED BY <1>1, <1>2, <1>3, <2>4, <3>1, <3>2, <3>5, <3>6, <3>7, DisarmKeeps DEF Now
  <2> QED BY <1>2, <1>6, <2>3, <2>4
<1> QED BY <1>5, <1>6

-----------------------------------------------------------------------------
\* The id of the next message.
LEMMA NextId ==
    ASSUME NEW i \in Ids
    PROVE  /\ (i + 1) % IdMod \in Ids
           /\ (i + 1) % IdMod = IF i + 1 = IdMod THEN 0 ELSE i + 1
<1>1. IdMod \in Nat /\ IdMod > 0 /\ i \in 0 .. IdMod - 1
  BY Sizes DEF Ids
<1>2. CASE i + 1 = IdMod
  <2>1. IdMod % IdMod = 0
    BY <1>1
  <2> QED BY <1>1, <1>2, <2>1 DEF Ids
<1>3. CASE i + 1 # IdMod
  <2>1. i + 1 \in 0 .. IdMod - 1
    BY <1>1, <1>3
  <2>2. (i + 1) % IdMod = i + 1
    BY <1>1, <2>1
  <2> QED BY <1>3, <2>1, <2>2 DEF Ids
<1> QED BY <1>2, <1>3

\* Requests at the card have different handlers, so there are fewer of them than
\* handlers when one is elsewhere.
LEMMA HandlerLeft ==
    ASSUME IInv, "close_signal" \notin env, NEW r \in Rchs,
           \A k \in DOMAIN pending : pending[k].rch # r
    PROVE  Len(pending) < NHandlers
<1> SUFFICES ASSUME ~ (Len(pending) < NHandlers) PROVE FALSE
  OBVIOUS
<1> DEFINE n == Len(pending)
<1>1. n \in Nat /\ DOMAIN pending = 1 .. n /\ \A k \in 1 .. n : pending[k].rch \in Rchs
  BY Types DEF IInv, Typed
<1>2. n >= NHandlers /\ n > 0
  BY <1>1, Sizes
<1>3. r \in Rchs /\ \A k \in 1 .. n : pending[k].rch # r
  BY <1>1
<1>4. /\ \A k \in 1 .. n : rch[pending[k].rch].id = pending[k].id
      /\ \A j, k \in 1 .. n : pending[j].id = pending[k].id => j = k
  BY <1>1 DEF IInv, Requests, AtCard
<1> DEFINE S == 1 .. n
           T == Rchs \ {r}
           f == [k \in S |-> pending[k].rch]
<1>5. f \in [S -> T]
  BY <1>1, <1>3, <1>4
<1>6. IsFiniteSet(S) /\ Cardinality(S) = n
  <2>1. 1 \in Int /\ n \in Int /\ ~ (1 > n) /\ n - 1 + 1 = n
    BY <1>1, <1>2
  <2> QED BY <2>1, FS_Interval
<1>7. IsFiniteSet(T) /\ Cardinality(T) = NHandlers - 1
  <2>1. 0 \in Int /\ NHandlers - 1 \in Int /\ ~ (0 > NHandlers - 1) /\ (NHandlers - 1) - 0 + 1 = NHandlers
    BY Sizes
  <2>2. IsFiniteSet(Rchs) /\ Cardinality(Rchs) = NHandlers
    BY <2>1, FS_Interval DEF Rchs
  <2> QED BY <1>3, <2>2, FS_RemoveElement
<1>8. Cardinality(T) < Cardinality(S)
  BY <1>1, <1>2, <1>6, <1>7, Sizes
<1> HIDE DEF S, T, f
<1>9. PICK x \in S, y \in S : x # y /\ f[x] = f[y]
  BY <1>5, <1>6, <1>7, <1>8, FS_PigeonHole
<1>10. x \in 1 .. n /\ y \in 1 .. n /\ pending[x].rch = pending[y].rch
  BY <1>9 DEF S, f
<1> QED BY <1>4, <1>9, <1>10

\* When ids may come round at any time, the requests of one path are numbered
\* without a gap, and the next id is not among them.
LEMMA NextIdNotAtCard ==
    ASSUME IInv, "late" \in env, NEW k \in DOMAIN pending, NEW p \in Paths, proc[p].pc = "build"
    PROVE  pending[k].id # (lastId + 1) % IdMod
<1>1. lastId \in Ids /\ pending[k].id \in Ids /\ k \in 1 .. Len(pending) /\ Len(pending) \in Nat
  BY Types DEF IInv, Typed, CoreOK
<1>2. Len(pending) < IdMod /\ Gap(pending[k].id) = Len(pending) - k
  <2>1. "close_signal" \notin env /\ NHandlers <= IdMod
    BY DEF IInv, Regular
  <2>2. PICK r \in Rchs : r = proc[p].rch
    BY Here DEF Idle
  <2>3. rch[r].path = NoPath
    BY <2>2, Here DEF HoldOK, Raw
  <2>4. \A j \in DOMAIN pending : pending[j].rch # r
    BY <2>1, <2>3 DEF IInv, Requests, AtCard, Handlers
  <2>5. Len(pending) < NHandlers
    BY <2>1, <2>4, HandlerLeft
  <2>6. Gap(pending[k].id) = Len(pending) - k
    BY <2>1 DEF IInv, Requests
  <2> QED BY <1>1, <2>1, <2>5, <2>6, Sizes
<1>3. (lastId + 1) % IdMod = IF lastId + 1 = IdMod THEN 0 ELSE lastId + 1
  BY <1>1, NextId
<1> DEFINE i == pending[k].id
           n == Len(pending)
<1>4. i \in Ids /\ n \in Nat /\ k \in 1 .. n /\ n < IdMod /\ Gap(i) = n - k
  BY <1>1, <1>2
<1> HIDE DEF i, n
<1>5. i # IF lastId + 1 = IdMod THEN 0 ELSE lastId + 1
  BY <1>1, <1>2, <1>4, Sizes DEF Gap, Ids
<1> QED BY <1>3, <1>5 DEF i

\* The id that a message is built with is not at the card, and no handler on
\* the list that has its answer carries it.
LEMMA FreshId ==
    ASSUME IInv, NEW p \in Paths, proc[p].pc = "build", IdFree((lastId + 1) % IdMod)
    PROVE  /\ \A k \in DOMAIN pending : pending[k].id # (lastId + 1) % IdMod
           /\ \A s \in Listed : rch[s].valid # 0 => rch[s].id # (lastId + 1) % IdMod
<1>1. CASE "late" \notin env
  BY <1>1 DEF IdFree, Listed, IInv, Regular
<1>2. CASE "late" \in env
  <2>1. ASSUME NEW s \in Listed, rch[s].valid # 0 PROVE FALSE
    <3>1. rch[s].path \in Paths /\ proc[rch[s].path].pc \in Out
      <4>1. s \in Rchs /\ rch[s].path \in Paths \cup {NoPath}
        BY Types DEF IInv, Typed
      <4> QED BY <2>1, <4>1 DEF IInv, Handlers
    <3>2. "ab" \notin env
      BY <1>2 DEF IInv, Regular
    <3>3. rch[s].path = p
      BY <3>1, <3>2, Alone DEF Out
    <3> QED BY <3>1, <3>3 DEF Out
  <2> QED BY <1>2, <2>1, NextIdNotAtCard
<1> QED BY <1>1, <1>2

\* A message is built and its handler appended to the list.
LEMMA BuildStep ==
    ASSUME IInv, NEW p \in Paths, Build(p), env' = env
    PROVE  IInv'
<1>0. PICK r : r = proc[p].rch
  OBVIOUS
<1> DEFINE id == (lastId + 1) % IdMod
<1>1. /\ Runs(p) /\ proc[p].pc = "build" /\ IdFree(id)
      /\ rch' = [rch EXCEPT ![r] = Built(p)] /\ list' = Append(list, r)
      /\ proc' = [proc EXCEPT ![p].pc = "send", ![p].used = TRUE]
      /\ cpu' \in {p, NoPath} /\ ("smp" \notin env => cpu' = p)
      /\ UNCHANGED <<pools, lastId, pending, mutex, badDel>>
  BY <1>0, Here DEF Build, At, HoldCpu, rchAppend
<1>2. /\ PlaceOK(p) /\ HoldOK(p) /\ r \in Rchs /\ proc[p].op \in Ops /\ proc \in [Paths -> ProcRecord]
      /\ proc[p].kbuf \in Kbufs
  BY <1>0, <1>1, Here DEF Idle
<1>3. r \in rchRes /\ rch[r].path = NoPath /\ r \notin Listed
  <2>1. r \in rchRes /\ rch[r].path = NoPath
    BY <1>0, <1>1, <1>2 DEF HoldOK, Raw
  <2> QED BY <2>1 DEF IInv, Handlers
<1>4. /\ list \in Seq(Rchs) /\ Once(list) /\ Listed = Elems(list) /\ Listed' = Elems(list')
      /\ rch \in [Rchs -> RchRecord] /\ lastId \in Ids
  <2>1. Listed' = Elems(list')
    BY DEF Listed, Elems
  <2> QED BY <2>1, Types DEF IInv, Typed, CoreOK, Handlers
<1>5. list' \in Seq(Rchs) /\ Once(list') /\ Listed' = Listed \cup {r}
  BY <1>1, <1>2, <1>3, <1>4, AppendFacts
<1>6. Now(p, "send", proc[p].op, r, proc[p].kbuf, TRUE)
  <2>1. "send" \in PC /\ TRUE \in BOOLEAN
    BY DEF PC
  <2> QED BY <1>0, <1>1, <1>2, <2>1, SetPcUsed
<1>7. /\ Built(p) \in RchRecord /\ Built(p).path = p /\ Built(p).id = id /\ Built(p).valid = 0
      /\ proc[p].op = "close" => Built(p).handler = "last"
      /\ proc[p].op # "close" => Built(p).handler = proc[p].op
      /\ ReadsAB(p) => Built(p).kbuf = ABMap /\ Built(p).pool = FALSE
      /\ ~ ReadsAB(p) => Built(p).kbuf = proc[p].kbuf /\ Built(p).pool = TRUE
  <2>1. proc[p].op = "close" => proc[p].kbuf = NoMap /\ ~ ReadsAB(p)
    BY <1>1, <1>2 DEF PlaceOK, Bare, ReadsAB
  <2>2. proc[p].op \in {"read", "write", "close"}
    BY <1>1, <1>2 DEF PlaceOK, Ops
  <2>3. id \in Ids
    BY <1>4, NextId
  <2>4. NoMap \in Kbufs /\ ABMap \in Kbufs
    BY DEF Kbufs
  <2> HIDE DEF id
  <2>5. CASE proc[p].op = "close"
    BY <1>2, <2>1, <2>3, <2>4, <2>5 DEF Built, RchRecord, id
  <2>6. CASE ReadsAB(p)
    <3>1. proc[p].op = "read"
      BY <2>6 DEF ReadsAB
    <3> QED BY <1>2, <2>3, <2>4, <2>6, <3>1 DEF Built, RchRecord, id
  <2>7. CASE proc[p].op # "close" /\ ~ ReadsAB(p)
    BY <1>2, <2>2, <2>3, <2>7 DEF Built, RchRecord, id
  <2> QED BY <2>5, <2>6, <2>7
<1>8. /\ rch' \in [Rchs -> RchRecord] /\ rch'[r] = Built(p)
      /\ \A s \in Rchs : s # r => rch'[s] = rch[s]
  BY <1>1, <1>2, <1>4, <1>7
<1>9. /\ \A k \in DOMAIN pending : pending[k].id # id
      /\ \A s \in Listed : rch[s].valid # 0 => rch[s].id # id
  BY <1>1, FreshId
<1>10. \A o \in Paths : o # p => proc[o].rch # r
  <2>1. CASE proc[p].op = "close"
    <3> SUFFICES ASSUME NEW o \in Paths, o # p PROVE proc[o].rch # r
      OBVIOUS
    <3>1. proc[o].pc = "closed"
      BY <1>1, <2>1, CloseAlone
    <3> QED BY <1>2, <3>1, Here, Sizes DEF PlaceOK, Idle
  <2>2. CASE proc[p].op # "close"
    BY <1>0, <1>1, <2>2, SoleHolder DEF Idle
  <2> QED BY <2>1, <2>2
<1> HIDE DEF id
<1>11. /\ rchRes' = rchRes /\ mapRes' = mapRes /\ env' = env /\ lastId' = lastId /\ pending' = pending
       /\ badDel' = badDel /\ mutex' = mutex
       /\ \A o \in Paths : o # p => proc'[o] = proc[o]
       /\ proc'[p].pc = "send" /\ proc'[p].op = proc[p].op /\ proc'[p].rch = r
       /\ proc'[p].kbuf = proc[p].kbuf /\ proc'[p].used = TRUE
       /\ id = (lastId + 1) % IdMod /\ r = proc[p].rch
  BY <1>0, <1>1, <1>6 DEF pools, Now, Same, id
<1>12. (Bare(p)' <=> Bare(p)) /\ (ReadsAB(p)' <=> ReadsAB(p)) /\ ~ Answered(p)'
  BY <1>7, <1>8, <1>11 DEF Bare, ReadsAB, Exclusive, Answered
<1>13. Places' /\ Turns'
  <2>1. PlaceOK(p)'
    BY <1>1, <1>2, <1>11, <1>12, Sizes DEF PlaceOK, Idle, Out, Raw
  <2>2. Same(p) /\ proc[p].pc # "closed"
    BY <1>1, <1>11 DEF Same
  <2> QED BY <1>1, <1>11, <2>1, <2>2, OtherPlaces, TurnsKept DEF MayRun
<1>14. Holds'
  <2> SUFFICES ASSUME NEW o \in Paths PROVE HoldOK(o)'
    BY DEF Holds
  <2>1. CASE o = p
    <3>1. proc'[p].pc \in Out /\ proc'[p].pc \notin Raw
      BY <1>11 DEF Out, Raw
    <3> QED BY <1>5, <1>7, <1>8, <1>9, <1>11, <1>12, <2>1, <3>1 DEF HoldOK
  <2>2. CASE o # p
    <3>1. HoldOK(o) /\ proc'[o] = proc[o] /\ proc[o].rch # r
      BY <1>10, <1>11, <2>2, Here
    <3>2. CASE proc[o].pc \in Idle
      BY <3>1, <3>2 DEF HoldOK, Idle, Out, Raw
    <3>3. CASE proc[o].pc \notin Idle
      <4>1. /\ rch'[proc[o].rch] = rch[proc[o].rch]
            /\ proc[o].rch \in Listed' <=> proc[o].rch \in Listed
        BY <1>5, <1>8, <3>1, <3>3, Here
      <4>2. (Answered(o)' <=> Answered(o)) /\ (ReadsAB(o)' <=> ReadsAB(o))
        BY <1>11, <3>1, <4>1 DEF Answered, ReadsAB, Exclusive
      <4>3. proc'[o].pc \in Raw => \A q \in Paths \ {o} : proc'[q].pc \in Raw => proc'[q].rch # proc'[o].rch
        BY <1>11, <3>1 DEF HoldOK, Raw
      <4>5. CASE proc[o].pc \in Raw
        BY <1>11, <3>1, <4>1, <4>3, <4>5 DEF HoldOK, Raw, Out
      <4>6. CASE proc[o].pc \notin Raw
        BY <1>11, <3>1, <4>1, <4>2, <4>6 DEF HoldOK
      <4> QED BY <4>5, <4>6
    <3> QED BY <3>2, <3>3
  <2> QED BY <2>1, <2>2
<1>15. Handlers'
  <2>0. /\ Handlers /\ Listed \subseteq Rchs
        /\ \A s \in Rchs : rch[s].path \in Paths \cup {NoPath}
    BY Types DEF IInv, Typed
  <2>1. ASSUME NEW s \in Rchs, rch'[s].path # NoPath
        PROVE  /\ s \in rchRes' /\ proc'[rch'[s].path].pc # "closed"
               /\ s \in Listed' \/ (proc'[rch'[s].path].pc = "error" /\ proc'[rch'[s].path].rch = s)
    <3>1. CASE s = r
      BY <1>3, <1>5, <1>7, <1>8, <1>11, <3>1
    <3>2. CASE s # r
      <4>1. rch'[s] = rch[s] /\ rch[s].path \in Paths
        BY <1>8, <2>0, <2>1, <3>2
      <4>2. s \in rchRes /\ proc[rch[s].path].pc # "closed"
        BY <2>0, <2>1, <4>1 DEF Handlers
      <4>3. s \in Listed \/ (proc[rch[s].path].pc = "error" /\ proc[rch[s].path].rch = s)
        BY <2>0, <2>1, <4>1 DEF Handlers
      <4> QED BY <1>1, <1>5, <1>11, <4>1, <4>2, <4>3
    <3> QED BY <3>1, <3>2
  <2>2. ASSUME NEW s \in Listed', rch'[s].handler = "read"
        PROVE  /\ proc'[rch'[s].path].rch = s
               /\ proc'[rch'[s].path].pc \in Out /\ proc'[rch'[s].path].op = "read"
    <3>1. CASE s = r
      BY <1>7, <1>8, <1>11, <2>2, <3>1 DEF Out
    <3>2. CASE s # r
      <4>1. s \in Listed /\ s \in Rchs /\ rch'[s] = rch[s]
        BY <1>5, <1>8, <2>0, <3>2
      <4>2. rch[s].path \in Paths /\ proc[rch[s].path].rch = s
        BY <2>0, <2>2, <4>1 DEF Handlers
      <4> QED BY <1>11, <2>0, <2>2, <3>2, <4>1, <4>2 DEF Handlers
    <3> QED BY <3>1, <3>2
  <2>3. \A s \in Listed' : rch'[s].path # NoPath /\ (rch'[s].valid # 0 => rch'[s].handler = "read")
    BY <1>5, <1>7, <1>8, <2>0, Sizes DEF Handlers
  <2>4. \A s \in Rchs : rch'[s].kbuf \in Maps => rch'[s].pool = TRUE
    BY <1>7, <1>8, <2>0, Sizes DEF Handlers
  <2>5. /\ \A s \in Rchs : rch'[s].valid = -1 => "error_reply" \in env
        /\ "error_reply" \notin env /\ "close_signal" \notin env => badDel' = FALSE
    BY <1>7, <1>8, <1>11, <2>0 DEF Handlers
  <2> QED BY <1>5, <1>11, <2>1, <2>2, <2>3, <2>4, <2>5 DEF Handlers
<1>16. Mappings'
  <2> SUFFICES ASSUME "alloc_timeout" \notin env PROVE Mappings'
    BY <1>11 DEF Mappings
  <2>0. Mappings
    BY DEF IInv
  <2>1. \A s \in Rchs, m \in Maps : s # r => (Used(s, m)' <=> Used(s, m))
    BY <1>8 DEF Used
  <2>2. \A m \in Maps : Used(r, m)' => proc[p].kbuf = m
    BY <1>7, <1>8, Sizes DEF Used
  <2>3. \A o \in Paths : proc'[o].pc = "build" => proc'[o] = proc[o] /\ o # p
    BY <1>11
  <2>4. \A m \in Maps : Used(r, m)' =>
            /\ m \in mapRes /\ \A s \in Rchs : ~ Used(s, m)
            /\ \A o \in Paths \ {p} : proc[o].pc = "build" => proc[o].kbuf # m
    BY <1>1, <2>0, <2>2 DEF Mappings
  <2>5. \A s \in Rchs, m \in Maps : Used(s, m)' => m \in mapRes'
    BY <1>11, <2>0, <2>1, <2>4 DEF Mappings
  <2>6. ASSUME NEW s \in Rchs, NEW t \in Rchs, NEW m \in Maps, Used(s, m)', Used(t, m)'
        PROVE  s = t
    <3>1. CASE s = r /\ t # r
      BY <2>1, <2>4, <2>6, <3>1
    <3>2. CASE s # r /\ t = r
      BY <2>1, <2>4, <2>6, <3>2
    <3>3. CASE s # r /\ t # r
      BY <2>0, <2>1, <2>6, <3>3 DEF Mappings
    <3> QED BY <3>1, <3>2, <3>3
  <2>7. ASSUME NEW o \in Paths, NEW m \in Maps, proc'[o].pc = "build", proc'[o].kbuf = m
        PROVE  /\ m \in mapRes'
               /\ \A s \in Rchs : ~ Used(s, m)'
               /\ \A q \in Paths \ {o} : proc'[q].pc = "build" => proc'[q].kbuf # m
    <3>1. proc[o].pc = "build" /\ proc[o].kbuf = m /\ o # p
      BY <2>3, <2>7
    <3>2. m \in mapRes /\ (\A s \in Rchs : ~ Used(s, m))
          /\ \A q \in Paths \ {o} : proc[q].pc = "build" => proc[q].kbuf # m
      BY <2>0, <3>1 DEF Mappings
    <3>3. ~ Used(r, m)'
      BY <2>4, <3>1
    <3> QED BY <1>11, <2>1, <2>3, <3>2, <3>3
  <2> QED BY <2>5, <2>6, <2>7 DEF Mappings
<1>17. ASSUME "close_signal" \notin env PROVE Requests'
  <2>0. /\ Requests
        /\ \A k \in DOMAIN pending : pending[k].path \in Paths /\ pending[k].rch \in Rchs
    BY Types DEF IInv, Typed
  <2>1. ASSUME NEW k \in DOMAIN pending PROVE AtCard(pending[k])'
    <3>1. AtCard(pending[k]) /\ pending[k].rch # r
      BY <1>3, <1>17, <2>0, <2>1 DEF Requests, AtCard
    <3>2. proc'[pending[k].path].used = TRUE
      BY <1>11, <2>0, <2>1, <3>1 DEF AtCard
    <3> QED BY <1>5, <1>8, <1>11, <2>0, <2>1, <3>1, <3>2 DEF AtCard
  <2>2. \A o \in Paths : Closing(o)' \/ proc'[o].pc \in {"last", "cleanup"} =>
            o # p /\ proc'[o] = proc[o]
    BY <1>11 DEF Closing
  <2>3. \A o \in Paths : Closing(o)' \/ proc'[o].pc = "last" =>
            rch'[proc[o].rch] = rch[proc[o].rch]
    BY <1>8, <1>10, <2>2, Here DEF Closing, Idle
  <2>4. \A o \in Paths : Closing(o)' \/ proc'[o].pc = "last" => (Answered(o)' <=> Answered(o))
    BY <2>2, <2>3 DEF Answered, Closing
  <2>5. \A o \in Paths : Closing(o)' => Closing(o)
    BY <2>2 DEF Closing
  <2>6. \A o \in Paths : proc'[o].pc = "last" => Answered(o)'
    BY <1>17, <2>0, <2>2, <2>4 DEF Requests
  <2>7. \A o \in Paths : proc'[o].pc = "cleanup" => pending = <<>>
    BY <1>17, <2>0, <2>2 DEF Requests
  <2>8. \A o \in Paths : Closing(o)' /\ Answered(o)' => pending = <<>>
    BY <1>17, <2>0, <2>4, <2>5 DEF Requests
  <2>9. \A o \in Paths : Closing(o)' /\ ~ Answered(o)' =>
            \A k \in DOMAIN pending : pending[k].id = rch'[proc'[o].rch].id =>
                 pending[k].rch = proc'[o].rch /\ k = Len(pending)
    BY <1>17, <2>0, <2>2, <2>3, <2>4, <2>5 DEF Requests
  <2>10. "late" \in env => \A k \in DOMAIN pending : Gap(pending[k].id)' = Len(pending) - k
    BY <1>11, <1>17, <2>0 DEF Requests, Gap
  <2> QED BY <1>11, <1>17, <2>0, <2>1, <2>6, <2>7, <2>8, <2>9, <2>10 DEF Requests
<1>18. ASSUME AllSent PROVE Sent'
  <2>0. Sent /\ Handlers /\ Listed \subseteq Rchs /\ \A s \in Rchs : rch[s].path \in Paths \cup {NoPath}
    BY Types DEF IInv, Typed
  <2>1. \A s \in Listed : s \in Rchs /\ s # r /\ rch'[s] = rch[s] /\ rch[s].path \in Paths
    BY <1>3, <1>8, <2>0 DEF Handlers
  <2>2. \A o \in Paths : proc[o].pc = "send" => proc'[o] = proc[o]
    BY <1>1, <1>11
  <2>3. ASSUME NEW s \in Listed'
        PROVE  \/ \E k \in DOMAIN pending : pending[k].rch = s
               \/ rch'[s].valid # 0
               \/ proc'[rch'[s].path].pc = "send" /\ proc'[rch'[s].path].rch = s
    <3>1. CASE s = r
      BY <1>7, <1>8, <1>11, <3>1
    <3>2. CASE s # r
      BY <1>5, <1>18, <2>0, <2>1, <2>2, <2>3, <3>2 DEF Sent
    <3> QED BY <3>1, <3>2
  <2>4. ASSUME NEW o \in Paths, proc'[o].pc = "send", NEW s \in Listed', rch'[s].valid # 0
        PROVE  rch'[s].id # rch'[proc'[o].rch].id
    <3>1. o = p
      BY <1>1, <1>11, <2>4, NoClaims DEF Claims, MayRun
    <3>2. s # r /\ s \in Listed
      BY <1>5, <1>7, <1>8, <2>4
    <3> QED BY <1>7, <1>8, <1>9, <1>11, <2>1, <2>4, <3>1, <3>2
  <2>5. ASSUME NEW k \in DOMAIN pending, NEW s \in Listed', rch'[s].id = pending[k].id
        PROVE  s = pending[k].rch
    <3>1. s # r /\ s \in Listed
      BY <1>5, <1>7, <1>8, <1>9, <2>5
    <3> QED BY <1>18, <2>0, <2>1, <2>5, <3>1 DEF Sent
  <2> QED BY <1>11, <2>3, <2>4, <2>5 DEF Sent
<1>19. Typed' /\ Regular(env)'
  BY <1>1, <1>5, <1>6, <1>8 DEF Now, IInv, Typed, CoreOK, Regular, ProcRecord, RchRecord, pools
<1>20. Requests' /\ Sent'
  BY <1>11, <1>17, <1>18 DEF Requests, Sent, AllSent
<1> QED BY <1>13, <1>14, <1>15, <1>16, <1>19, <1>20 DEF IInv

-----------------------------------------------------------------------------
\* What a process does after acq200_sendI2O_kbuf, sent or not, as far as it
\* does not depend on the requests at the card.
LEMMA SendMoves ==
    ASSUME IInv, NEW p \in Paths, At(p, "send"), AfterSend(p), env' = env,
           UNCHANGED <<pools, rch, list, mutex, badDel>>
    PROVE  /\ Stays(p) /\ cpu' = NoPath /\ proc' \in [Paths -> ProcRecord]
           /\ proc'[p].op = proc[p].op /\ proc'[p].used = TRUE /\ proc[p].used = TRUE
           /\ proc'[p].pc \in {"open", "wait"}
           /\ proc'[p].pc = "wait" => proc'[p].rch = proc[p].rch
           /\ HoldOK(p)'
           /\ Places' /\ Turns' /\ Handlers' /\ Mappings'
<1>1. PICK r : r = proc[p].rch
  OBVIOUS
<1>2. /\ Runs(p) /\ proc[p].pc = "send" /\ cpu' = NoPath
      /\ UNCHANGED <<pools, rch, list, mutex, badDel>>
      /\ proc' = [proc EXCEPT ![p] =
                    IF @.op = "write" THEN [@ EXCEPT !.pc = "open", !.rch = NoRch, !.kbuf = NoMap]
                                      ELSE [@ EXCEPT !.pc = "wait"]]
  BY DEF At, AfterSend, FreeCpu
<1>3. /\ r \in Rchs /\ PlaceOK(p) /\ HoldOK(p) /\ proc \in [Paths -> ProcRecord]
      /\ proc[p].op \in Ops /\ proc[p].kbuf \in Kbufs
  BY <1>1, <1>2, Here DEF Idle
<1>4. /\ ~ Answered(p) /\ rch[r].path = p /\ r \in Listed /\ rch[r].valid = 0
      /\ proc[p].used = TRUE
      /\ proc[p].op # "close" => rch[r].handler = proc[p].op
      /\ proc[p].op = "close" => rch[r].handler = "last"
  <2>1. ~ Answered(p) /\ proc[p].pc \in Out
    BY <1>2, <1>3 DEF HoldOK, Out
  <2>2. proc[p].used = TRUE
    BY <1>2, <1>3 DEF PlaceOK
  <2> QED BY <1>1, <1>2, <1>3, <2>1, <2>2 DEF HoldOK
<1>5. CASE proc[p].op = "write"
  <2>1. Now(p, "open", "write", NoRch, NoMap, TRUE)
    <3>1. "open" \in PC /\ NoRch \in Rchs \cup {NoRch} /\ NoMap \in Kbufs
      BY DEF PC, Kbufs
    <3>2. proc' = [proc EXCEPT ![p] = [@ EXCEPT !.pc = "open", !.rch = NoRch, !.kbuf = NoMap]]
      BY <1>2, <1>5
    <3> QED BY <1>3, <1>4, <1>5, <3>1, <3>2, SetOpen
  <2>2. Stays(p)
    BY <1>2, <2>1 DEF Stays, Now
  <2>3. /\ proc'[p].pc \notin Claims /\ proc'[p].pc \notin Raw /\ proc'[p].pc \notin Out
        /\ proc'[p].pc = "open"
    BY <2>1 DEF Now, Claims, Raw, Out
  <2>4. PlaceOK(p)'
    BY <1>5, <2>1 DEF Now, PlaceOK, Idle, Out, Raw
  <2>5. HoldOK(p)'
    BY <2>3 DEF HoldOK, Out
  <2>6. Places' /\ Turns'
    BY <1>2, <2>2, <2>3, <2>4, OtherPlaces, TurnsKept DEF Stays, MayRun
  <2>7. Mappings'
    BY <2>2, <2>3, StaysMappings
  <2>8. \A s \in Listed : rch[s].handler = "read" => rch[s].path # p
    BY <1>5 DEF IInv, Handlers
  <2>9. Handlers'
    BY <1>2, <2>2, <2>3, <2>8, StaysHandlers
  <2> QED BY <1>2, <1>4, <1>5, <2>1, <2>2, <2>3, <2>5, <2>6, <2>7, <2>9 DEF Now
<1>6. CASE proc[p].op # "write"
  <2>1. Now(p, "wait", proc[p].op, r, proc[p].kbuf, TRUE)
    <3>1. "wait" \in PC
      BY DEF PC
    <3>2. proc' = [proc EXCEPT ![p] = [@ EXCEPT !.pc = "wait"]]
      BY <1>2, <1>6
    <3> QED BY <1>1, <1>3, <1>4, <3>1, <3>2, SetOn
  <2>2. Stays(p)
    BY <1>2, <2>1 DEF Stays, Now
  <2>3. /\ proc'[p].pc \notin Claims /\ proc'[p].pc \notin Raw /\ proc'[p].pc \in Out
        /\ proc'[p].pc = "wait"
    BY <2>1 DEF Now, Claims, Raw, Out
  <2>4. (Bare(p)' <=> Bare(p)) /\ (ReadsAB(p)' <=> ReadsAB(p)) /\ ~ Answered(p)'
    BY <1>1, <1>4, <2>1, <2>2 DEF Now, Bare, ReadsAB, Exclusive, Answered, Stays
  <2>5. PlaceOK(p)'
    BY <1>1, <1>2, <1>3, <1>6, <2>1, <2>4, Sizes DEF Now, PlaceOK, Idle, Out, Raw
  <2>6. HoldOK(p)'
    <3>1. rch' = rch /\ Listed' = Listed
      BY <1>2 DEF Listed
    <3>2. proc[p].pc \in Out
      BY <1>2 DEF Out
    <3> QED BY <1>1, <1>3, <1>4, <2>1, <2>3, <2>4, <3>1, <3>2 DEF HoldOK, Now
  <2>7. Places' /\ Turns'
    BY <1>2, <2>2, <2>3, <2>5, OtherPlaces, TurnsKept DEF Stays, MayRun
  <2>8. Mappings'
    BY <2>2, <2>3, StaysMappings
  <2>9. \A s \in Listed : rch[s].handler = "read" /\ rch[s].path = p =>
            proc[p].rch = s /\ proc[p].op = "read"
    BY DEF IInv, Handlers
  <2>10. Handlers'
    BY <1>1, <1>2, <2>1, <2>2, <2>3, <2>9, StaysHandlers DEF Now
  <2> QED BY <1>1, <1>2, <1>4, <2>1, <2>2, <2>3, <2>6, <2>7, <2>8, <2>10 DEF Now
<1> QED BY <1>5, <1>6

\* While a process is about to send, nobody closes or cleans up but itself.
LEMMA SendAlone ==
    ASSUME IInv, NEW p \in Paths, At(p, "send"), NEW o \in Paths, o # p
    PROVE  proc[o].pc # "send" /\ ~ Closing(o) /\ proc[o].pc \notin {"last", "cleanup"}
<1>1. Runs(p) /\ proc[p].pc = "send" /\ PlaceOK(o)
  BY Here DEF At
<1>2. proc[o].pc # "send"
  BY <1>1, NoClaims DEF Claims, MayRun
<1>3. ~ (proc[o].op = "close" /\ proc[o].pc # "closed")
  BY <1>1, CloseAlone
<1> QED BY <1>1, <1>2, <1>3 DEF Closing, PlaceOK

\* ... so that what the other processes hold stays as it is.
LEMMA SendHolds ==
    ASSUME IInv, NEW p \in Paths, At(p, "send"), Stays(p), proc'[p].pc \notin Raw, HoldOK(p)'
    PROVE  Holds'
<1> SUFFICES ASSUME NEW o \in Paths, o # p PROVE HoldOK(o)'
  BY DEF Holds
<1>1. /\ HoldOK(o) /\ Listed' = Listed /\ \A q \in Paths : q # p => proc'[q] = proc[q]
      /\ rch' = rch /\ env' = env /\ rchRes' = rchRes /\ proc[o].pc # "send"
  BY SendAlone DEF IInv, Listed, Stays, Holds, Same, pools
<1>2. proc'[o] = proc[o] /\ (Answered(o)' <=> Answered(o)) /\ (ReadsAB(o)' <=> ReadsAB(o))
  BY <1>1 DEF Answered, ReadsAB, Exclusive
<1>3. proc'[o].pc \in Raw => \A q \in Paths \ {o} : proc'[q].pc \in Raw => proc'[q].rch # proc'[o].rch
  BY <1>1, <1>2 DEF HoldOK
<1> QED BY <1>1, <1>2, <1>3 DEF HoldOK

\* A send moves the ids of the requests at the card one further from the last.
LEMMA GapMoves ==
    ASSUME lastId \in Ids, lastId' = (lastId + 1) % IdMod, NEW i \in Ids
    PROVE  Gap(i)' = IF i = lastId' THEN 0 ELSE Gap(i) + 1
<1>1. IdMod \in Nat /\ IdMod > 0 /\ lastId \in 0 .. IdMod - 1 /\ i \in 0 .. IdMod - 1
  BY Sizes DEF Ids
<1>2. lastId' = IF lastId + 1 = IdMod THEN 0 ELSE lastId + 1
  BY NextId
<1> QED BY <1>1, <1>2 DEF Gap

\* A message is sent, with the id its handler was given when it was built.
LEMMA SendStep ==
    ASSUME IInv, NEW p \in Paths, Send(p), env' = env
    PROVE  IInv'
<1>0. PICK r : r = proc[p].rch
  OBVIOUS
<1> DEFINE n == Len(pending)
           q == [id |-> lastId', op |-> proc[p].op, rch |-> r, path |-> p, kbuf |-> rch[r].kbuf]
<1>1. /\ At(p, "send") /\ n < Frames /\ lastId' = (lastId + 1) % IdMod
      /\ pending' = Append(pending, q) /\ AfterSend(p)
      /\ UNCHANGED <<pools, rch, list, mutex, badDel>>
  BY <1>0 DEF Send
<1>2. /\ Stays(p) /\ cpu' = NoPath /\ proc' \in [Paths -> ProcRecord]
      /\ proc'[p].op = proc[p].op /\ proc'[p].used = TRUE /\ proc[p].used = TRUE
      /\ proc'[p].pc \in {"open", "wait"}
      /\ proc'[p].pc = "wait" => proc'[p].rch = proc[p].rch
      /\ HoldOK(p)'
      /\ Places' /\ Turns' /\ Handlers' /\ Mappings'
  BY <1>1, SendMoves
<1>3. /\ proc[p].pc = "send" /\ r \in Rchs /\ HoldOK(p) /\ proc[p].op \in Ops /\ lastId \in Ids
      /\ rch[r].kbuf \in Kbufs /\ pending \in Seq(Request) /\ n \in Nat /\ n <= InFrames
      /\ DOMAIN pending = 1 .. n
  <2>1. proc[p].pc = "send" /\ r \in Rchs /\ HoldOK(p) /\ proc[p].op \in Ops
    BY <1>0, <1>1, Here DEF At, Idle
  <2> QED BY <2>1, Types DEF IInv, Typed, CoreOK
<1>4. /\ rch[r].path = p /\ r \in Listed /\ rch[r].valid = 0 /\ rch[r].id = lastId'
      /\ \A k \in DOMAIN pending : pending[k].id # lastId'
  <2>1. ~ Answered(p) /\ proc[p].pc \in Out
    BY <1>3 DEF HoldOK, Out
  <2> QED BY <1>0, <1>1, <1>3, <2>1 DEF HoldOK
<1>5. lastId' \in Ids /\ q \in Request
  <2>1. lastId' \in Ids
    BY <1>1, <1>3, NextId
  <2> QED BY <1>3, <2>1 DEF Request
<1>6. /\ q.id = lastId' /\ q.rch = r /\ q.path = p /\ q.kbuf = rch[r].kbuf
  OBVIOUS
<1> HIDE DEF q
<1>7. /\ pending' \in Seq(Request) /\ Len(pending') = n + 1 /\ DOMAIN pending' = 1 .. n + 1
      /\ pending'[n + 1] = q /\ \A k \in 1 .. n : pending'[k] = pending[k]
  BY <1>1, <1>3, <1>5
<1>8. \A k \in 1 .. n + 1 : k \in 1 .. n \/ k = n + 1
  BY <1>3
<1>9. /\ n + 1 \in 1 .. n + 1 /\ \A k \in 1 .. n : k \in 1 .. n + 1
  BY <1>3
<1>10. Frames \in Nat /\ Frames <= InFrames
  BY SizesAssumption DEF Frames
<1>11. n + 1 <= InFrames
  BY <1>1, <1>3, <1>10, Sizes
<1>12. Typed' /\ Regular(env)'
  BY <1>1, <1>2, <1>5, <1>7, <1>11, Sizes
     DEF IInv, Typed, CoreOK, Regular, ProcRecord, Request, Stays, pools
<1>13. Holds'
  <2>1. proc'[p].pc \notin Raw
    BY <1>2 DEF Raw
  <2> QED BY <1>1, <1>2, <2>1, SendHolds
<1>14. /\ \A o \in Paths : o # p => proc'[o] = proc[o] /\ proc[o].pc # "send" /\ ~ Closing(o)
                                    /\ proc[o].pc \notin {"last", "cleanup"}
       /\ Listed' = Listed /\ rch' = rch /\ env' = env
  BY <1>1, <1>2, SendAlone DEF Stays, Same, Listed
<1>15. ASSUME "close_signal" \notin env PROVE Requests'
  <2>0. /\ \A k \in 1 .. n : AtCard(pending[k]) /\ pending[k].path \in Paths
        /\ \A j, k \in 1 .. n : pending[j].id = pending[k].id => j = k
    BY <1>3, <1>15, Types DEF IInv, Typed, Requests
  <2>1. ASSUME NEW k \in 1 .. n + 1 PROVE AtCard(pending[k])'
    <3>1. CASE k \in 1 .. n
      <4>1. proc'[pending[k].path].used = TRUE
        BY <1>2, <1>14, <2>0, <3>1 DEF AtCard
      <4> QED BY <1>7, <1>14, <2>0, <3>1, <4>1 DEF AtCard
    <3>2. CASE k = n + 1
      BY <1>2, <1>4, <1>6, <1>7, <1>14, <3>2 DEF AtCard
    <3> QED BY <1>8, <3>1, <3>2
  <2>2. ASSUME NEW j \in 1 .. n + 1, NEW k \in 1 .. n + 1, pending'[j].id = pending'[k].id
        PROVE  j = k
    <3>1. CASE j \in 1 .. n /\ k \in 1 .. n
      BY <1>7, <2>0, <2>2, <3>1
    <3>2. CASE j \in 1 .. n /\ k = n + 1
      BY <1>3, <1>4, <1>6, <1>7, <2>2, <3>2
    <3>3. CASE j = n + 1 /\ k \in 1 .. n
      BY <1>3, <1>4, <1>6, <1>7, <2>2, <3>3
    <3> QED BY <1>8, <3>1, <3>2, <3>3
  <2>3. ASSUME NEW o \in Paths, Closing(o)'
        PROVE  o = p /\ proc'[p].rch = r /\ ~ Answered(o)'
    <3>1. o = p
      BY <1>14, <2>3 DEF Closing
    <3>2. proc'[p].rch = r
      BY <1>0, <1>2, <2>3, <3>1 DEF Closing
    <3> QED BY <1>4, <1>14, <3>1, <3>2 DEF Answered
  <2>4. ASSUME NEW o \in Paths, Closing(o)', NEW k \in 1 .. n + 1,
               pending'[k].id = rch'[proc'[o].rch].id
        PROVE  pending'[k].rch = proc'[o].rch /\ k = n + 1
    <3>1. o = p /\ proc'[p].rch = r
      BY <2>3, <2>4
    <3>2. pending'[k].id = lastId'
      BY <1>4, <1>14, <2>4, <3>1
    <3>3. k = n + 1
      BY <1>3, <1>4, <1>7, <1>8, <3>2
    <3> QED BY <1>6, <1>7, <3>1, <3>3
  <2>5. \A o \in Paths : proc'[o].pc \notin {"last", "cleanup"}
    BY <1>2, <1>14
  <2>6. ASSUME "late" \in env, NEW k \in 1 .. n + 1
        PROVE  Gap(pending[k].id)' = Len(pending') - k
    <3>1. \A i \in Ids : Gap(i)' = IF i = lastId' THEN 0 ELSE Gap(i) + 1
      BY <1>1, <1>3, GapMoves
    <3>2. CASE k = n + 1
      <4>1. PICK i : i = lastId'
        OBVIOUS
      <4>2. i \in Ids /\ pending'[k].id = i
        BY <1>5, <1>6, <1>7, <3>2, <4>1
      <4>3. Gap(i)' = 0
        BY <3>1, <4>1, <4>2
      <4>4. Len(pending') - k = 0
        BY <1>3, <1>7, <3>2
      <4> QED BY <4>2, <4>3, <4>4 DEF Gap
    <3>3. CASE k \in 1 .. n
      <4>1. PICK i : i = pending[k].id
        OBVIOUS
      <4>2. i \in Ids /\ i # lastId' /\ pending'[k].id = i
        BY <1>3, <1>4, <1>7, <3>3, <4>1, Types DEF IInv, Typed
      <4>3. Gap(i) = n - k
        BY <1>3, <1>15, <2>6, <3>3, <4>1 DEF IInv, Requests
      <4>4. Gap(i)' = (n - k) + 1
        BY <3>1, <4>2, <4>3
      <4>5. (n - k) + 1 = (n + 1) - k
        BY <1>3, <3>3
      <4> QED BY <1>7, <4>2, <4>4, <4>5 DEF Gap
    <3> QED BY <1>8, <3>2, <3>3
  <2> QED BY <1>7, <1>14, <2>1, <2>2, <2>3, <2>4, <2>5, <2>6 DEF Requests
<1>16. ASSUME AllSent PROVE Sent'
  <2>0. /\ Sent /\ Handlers /\ Listed \subseteq Rchs /\ \A s \in Rchs : rch[s].path \in Paths \cup {NoPath}
        /\ Requests
    BY Types DEF IInv, Typed
  <2>1. \A s \in Listed : rch[s].path \in Paths
    BY <2>0 DEF Handlers
  <2>2. \A s \in Listed : \/ \E k \in DOMAIN pending : pending[k].rch = s
                          \/ rch[s].valid # 0
                          \/ s = r
    BY <1>0, <1>14, <1>16, <2>0, <2>1 DEF Sent
  <2>3. ASSUME NEW s \in Listed
        PROVE  (\E k \in 1 .. n + 1 : pending'[k].rch = s) \/ rch[s].valid # 0
    BY <1>3, <1>6, <1>7, <1>9, <2>2
  <2>4. ASSUME NEW k \in 1 .. n + 1, NEW s \in Listed, rch[s].id = pending'[k].id
        PROVE  s = pending'[k].rch
    <3>1. CASE k \in 1 .. n
      BY <1>3, <1>7, <1>16, <2>0, <2>4, <3>1 DEF Sent
    <3>2. CASE k = n + 1
      <4>1. rch[s].id = lastId' /\ pending'[k].rch = r
        BY <1>6, <1>7, <2>4, <3>2
      <4>2. \A j \in DOMAIN pending : pending[j].rch # s
        BY <1>4, <1>16, <2>0, <4>1 DEF Requests, AtCard, AllSent
      <4>3. rch[s].valid = 0
        BY <1>0, <1>3, <1>4, <1>16, <2>0, <4>1 DEF Sent
      <4> QED BY <2>2, <4>1, <4>2, <4>3
    <3> QED BY <1>8, <3>1, <3>2
  <2>5. \A o \in Paths : proc'[o].pc # "send"
    BY <1>2, <1>14
  <2> QED BY <1>7, <1>14, <2>3, <2>4, <2>5 DEF Sent
<1>17. Requests' /\ Sent'
  BY <1>14, <1>15, <1>16 DEF Requests, Sent, AllSent
<1> QED BY <1>2, <1>12, <1>13, <1>17 DEF IInv

\* With a frame for every handler the card has one when a message is built.
LEMMA FrameFree ==
    ASSUME IInv, NEW p \in Paths, At(p, "send"), AllSent
    PROVE  Len(pending) < Frames
<1>1. PICK r \in Rchs : r = proc[p].rch
  BY Here DEF At, Idle
<1>2. \A k \in DOMAIN pending : pending[k].id # rch[r].id
  <2>1. HoldOK(p) /\ proc[p].pc = "send"
    BY Here DEF At
  <2> QED BY <1>1, <2>1 DEF HoldOK
<1>3. \A k \in DOMAIN pending : pending[k].rch # r
  BY <1>2 DEF IInv, Requests, AllSent, AtCard
<1>4. Len(pending) < NHandlers
  BY <1>3, HandlerLeft DEF AllSent
<1>5. Frames = InFrames /\ NHandlers <= InFrames /\ Len(pending) \in Nat
  BY Types DEF AllSent, Frames, IInv, Typed
<1> QED BY <1>4, <1>5, Sizes

\* A message is not sent, for which all frames have to be at the card.
LEMMA SendNoFrameStep ==
    ASSUME IInv, NEW p \in Paths, SendNoFrame(p), env' = env
    PROVE  IInv'
<1>0. PICK r : r = proc[p].rch
  OBVIOUS
<1>1. /\ At(p, "send") /\ Len(pending) >= Frames /\ AfterSend(p)
      /\ UNCHANGED <<pools, rch, list, lastId, pending, mutex, badDel>>
  BY DEF SendNoFrame
<1>2. /\ Stays(p) /\ cpu' = NoPath /\ proc' \in [Paths -> ProcRecord]
      /\ proc'[p].op = proc[p].op /\ proc'[p].used = TRUE /\ proc[p].used = TRUE
      /\ proc'[p].pc \in {"open", "wait"}
      /\ proc'[p].pc = "wait" => proc'[p].rch = proc[p].rch
      /\ HoldOK(p)'
      /\ Places' /\ Turns' /\ Handlers' /\ Mappings'
  BY <1>1, SendMoves
<1>3. proc[p].pc = "send" /\ r \in Rchs /\ HoldOK(p)
  BY <1>0, <1>1, Here DEF At, Idle
<1>4. rch[r].valid = 0 /\ \A k \in DOMAIN pending : pending[k].id # rch[r].id
  BY <1>0, <1>3 DEF HoldOK
<1>5. Typed' /\ Regular(env)'
  BY <1>1, <1>2, Sizes DEF IInv, Typed, CoreOK, Regular, ProcRecord, Stays, pools
<1>6. Holds'
  <2>1. proc'[p].pc \notin Raw
    BY <1>2 DEF Raw
  <2> QED BY <1>1, <1>2, <2>1, SendHolds
<1>7. /\ \A o \in Paths : o # p => proc'[o] = proc[o] /\ ~ Closing(o)
                                   /\ proc[o].pc \notin {"last", "cleanup"}
      /\ Listed' = Listed /\ rch' = rch /\ env' = env /\ pending' = pending /\ lastId' = lastId
  BY <1>1, <1>2, SendAlone DEF Stays, Same, Listed
<1>8. ASSUME "close_signal" \notin env PROVE Requests'
  <2>0. Requests /\ \A k \in DOMAIN pending : pending[k].path \in Paths
    BY Types DEF IInv, Typed
  <2>1. ASSUME NEW k \in DOMAIN pending PROVE AtCard(pending[k])'
    <3>1. AtCard(pending[k])
      BY <1>8, <2>0, <2>1 DEF Requests
    <3>2. proc'[pending[k].path].used = TRUE
      BY <1>2, <1>7, <2>0, <2>1, <3>1 DEF AtCard
    <3> QED BY <1>7, <3>1, <3>2 DEF AtCard
  <2>2. ASSUME NEW o \in Paths, Closing(o)'
        PROVE  o = p /\ proc'[p].rch = r /\ ~ Answered(o)'
    <3>1. o = p
      BY <1>7, <2>2 DEF Closing
    <3>2. proc'[p].rch = r
      BY <1>0, <1>2, <2>2, <3>1 DEF Closing
    <3> QED BY <1>4, <1>7, <3>1, <3>2 DEF Answered
  <2>3. \A o \in Paths : proc'[o].pc \notin {"last", "cleanup"}
    BY <1>2, <1>7
  <2>4. "late" \in env => \A k \in DOMAIN pending : Gap(pending[k].id)' = Len(pending) - k
    BY <1>7, <1>8, <2>0 DEF Requests, Gap
  <2> QED BY <1>4, <1>7, <1>8, <2>0, <2>1, <2>2, <2>3, <2>4 DEF Requests
<1>9. ~ AllSent
  <2>1. ~ (Len(pending) < Frames)
    <3>1. Len(pending) \in Nat /\ Frames \in Nat
      BY Types, Sizes DEF IInv, Typed, Frames
    <3> QED BY <1>1, <3>1
  <2> QED BY <1>1, <2>1, FrameFree
<1>10. Requests' /\ Sent'
  BY <1>7, <1>8, <1>9 DEF Requests, Sent, AllSent
<1> QED BY <1>2, <1>5, <1>6, <1>10 DEF IInv

-----------------------------------------------------------------------------
\* The requests at the card after an answer are those before it, without the
\* one that was answered, in their order.
LEMMA Fewer ==
    ASSUME IInv, NEW k \in DOMAIN pending, pending' = Without(pending, k)
    PROVE  /\ pending' \in Seq(Request) /\ Len(pending') = Len(pending) - 1
           /\ DOMAIN pending' = 1 .. Len(pending) - 1
           /\ \A j \in DOMAIN pending' :
                 \E i \in DOMAIN pending : /\ i # k /\ pending'[j] = pending[i]
                                           /\ i = IF j < k THEN j ELSE j + 1
           /\ \A i \in DOMAIN pending : i # k =>
                 \E j \in DOMAIN pending' : pending'[j] = pending[i]
<1>1. /\ pending \in Seq(Request) /\ Len(pending) \in Nat /\ DOMAIN pending = 1 .. Len(pending)
  BY Types DEF IInv, Typed
<1>2. /\ pending' \in Seq(Request) /\ Len(pending') = Len(pending) - 1
      /\ DOMAIN pending' = 1 .. Len(pending) - 1
      /\ \A i \in 1 .. Len(pending) - 1 :
            pending'[i] = IF i < k THEN pending[i] ELSE pending[i + 1]
  BY <1>1, WithoutFacts
<1>3. ASSUME NEW j \in 1 .. Len(pending) - 1
      PROVE  \E i \in DOMAIN pending : /\ i # k /\ pending'[j] = pending[i]
                                       /\ i = IF j < k THEN j ELSE j + 1
  <2>1. j \in 1 .. Len(pending) /\ j + 1 \in 1 .. Len(pending) /\ k \in Int /\ j \in Int
    BY <1>1
  <2>2. CASE j < k
    BY <1>1, <1>2, <2>1, <2>2
  <2>3. CASE ~ (j < k)
    <3>1. j + 1 # k /\ pending'[j] = pending[j + 1]
      BY <1>2, <2>1, <2>3
    <3> QED BY <1>1, <2>1, <2>3, <3>1
  <2> QED BY <2>2, <2>3
<1>4. ASSUME NEW i \in DOMAIN pending, i # k
      PROVE  \E j \in 1 .. Len(pending) - 1 : pending'[j] = pending[i]
  <2>1. i \in 1 .. Len(pending) /\ k \in 1 .. Len(pending) /\ i \in Int /\ k \in Int
    BY <1>1
  <2>2. CASE i < k
    <3>1. i \in 1 .. Len(pending) - 1
      BY <1>1, <2>1, <2>2
    <3> QED BY <1>2, <2>2, <3>1
  <2>3. CASE i > k
    <3>1. i - 1 \in 1 .. Len(pending) - 1 /\ ~ (i - 1 < k) /\ (i - 1) + 1 = i
      BY <1>1, <2>1, <2>3
    <3>2. pending'[i - 1] = pending[(i - 1) + 1]
      BY <1>2, <3>1
    <3> QED BY <3>1, <3>2
  <2> QED BY <1>4, <2>1, <2>2, <2>3
<1> QED BY <1>2, <1>3, <1>4

\* The card answers the requests of a path in their order.
InOrder(k) == \A j \in 1 .. k - 1 : pending[j].path # pending[k].path

\* When one path is open the oldest request is answered first.
LEMMA OldestFirst ==
    ASSUME IInv, NEW k \in DOMAIN pending, InOrder(k), "ab" \notin env, "close_signal" \notin env
    PROVE  k = 1
<1>1. Len(pending) \in Nat /\ DOMAIN pending = 1 .. Len(pending) /\ k \in 1 .. Len(pending)
  BY Types DEF IInv, Typed
<1>2. ASSUME NEW i \in DOMAIN pending
      PROVE  pending[i].path \in Paths /\ proc[pending[i].path].pc # "closed"
  <2>1. pending[i].path \in Paths /\ pending[i].rch \in Rchs /\ AtCard(pending[i])
    BY Types DEF IInv, Typed, Requests
  <2> QED BY <2>1, Sizes DEF AtCard, IInv, Handlers
<1> SUFFICES ASSUME k # 1 PROVE FALSE
  OBVIOUS
<1>3. 1 \in DOMAIN pending /\ 1 \in 1 .. k - 1
  BY <1>1
<1>4. pending[1].path = pending[k].path
  BY <1>2, <1>3, Alone
<1> QED BY <1>3, <1>4 DEF InOrder

\* Handler r, which the answer to request k finds, is recycled or gets its result.
Settles(k, r) ==
    /\ pending' = Without(pending, k) /\ UNCHANGED <<lastId, mutex, proc, cpu, env>>
    /\ \A s \in Rchs : s # r => rch'[s] = rch[s]
    /\ rch'[r].id = rch[r].id
    /\ Listed' \subseteq Listed /\ Listed \subseteq Listed' \cup {r}
    /\ r \in Listed' => rch'[r].valid # 0 /\ rch'[r].path = rch[r].path

\* The requests that are left, when the answer found its handler.
LEMMA SettlesRequests ==
    ASSUME IInv, NEW k \in DOMAIN pending, InOrder(k), NEW r \in Listed,
           rch[r].id = pending[k].id, Settles(k, r)
    PROVE  Requests' /\ Sent'
<1> DEFINE n == Len(pending)
<1>1. /\ n \in Nat /\ DOMAIN pending = 1 .. n /\ k \in 1 .. n /\ r \in Rchs /\ Listed \subseteq Rchs
      /\ \A i \in DOMAIN pending : /\ pending[i].path \in Paths /\ pending[i].rch \in Rchs
                                   /\ pending[i].id \in Ids
      /\ \A o \in Paths : proc[o].pc \notin Idle => proc[o].rch \in Rchs
      /\ Requests /\ Sent /\ Handlers /\ \A s \in Rchs : rch[s].path \in Paths \cup {NoPath}
  BY Types, Here DEF IInv, Typed
<1>2. /\ \A s \in Rchs : s # r => rch'[s] = rch[s]
      /\ \A s \in Rchs : rch'[s].id = rch[s].id
      /\ Listed' \subseteq Listed /\ Listed \subseteq Listed' \cup {r}
      /\ r \in Listed' => rch'[r].valid # 0 /\ rch'[r].path = rch[r].path
      /\ env' = env /\ lastId' = lastId /\ proc' = proc /\ pending' = Without(pending, k)
  BY DEF Settles
<1>3. /\ Len(pending') = n - 1 /\ DOMAIN pending' = 1 .. n - 1
      /\ \A j \in DOMAIN pending' :
            \E i \in DOMAIN pending : /\ i # k /\ pending'[j] = pending[i]
                                      /\ i = IF j < k THEN j ELSE j + 1
      /\ \A i \in DOMAIN pending : i # k => \E j \in DOMAIN pending' : pending'[j] = pending[i]
  BY <1>2, Fewer
<1>4. ASSUME "close_signal" \notin env PROVE Requests'
  <2>1. /\ \A i \in DOMAIN pending : AtCard(pending[i])
        /\ \A i, j \in DOMAIN pending : pending[i].id = pending[j].id => i = j
        /\ pending # <<>>
    BY <1>1, <1>4 DEF Requests
  <2>2. ASSUME NEW i \in DOMAIN pending, i # k PROVE pending[i].rch # r
    BY <2>1, <2>2 DEF AtCard
  <2>3. ASSUME NEW j \in DOMAIN pending' PROVE AtCard(pending[j])'
    <3>1. PICK i \in DOMAIN pending : i # k /\ pending'[j] = pending[i]
      BY <1>3, <2>3
    <3>2. pending[i].rch # r /\ AtCard(pending[i])
      BY <2>1, <2>2, <3>1
    <3> QED BY <1>1, <1>2, <3>1, <3>2 DEF AtCard
  <2>4. ASSUME NEW i \in DOMAIN pending', NEW j \in DOMAIN pending', pending'[i].id = pending'[j].id
        PROVE  i = j
    <3>1. PICK a \in DOMAIN pending : pending'[i] = pending[a] /\ a = IF i < k THEN i ELSE i + 1
      BY <1>3, <2>4
    <3>2. PICK b \in DOMAIN pending : pending'[j] = pending[b] /\ b = IF j < k THEN j ELSE j + 1
      BY <1>3, <2>4
    <3>3. a = b
      BY <2>1, <2>4, <3>1, <3>2
    <3>4. i \in Int /\ j \in Int /\ k \in Int
      BY <1>1, <1>3
    <3> QED BY <3>1, <3>2, <3>3, <3>4
  <2>5. \A o \in Paths : ~ (Closing(o) /\ Answered(o)) /\ proc[o].pc # "cleanup" /\ proc[o].pc # "last"
    <3>1. \A o \in Paths : ~ (Closing(o) /\ Answered(o)) /\ proc[o].pc # "cleanup"
      BY <1>1, <1>4, <2>1 DEF Requests
    <3>2. \A o \in Paths : proc[o].pc = "last" => Closing(o) /\ Answered(o)
      BY <1>1, <1>4 DEF Requests, Closing, Answered
    <3> QED BY <3>1, <3>2
  <2>6. ASSUME NEW o \in Paths, Closing(o), proc[o].rch = r PROVE n - 1 = 0
    <3>1. k = n
      BY <1>1, <1>4, <2>5, <2>6 DEF Requests
    <3>2. "ab" \notin env
      BY <2>6 DEF Closing, IInv, Places, PlaceOK, Regular
    <3>3. k = 1
      BY <1>4, <3>2, OldestFirst
    <3> QED BY <3>1, <3>3
  <2>7. ASSUME NEW o \in Paths, Closing(o), proc[o].rch # r
        PROVE  /\ Answered(o)' <=> Answered(o)
               /\ rch'[proc[o].rch].id = rch[proc[o].rch].id
    <3>1. proc[o].rch \in Rchs
      BY <1>1, <2>7 DEF Closing, Idle
    <3> QED BY <1>2, <2>7, <3>1 DEF Answered
  <2>9. \A o \in Paths : Closing(o)' <=> Closing(o)
    BY <1>2 DEF Closing
  <2>10. n - 1 = 0 => pending' = <<>> /\ DOMAIN pending' = {}
    <3> SUFFICES ASSUME n - 1 = 0 PROVE pending' = <<>> /\ DOMAIN pending' = {}
      OBVIOUS
    <3>1. pending' \in Seq(Request) /\ Len(pending') = 0
      BY <1>2, <1>3, Fewer
    <3>2. pending' = <<>>
      BY <3>1
    <3> QED BY <3>2
  <2>11. ASSUME NEW o \in Paths, Closing(o)', Answered(o)' PROVE pending' = <<>>
    BY <2>5, <2>6, <2>7, <2>9, <2>10, <2>11
  <2>12. ASSUME NEW o \in Paths, Closing(o)', NEW j \in DOMAIN pending',
                pending'[j].id = rch'[proc'[o].rch].id
         PROVE  pending'[j].rch = proc'[o].rch /\ j = Len(pending')
    <3>1. proc[o].rch # r
      BY <2>6, <2>9, <2>10, <2>12
    <3>2. PICK i \in DOMAIN pending : i # k /\ pending'[j] = pending[i] /\ i = IF j < k THEN j ELSE j + 1
      BY <1>3, <2>12
    <3>3. pending[i].id = rch[proc[o].rch].id
      BY <1>2, <2>7, <2>9, <2>12, <3>1, <3>2
    <3>4. pending[i].rch = proc[o].rch /\ i = n
      BY <1>1, <1>4, <2>5, <2>9, <2>12, <3>3 DEF Requests
    <3>5. j = n - 1
      BY <1>1, <1>3, <3>2, <3>4
    <3> QED BY <1>2, <1>3, <3>2, <3>4, <3>5
  <2>13. ASSUME "late" \in env, NEW j \in DOMAIN pending'
         PROVE  Gap(pending[j].id)' = Len(pending') - j
    <3>1. k = 1
      <4>1. "ab" \notin env
        BY <2>13 DEF IInv, Regular
      <4> QED BY <1>4, <4>1, OldestFirst
    <3>2. PICK i \in DOMAIN pending : pending'[j] = pending[i] /\ i = IF j < k THEN j ELSE j + 1
      BY <1>3, <2>13
    <3>3. i = j + 1
      BY <1>1, <1>3, <3>1, <3>2
    <3>4. Gap(pending[i].id) = n - i
      BY <1>1, <1>4, <2>13 DEF Requests
    <3>5. n - i = (n - 1) - j
      BY <1>1, <1>3, <3>3
    <3> QED BY <1>2, <1>3, <3>2, <3>4, <3>5 DEF Gap
  <2>14. \A o \in Paths : proc'[o].pc # "cleanup" /\ proc'[o].pc # "last"
    BY <1>2, <2>5
  <2> QED BY <1>2, <2>3, <2>4, <2>11, <2>12, <2>13, <2>14 DEF Requests
<1>5. ASSUME AllSent PROVE Sent'
  <2>1. r = pending[k].rch
    BY <1>1, <1>5 DEF Sent
  <2>2. \A s \in Listed' : s # r => s \in Listed /\ s \in Rchs /\ rch'[s] = rch[s]
    BY <1>1, <1>2
  <2>3. ASSUME NEW s \in Listed'
        PROVE  \/ \E j \in DOMAIN pending' : pending'[j].rch = s
               \/ rch'[s].valid # 0
               \/ proc'[rch'[s].path].pc = "send" /\ proc'[rch'[s].path].rch = s
    <3>1. CASE s = r
      BY <1>2, <2>3, <3>1
    <3>2. CASE s # r
      <4>1. \/ \E i \in DOMAIN pending : pending[i].rch = s
            \/ rch[s].valid # 0
            \/ proc[rch[s].path].pc = "send" /\ proc[rch[s].path].rch = s
        BY <1>1, <1>5, <2>2, <2>3, <3>2 DEF Sent
      <4>2. \A i \in DOMAIN pending : pending[i].rch = s => \E j \in DOMAIN pending' : pending'[j].rch = s
        BY <1>3, <2>1, <3>2
      <4> QED BY <1>2, <2>2, <2>3, <3>2, <4>1, <4>2
    <3> QED BY <3>1, <3>2
  <2>4. ASSUME NEW j \in DOMAIN pending', NEW s \in Listed', rch'[s].id = pending'[j].id
        PROVE  s = pending'[j].rch
    <3>1. PICK i \in DOMAIN pending : pending'[j] = pending[i]
      BY <1>3, <2>4
    <3>2. s \in Listed /\ s \in Rchs /\ rch[s].id = pending[i].id
      BY <1>1, <1>2, <2>4, <3>1
    <3> QED BY <1>1, <1>5, <3>1, <3>2 DEF Sent
  <2>5. ASSUME NEW o \in Paths, proc'[o].pc = "send", NEW s \in Listed', rch'[s].valid # 0
        PROVE  rch'[s].id # rch'[proc'[o].rch].id
    <3>1. proc[o].pc = "send" /\ proc[o].rch \in Rchs /\ proc'[o].rch = proc[o].rch
      BY <1>1, <1>2, <2>5 DEF Idle
    <3>2. rch'[proc[o].rch].id = rch[proc[o].rch].id
      BY <1>2, <3>1
    <3>3. CASE s = r
      <4>1. pending[k].id # rch[proc[o].rch].id
        <5>1. HoldOK(o)
          BY Here
        <5> QED BY <3>1, <5>1 DEF HoldOK
      <4> QED BY <1>1, <1>2, <3>1, <3>2, <3>3, <4>1
    <3>4. CASE s # r
      BY <1>1, <1>5, <2>2, <2>5, <3>1, <3>2, <3>4 DEF Sent
    <3> QED BY <3>3, <3>4
  <2> QED BY <1>2, <2>3, <2>4, <2>5 DEF Sent
<1> QED BY <1>2, <1>4, <1>5 DEF Requests, Sent, AllSent

\* Who holds a handler that an answer finds: one that reads, or one that closes
\* and waits.
LEMMA Finds ==
    ASSUME IInv, NEW k \in DOMAIN pending, NEW r \in Listed, rch[r].id = pending[k].id,
           NEW p \in Paths, proc[p].rch = r
    PROVE  \/ rch[r].handler = "read" /\ proc[p].op = "read"
           \/ rch[r].handler = "last" /\ Closing(p)
<1>1. /\ HoldOK(p) /\ PlaceOK(p) /\ proc[p].pc \in PC /\ r \in Rchs /\ proc[p].op \in Ops
  BY Here, Types DEF IInv, Typed
<1>2. rch[r].path # NoPath /\ r \in rchRes
  BY <1>1 DEF IInv, Handlers
<1>3. proc[p].pc \in Out
  <2>1. proc[p].pc \notin Idle /\ proc[p].pc # "rchClaim"
    BY <1>1, <1>2, Sizes DEF PlaceOK
  <2>2. proc[p].pc \notin Raw /\ proc[p].pc # "error"
    BY <1>1, <1>2 DEF HoldOK
  <2> QED BY <1>1, <2>1, <2>2 DEF PC, Idle, Raw, Out
<1>4. ~ Answered(p) /\ proc[p].pc # "send"
  BY <1>1, <1>2, <1>3 DEF HoldOK
<1>5. /\ proc[p].op = "close" => rch[r].handler = "last"
      /\ proc[p].op # "close" => rch[r].handler = proc[p].op
  BY <1>1, <1>3, <1>4 DEF HoldOK
<1>6. /\ proc[p].op = "read" \/ proc[p].op = "close"
      /\ proc[p].op = "close" => proc[p].pc \in {"wait", "last"}
  BY <1>1, <1>3, <1>4 DEF PlaceOK, Out, Ops
<1> QED BY <1>5, <1>6 DEF Closing

\* The handlers that give themselves back.
LEMMA ReplyRecycles ==
    ASSUME IInv, NEW k \in DOMAIN pending, InOrder(k), NEW r \in Listed, rch[r].id = pending[k].id,
           rch[r].handler # "read", pending' = Without(pending, k),
           Frees(r), rch[r].handler = "last" => rch'[r].valid = 1,
           UNCHANGED <<lastId, mutex, proc, cpu, env>>
    PROVE  IInv'
<1>1. r \in Rchs /\ proc \in [Paths -> ProcRecord] /\ rch[r].path # NoPath
  BY Types DEF IInv, Typed, Handlers
<1>2. \A p \in Paths : Apart(p, r) \/ WaitsClosed(p, r)
  BY Finds DEF Apart, WaitsClosed
<1>3. FreeStep(r)
  BY <1>1, <1>2 DEF FreeStep
<1>4. \A j \in DOMAIN pending' : \E i \in DOMAIN pending : pending'[j] = pending[i]
  BY Fewer
<1>5. Places' /\ Turns' /\ Holds' /\ Handlers' /\ Mappings'
  BY <1>1, <1>3, <1>4, FreePlaces, FreeHolds, FreeHandlers, FreeMappings
<1>6. Settles(k, r)
  BY DEF Settles, Frees
<1>7. Requests' /\ Sent'
  BY <1>6, SettlesRequests
<1>8. pending' \in Seq(Request) /\ Len(pending') <= InFrames
  <2>1. pending' \in Seq(Request) /\ Len(pending') = Len(pending) - 1
    BY Fewer
  <2>2. Len(pending) \in Nat /\ Len(pending) <= InFrames
    BY Types DEF IInv, Typed
  <2> QED BY <2>1, <2>2, Sizes
<1>9. Typed' /\ Regular(env)'
  BY <1>8 DEF FreeStep, Frees, IInv, Typed, CoreOK, Regular, ProcRecord, RchRecord, Request
<1> QED BY <1>5, <1>7, <1>9 DEF IInv

\* The assignment of rchSetSamples to the handler.
LEMMA Stored ==
    ASSUME rch \in [Rchs -> RchRecord], NEW r \in Rchs, NEW v \in {-1, 1},
           rch' = [rch EXCEPT ![r].valid = v]
    PROVE  /\ rch' \in [Rchs -> RchRecord] /\ \A s \in Rchs : s # r => rch'[s] = rch[s]
           /\ rch'[r].path = rch[r].path /\ rch'[r].kbuf = rch[r].kbuf /\ rch'[r].pool = rch[r].pool
           /\ rch'[r].id = rch[r].id /\ rch'[r].handler = rch[r].handler /\ rch'[r].valid = v
BY DEF RchRecord

\* rchSetSamples: the result of a read is stored for the process that waits.
LEMMA ReplyReads ==
    ASSUME IInv, NEW k \in DOMAIN pending, InOrder(k), NEW r \in Listed, rch[r].id = pending[k].id,
           rch[r].handler = "read", pending' = Without(pending, k),
           NEW v \in {-1, 1}, v = -1 => "error_reply" \in env, rch' = [rch EXCEPT ![r].valid = v],
           UNCHANGED <<pools, list, badDel, lastId, mutex, proc, cpu, env>>
    PROVE  IInv'
<1>1. /\ r \in Rchs /\ rch \in [Rchs -> RchRecord] /\ Handlers /\ Mappings /\ Places /\ Turns
      /\ Listed' = Listed /\ rchRes' = rchRes /\ mapRes' = mapRes
      /\ Listed \subseteq Rchs /\ \A s \in Rchs : rch[s].path \in Paths \cup {NoPath}
      /\ \A o \in Paths : proc[o].pc \notin Idle => proc[o].rch \in Rchs
  BY Types, Here DEF IInv, Typed, Listed, pools
<1>2. /\ rch' \in [Rchs -> RchRecord] /\ \A s \in Rchs : s # r => rch'[s] = rch[s]
      /\ rch'[r].path = rch[r].path /\ rch'[r].kbuf = rch[r].kbuf /\ rch'[r].pool = rch[r].pool
      /\ rch'[r].id = rch[r].id /\ rch'[r].handler = rch[r].handler /\ rch'[r].valid = v
  BY <1>1, Stored
<1>3. \A s \in Rchs : /\ rch'[s].path = rch[s].path /\ rch'[s].kbuf = rch[s].kbuf
                      /\ rch'[s].pool = rch[s].pool /\ rch'[s].id = rch[s].id
                      /\ rch'[s].handler = rch[s].handler
  BY <1>2
<1>4. Places'
  <2> SUFFICES ASSUME NEW o \in Paths PROVE PlaceOK(o)'
    BY DEF Places
  <2>1. PlaceOK(o) /\ (Bare(o)' <=> Bare(o))
    BY <1>1 DEF Places, Bare, ReadsAB, Exclusive
  <2> QED BY <1>1, <2>1 DEF PlaceOK
<1>5. Turns'
  <2>1. Exclusive' = Exclusive
    BY DEF Exclusive
  <2> QED BY <1>1, <2>1 DEF Turns
<1>6. \A j \in DOMAIN pending' : \E i \in DOMAIN pending : pending'[j] = pending[i]
  BY Fewer
<1>7. Holds'
  <2> SUFFICES ASSUME NEW o \in Paths PROVE HoldOK(o)'
    BY DEF Holds
  <2>1. HoldOK(o) /\ proc'[o] = proc[o] /\ (ReadsAB(o)' <=> ReadsAB(o))
    BY Here DEF ReadsAB, Exclusive
  <2>2. CASE proc[o].pc \in Idle
    BY <2>1, <2>2 DEF HoldOK, Idle, Out, Raw
  <2>3. CASE proc[o].pc \notin Idle /\ proc[o].rch # r
    <3>1. rch'[proc[o].rch] = rch[proc[o].rch]
      BY <1>1, <1>2, <2>3
    <3>2. Answered(o)' <=> Answered(o)
      BY <2>1, <3>1 DEF Answered
    <3>3. proc[o].pc = "send" => \A j \in DOMAIN pending' : pending'[j].id # rch[proc[o].rch].id
      BY <1>6, <2>1 DEF HoldOK
    <3>4. CASE proc[o].pc \in Raw
      BY <1>1, <2>1, <3>1, <3>4 DEF HoldOK, Raw, Out
    <3>5. CASE proc[o].pc \notin Raw
      BY <1>1, <2>1, <3>1, <3>2, <3>3, <3>5 DEF HoldOK
    <3> QED BY <3>4, <3>5
  <2>4. CASE proc[o].rch = r
    <3>1. proc[o].op = "read"
      BY <2>4, Finds
    <3>2. ~ Answered(o) /\ ~ Answered(o)'
      BY <2>1, <3>1 DEF Answered
    <3>3. proc[o].pc # "send"
      BY <2>1, <2>4 DEF HoldOK
    <3>4. proc[o].pc \notin Raw
      BY <1>1, <2>1, <2>4 DEF HoldOK, Handlers
    <3> QED BY <1>1, <1>2, <2>1, <2>4, <3>1, <3>2, <3>3, <3>4 DEF HoldOK
  <2> QED BY <2>2, <2>3, <2>4
<1>8. Handlers'
  <2>1. \A s \in Listed : s \in Rchs /\ (rch'[s].valid # 0 => rch'[s].handler = "read")
    BY <1>1, <1>2 DEF Handlers
  <2>2. \A s \in Rchs : rch'[s].valid = -1 => "error_reply" \in env
    BY <1>1, <1>2 DEF Handlers
  <2>3. \A s \in Listed : rch'[s].path # NoPath
    BY <1>1, <1>3 DEF Handlers
  <2>4. \A s \in Rchs : rch'[s].path # NoPath =>
           /\ s \in rchRes /\ proc[rch'[s].path].pc # "closed"
           /\ s \in Listed \/ (proc[rch'[s].path].pc = "error" /\ proc[rch'[s].path].rch = s)
    BY <1>1, <1>3 DEF Handlers
  <2>5. \A s \in Listed : rch'[s].handler = "read" =>
           /\ proc[rch'[s].path].rch = s
           /\ proc[rch'[s].path].pc \in Out /\ proc[rch'[s].path].op = "read"
    BY <1>1, <1>3 DEF Handlers
  <2>6. \A s \in Rchs : rch'[s].kbuf \in Maps => rch'[s].pool = TRUE
    BY <1>1, <1>3 DEF Handlers
  <2>7. Once(list') /\ ("error_reply" \notin env /\ "close_signal" \notin env => badDel' = FALSE)
    BY <1>1 DEF Handlers
  <2> QED BY <1>1, <2>1, <2>2, <2>3, <2>4, <2>5, <2>6, <2>7 DEF Handlers
<1>9. Mappings'
  <2>1. \A s \in Rchs, m \in Maps : Used(s, m)' <=> Used(s, m)
    BY <1>3 DEF Used
  <2> QED BY <1>1, <2>1 DEF Mappings
<1>10. Settles(k, r)
  BY <1>1, <1>2 DEF Settles
<1>11. Requests' /\ Sent'
  BY <1>10, SettlesRequests
<1>12. pending' \in Seq(Request) /\ Len(pending') <= InFrames
  <2>1. pending' \in Seq(Request) /\ Len(pending') = Len(pending) - 1
    BY Fewer
  <2>2. Len(pending) \in Nat /\ Len(pending) <= InFrames
    BY Types DEF IInv, Typed
  <2> QED BY <2>1, <2>2, Sizes
<1>13. Typed' /\ Regular(env)'
  BY <1>2, <1>12 DEF IInv, Typed, CoreOK, Regular, RchRecord, Request, pools
<1> QED BY <1>4, <1>5, <1>7, <1>8, <1>9, <1>11, <1>13 DEF IInv

\* An answer that finds no handler: its release was interrupted.
LEMMA ReplyLost ==
    ASSUME IInv, NEW k \in DOMAIN pending, pending' = Without(pending, k),
           Match(pending[k].id) = {},
           UNCHANGED <<pools, rch, list, badDel, lastId, mutex, proc, cpu, env>>
    PROVE  IInv'
<1>1. Listed' = Listed /\ rchRes' = rchRes /\ mapRes' = mapRes
  BY DEF Listed, pools
<1>2. "close_signal" \in env
  <2>1. \A r \in Listed : rch[r].id # pending[k].id
    BY DEF Match, Listed
  <2> QED BY <2>1 DEF IInv, Requests, AtCard
<1>3. \A j \in DOMAIN pending' : \E i \in DOMAIN pending : pending'[j] = pending[i]
  BY Fewer
<1>4. Holds'
  <2> SUFFICES ASSUME NEW o \in Paths PROVE HoldOK(o)'
    BY DEF Holds
  <2>1. /\ HoldOK(o) /\ proc'[o] = proc[o] /\ (ReadsAB(o)' <=> ReadsAB(o))
        /\ Answered(o)' <=> Answered(o)
    BY Here DEF ReadsAB, Exclusive, Answered
  <2>2. proc[o].pc = "send" => \A j \in DOMAIN pending' : pending'[j].id # rch[proc[o].rch].id
    BY <1>3, <2>1 DEF HoldOK
  <2> QED BY <1>1, <2>1, <2>2 DEF HoldOK
<1>5. Places'
  <2> SUFFICES ASSUME NEW o \in Paths PROVE PlaceOK(o)'
    BY DEF Places
  <2>1. PlaceOK(o) /\ (Bare(o)' <=> Bare(o))
    BY Here DEF Bare, ReadsAB, Exclusive
  <2> QED BY <1>1, <2>1 DEF PlaceOK
<1>6. Turns'
  <2>1. Exclusive' = Exclusive
    BY DEF Exclusive
  <2> QED BY <2>1 DEF IInv, Turns
<1>7. Handlers' /\ Mappings'
  <2>1. \A s \in Rchs, m \in Maps : Used(s, m)' <=> Used(s, m)
    BY DEF Used
  <2>2. Handlers /\ Mappings
    BY DEF IInv
  <2>3. Handlers'
    BY <1>1, <2>2 DEF Handlers
  <2> QED BY <1>1, <2>1, <2>2, <2>3 DEF Mappings
<1>8. Requests' /\ Sent'
  BY <1>2 DEF Requests, Sent, AllSent
<1>9. pending' \in Seq(Request) /\ Len(pending') <= InFrames
  <2>1. pending' \in Seq(Request) /\ Len(pending') = Len(pending) - 1
    BY Fewer
  <2>2. Len(pending) \in Nat /\ Len(pending) <= InFrames
    BY Types DEF IInv, Typed
  <2> QED BY <2>1, <2>2, Sizes
<1>10. Typed' /\ Regular(env)'
  BY <1>9 DEF IInv, Typed, CoreOK, Regular, Request, pools
<1> QED BY <1>4, <1>5, <1>6, <1>7, <1>8, <1>10 DEF IInv

\* What an answer does: it is lost, stores the result of a read in the handler
\* it finds, or gives that handler back.
Loses(k) == Match(pending[k].id) = {} /\ UNCHANGED <<pools, rch, list, badDel>>
Stores(r) ==
    /\ rch[r].handler = "read" /\ UNCHANGED <<pools, list, badDel>>
    /\ \E v \in {-1, 1} :
          (v = -1 => "error_reply" \in env) /\ rch' = [rch EXCEPT ![r].valid = v]
GivesBack(r) ==
    rch[r].handler # "read" /\ Frees(r) /\ (rch[r].handler = "last" => rch'[r].valid = 1)

\* There are no other answers.
LEMMA ReplyCases ==
    ASSUME IInv, CardReply
    PROVE  /\ UNCHANGED <<lastId, mutex, proc, cpu, env>>
           /\ \E k \in DOMAIN pending :
                 /\ InOrder(k) /\ pending' = Without(pending, k)
                 /\ \/ Loses(k)
                    \/ \E r \in Listed :
                          rch[r].id = pending[k].id /\ (Stores(r) \/ GivesBack(r))
<1>1. PICK k \in 1 .. InFrames, ok \in BOOLEAN : Reply(k, ok)
  BY DEF CardReply
<1>2. /\ k \in DOMAIN pending /\ InOrder(k) /\ (ok \/ "error_reply" \in env)
      /\ pending' = Without(pending, k)
      /\ UNCHANGED <<lastId, mutex, proc, cpu, env>>
  BY <1>1 DEF Reply, Answer, CardReply, InOrder, Without
<1>3. CASE Match(pending[k].id) = {}
  <2>1. UNCHANGED <<pools, rch, list, badDel>>
    BY <1>1, <1>3 DEF Reply
  <2> QED BY <1>2, <1>3, <2>1 DEF Loses
<1>4. CASE Match(pending[k].id) # {}
  <2> DEFINE m == Match(pending[k].id)
             a == CHOOSE i \in m : \A j \in m : i <= j
  <2>1. PICK r : r = list[a]
    OBVIOUS
  <2>2. Handle(r, ok)
    BY <1>1, <1>4, <2>1 DEF Reply
  <2>3. a \in m
    <3>1. m \in SUBSET Nat
      <4>1. list \in Seq(Rchs)
        BY DEF IInv, Typed, CoreOK
      <4> QED BY <4>1 DEF Match
    <3> QED BY <1>4, <3>1, Least
  <2>4. r \in Listed /\ rch[r].id = pending[k].id
    BY <2>1, <2>3 DEF Match, Listed
  <2>5. /\ r \in Rchs /\ rch \in [Rchs -> RchRecord] /\ rch[r].path # NoPath
    BY <2>4, Types DEF IInv, Typed, Handlers
  <2>6. CASE rch[r].handler = "read"
    <3>1. rch' = rchSetSamples(r, ok) /\ UNCHANGED <<pools, list, badDel>>
      BY <2>2, <2>5, <2>6, Zenon DEF Handle
    <3>2. PICK v \in {-1, 1} : v = IF ok THEN 1 ELSE -1
      OBVIOUS
    <3>3. rch' = [rch EXCEPT ![r].valid = v] /\ (v = -1 => "error_reply" \in env)
      BY <1>2, <3>1, <3>2 DEF rchSetSamples
    <3> QED BY <1>2, <2>4, <2>6, <3>1, <3>3 DEF Stores
  <2>7. CASE rch[r].handler = "last"
    <3>1. PICK h : h = [rch EXCEPT ![r].valid = 1]
      OBVIOUS
    <3>2. Recycle(h, r)
      <4>1. rch[r].handler # "read"
        BY <2>7
      <4>2. HandleLast(r)
        BY <2>2, <2>7, <4>1, Zenon DEF Handle
      <4> QED BY <3>1, <4>2 DEF HandleLast
    <3>3. /\ h \in [Rchs -> RchRecord] /\ \A s \in Rchs : s # r => h[s] = rch[s]
          /\ h[r].path = rch[r].path /\ h[r].kbuf = rch[r].kbuf /\ h[r].pool = rch[r].pool
          /\ h[r].id = rch[r].id /\ h[r].valid = 1
      BY <2>5, <3>1 DEF RchRecord
    <3>4. Frees(r) /\ rch'[r].valid = 1
      BY <2>5, <3>2, <3>3, RecycleFrees
    <3> QED BY <1>2, <2>4, <2>7, <3>4 DEF GivesBack
  <2>8. CASE rch[r].handler # "read" /\ rch[r].handler # "last"
    <3>1. Recycle(rch, r)
      BY <2>2, <2>8, Zenon DEF Handle
    <3>2. Frees(r)
      BY <2>5, <3>1, RecycleFrees
    <3> QED BY <1>2, <2>4, <2>8, <3>2 DEF GivesBack
  <2> QED BY <2>6, <2>7, <2>8
<1> QED BY <1>3, <1>4

\* The tasklet handles an answer of the card.
LEMMA ReplyStep ==
    ASSUME IInv, CardReply
    PROVE  IInv'
<1>1. UNCHANGED <<lastId, mutex, proc, cpu, env>>
  BY ReplyCases
<1>2. PICK k \in DOMAIN pending :
         /\ InOrder(k) /\ pending' = Without(pending, k)
         /\ \/ Loses(k)
            \/ \E r \in Listed : rch[r].id = pending[k].id /\ (Stores(r) \/ GivesBack(r))
  BY ReplyCases
<1>3. CASE Loses(k)
  BY <1>1, <1>2, <1>3, ReplyLost DEF Loses
<1>4. ASSUME NEW r \in Listed, rch[r].id = pending[k].id, Stores(r) PROVE IInv'
  <2>1. PICK v \in {-1, 1} :
           (v = -1 => "error_reply" \in env) /\ rch' = [rch EXCEPT ![r].valid = v]
    BY <1>4 DEF Stores
  <2> QED BY <1>1, <1>2, <1>4, <2>1, ReplyReads DEF Stores
<1>5. ASSUME NEW r \in Listed, rch[r].id = pending[k].id, GivesBack(r) PROVE IInv'
  BY <1>1, <1>2, <1>5, ReplyRecycles DEF GivesBack
<1> QED BY <1>2, <1>3, <1>4, <1>5

-----------------------------------------------------------------------------
\* A step that leaves the variables of IInv alone.
CoreSame ==
    /\ rchRes' = rchRes /\ rchCur' = rchCur /\ mapRes' = mapRes /\ mapCur' = mapCur /\ rch' = rch
    /\ list' = list /\ lastId' = lastId /\ pending' = pending /\ mutex' = mutex /\ proc' = proc
    /\ cpu' = cpu /\ badDel' = badDel /\ env' = env
LEMMA CoreKept ==
    ASSUME IInv, CoreSame
    PROVE  IInv'
<1>1. Typed' /\ Regular(env)' /\ Places' /\ Turns'
  BY DEF CoreSame, IInv, Typed, CoreOK, Regular, Places, PlaceOK, Turns, Bare, ReadsAB, Exclusive
<1>2. Listed' = Listed
  BY DEF CoreSame, Listed
<1>3. Holds'
  BY <1>2 DEF CoreSame, IInv, Holds, HoldOK, Answered, ReadsAB, Exclusive
<1>4. Handlers' /\ Mappings'
  BY <1>2 DEF CoreSame, IInv, Handlers, Mappings, Used
<1>5. Requests' /\ Sent'
  BY <1>2 DEF CoreSame, IInv, Requests, Sent, AllSent, AtCard, Closing, Answered, Gap
<1> QED BY <1>1, <1>3, <1>4, <1>5 DEF IInv

-----------------------------------------------------------------------------
(***************************************************************************)
(* A process in i2o_recycleRch, between the test of self->path and what    *)
(* follows.  No other process runs, but the tasklet may.                   *)
(***************************************************************************)

\* The handler that release found on the list is still there, or the tasklet has
\* recycled it: then the release had not waited for the card.
TrappedOK(p, r) ==
    \/ r \in Listed /\ rch[r].path = p
    \/ /\ "close_signal" \in env /\ rch[r].path = NoPath
       /\ "alloc_timeout" \notin env => Spent(r)

\* Where the process is, which handler it recycles, and what the test has found:
\* for all but the cleanup of a release this is still so.
RecycleOK(p) ==
    Recycling(p) =>
      /\ inRecycle[p].rch \in Rchs
      /\ \A o \in Paths : Recycling(o) => o = p
      /\ \/ /\ proc[p].pc \in {"noMap", "copy", "error", "last"}
            /\ inRecycle[p].rch = proc[p].rch
            /\ proc[p].pc = "last" => Answered(p)
            /\ inRecycle[p].at = "remove" <=> proc[p].pc \in {"copy", "error"}
         \/ /\ proc[p].pc = "cleanup" /\ inRecycle[p].at = "remove"
            /\ TrappedOK(p, inRecycle[p].rch)

\* Without a second processor the tasklet has no steps of its own.
Recycled ==
    /\ inRecycle \in [Paths -> [at : RecyclePC, rch : Rchs \cup {NoRch}]] /\ bh = NoReply
    /\ \A p \in Paths : RecycleOK(p)

\* A process that takes another step is not in i2o_recycleRch, and nobody is.
LEMMA NobodyRecycles ==
    ASSUME IInv, NEW p \in Paths, Choice(p) \/ Step(p)
    PROVE  Runs(p) /\ \A o \in Paths : ~ Recycling(o)
<1>1. inRecycle[p].at = "out" /\ Runs(p)
  <2>1. CASE Choice(p)
    BY <2>1 DEF Choice, Open, Call, WriteEmpty, At
  <2>2. CASE Step(p)
    <3>1. CASE Alloc(p)
      BY <3>1 DEF Alloc, RchScan, RchClaim, RchSleep, RchWake, RchTimeout, MapScan, MapClaim,
         MapSleep, MapWake, MapTimeout, At
    <3>2. CASE ~ Alloc(p)
      BY <2>2, <3>2 DEF Step, Build, Send, SendNoFrame, Wait, Check, CloseLast, Release, At
    <3> QED BY <3>1, <3>2
  <2> QED BY <2>1, <2>2
<1>2. ~ Recycling(p)
  BY <1>1 DEF Recycling
<1> QED BY <1>1, <1>2 DEF Runs, IInv, Regular

\* rchRemove and the frees, of a handler that has a path or has lost it to the tasklet.
LEMMA RemoveFrees ==
    ASSUME IInv, NEW r \in Rchs, rchRemove(rch, r), PoolFree(rch, r),
           rch[r].path # NoPath \/ "close_signal" \in env
    PROVE  Frees(r)
<1>1. /\ CoreOK /\ Once(list) /\ list \in Seq(Rchs) /\ Listed = Elems(list) /\ Listed' = Elems(list')
      /\ badDel \in BOOLEAN /\ rch[r].pool \in BOOLEAN /\ rch \in [Rchs -> RchRecord]
  <2>1. CoreOK /\ Handlers
    BY DEF IInv, Typed
  <2>2. Listed' = Elems(list')
    BY DEF Listed, Elems
  <2>3. badDel \in BOOLEAN
    BY <2>1 DEF CoreOK
  <2> QED BY <2>1, <2>2, <2>3, Types DEF Handlers
<1>2. /\ rchRes' = rchRes \ {r} /\ rchCur' = rchCur /\ mapCur' = mapCur
      /\ mapRes' = IF rch[r].pool THEN mapRes \ {rch[r].kbuf} ELSE mapRes
  BY DEF PoolFree
<1>3. /\ mapRes' \subseteq mapRes
      /\ \A m \in mapRes : m \in mapRes' <=> ~ (rch[r].pool = TRUE /\ rch[r].kbuf = m)
  BY <1>1, <1>2
<1>4. /\ list' = ListDel(list, r) /\ badDel' = (badDel \/ r \notin Listed)
      /\ rch' = [rch EXCEPT ![r].path = NoPath, ![r].handler = "none"]
  BY DEF rchRemove
<1>5. list' \in Seq(Rchs) /\ Once(list') /\ Listed' = Listed \ {r}
  BY <1>1, <1>4, ListDelFacts
<1>6. badDel' \in BOOLEAN /\ (r \in Listed => badDel' = badDel)
  <2>1. CASE badDel = TRUE
    BY <1>4, <2>1, Zenon
  <2>2. CASE badDel = FALSE /\ r \in Listed
    BY <1>4, <2>2, Zenon
  <2>3. CASE badDel = FALSE /\ r \notin Listed
    BY <1>4, <2>3, Zenon
  <2> QED BY <1>1, <2>1, <2>2, <2>3
<1>7. /\ rch'[r].path = NoPath /\ rch'[r].id = rch[r].id /\ rch'[r].valid = rch[r].valid
      /\ rch'[r].kbuf = rch[r].kbuf /\ rch'[r].pool = rch[r].pool
      /\ \A s \in Rchs : s # r => rch'[s] = rch[s]
      /\ rch' \in [Rchs -> RchRecord]
  BY <1>1, <1>4, Detached
<1> QED BY <1>1, <1>2, <1>3, <1>5, <1>6, <1>7 DEF Frees

\* What the second half of i2o_recycleRch amounts to: the end of a call, the second
\* recycle of a release's handler, or a round of the cleanup.
LEMMA RestCases ==
    ASSUME IInv, Recycled, NEW p \in Paths, RecycleRest(p)
    PROVE  \/ Ends(p)
           \/ Closes(p)
           \/ \E r \in Rchs : Cleans(p, r) /\ TrappedOK(p, r)
<1> DEFINE r == inRecycle[p].rch
           l == IF proc[p].pc \in {"last", "cleanup"} THEN "cleanup" ELSE "open"
<1>1. /\ Recycling(p) /\ Runs(p)
      /\ IF inRecycle[p].at = "remove" THEN rchRemove(rch, r) ELSE UNCHANGED <<rch, list, badDel>>
      /\ PoolFree(rch, r)
      /\ proc' = [proc EXCEPT ![p].pc = l, ![p].rch = NoRch, ![p].kbuf = NoMap]
      /\ UNCHANGED <<lastId, pending, mutex, cpu>>
  BY DEF RecycleRest
<1>2. RecycleOK(p) /\ r \in Rchs
  BY <1>1 DEF Recycled, RecycleOK
<1>3. /\ PlaceOK(p) /\ HoldOK(p) /\ proc \in [Paths -> ProcRecord]
      /\ rch \in [Rchs -> RchRecord] /\ inRecycle[p].at \in {"remove", "free"}
  BY <1>1, Here, Types DEF IInv, Typed, Recycling
<1>4. Now(p, l, proc[p].op, NoRch, NoMap, proc[p].used)
  <2>1. l \in PC /\ NoRch \in Rchs \cup {NoRch} /\ NoMap \in Kbufs
    BY DEF PC, Kbufs
  <2> HIDE DEF l
  <2> QED BY <1>1, <1>3, <2>1, SetPcRchKbuf
<1> HIDE DEF r
<1>5. CASE proc[p].pc \in {"noMap", "copy", "error"}
  <2>1. r = proc[p].rch /\ (inRecycle[p].at = "remove" <=> proc[p].pc \in {"copy", "error"}) /\ l = "open"
    BY <1>1, <1>2, <1>5 DEF RecycleOK, r
  <2>2. rch[r].path # NoPath <=> proc[p].pc \in {"copy", "error"}
    <3>1. proc[p].pc = "noMap" => rch[r].path = NoPath
      BY <1>3, <2>1 DEF HoldOK, Raw
    <3>2. proc[p].pc = "error" => rch[r].path = p
      BY <1>3, <2>1 DEF HoldOK
    <3>3. proc[p].pc = "copy" => rch[r].path = p
      BY <1>3, <2>1 DEF HoldOK, Out, Answered, PlaceOK
    <3> QED BY <1>5, <3>1, <3>2, <3>3, Sizes
  <2>3. Recycle(rch, r)
    BY <1>1, <1>3, <2>1, <2>2 DEF Recycle
  <2> QED BY <1>1, <1>4, <1>5, <2>1, <2>3 DEF Ends
<1>6. CASE proc[p].pc = "last"
  <2>1. r = proc[p].rch /\ inRecycle[p].at # "remove" /\ l = "cleanup" /\ Answered(p)
    BY <1>1, <1>2, <1>6 DEF RecycleOK, r
  <2>2. rch[r].path = NoPath /\ rch[r].valid = 1 /\ proc[p].kbuf = NoMap
    BY <1>3, <1>6, <2>1 DEF HoldOK, PlaceOK, Bare, Out, Answered
  <2>3. Recycle(rch, r)
    BY <1>1, <2>1, <2>2 DEF Recycle
  <2> QED BY <1>1, <1>4, <1>6, <2>1, <2>2, <2>3 DEF Closes
<1>7. CASE proc[p].pc = "cleanup"
  <2>1. inRecycle[p].at = "remove" /\ TrappedOK(p, r) /\ l = "cleanup"
    BY <1>1, <1>2, <1>7 DEF RecycleOK, r
  <2>2. Frees(r)
    BY <1>1, <1>2, <2>1, RemoveFrees, Sizes DEF TrappedOK
  <2>3. proc'[p] = proc[p]
    <3>1. proc[p].rch = NoRch /\ proc[p].kbuf = NoMap
      BY <1>3, <1>7 DEF PlaceOK, Idle
    <3>2. proc[p] \in ProcRecord /\ proc'[p] \in ProcRecord
      BY <1>3, <1>4 DEF Now
    <3> QED BY <1>4, <1>7, <2>1, <3>1, <3>2 DEF Now, ProcRecord
  <2>4. Cleans(p, r)
    BY <1>1, <1>4, <1>7, <2>2, <2>3 DEF Cleans, Now, Same
  <2> QED BY <1>2, <2>1, <2>4
<1> QED BY <1>1, <1>2, <1>5, <1>6, <1>7 DEF RecycleOK

\* The second half of i2o_recycleRch keeps the invariant.
LEMMA RestStep ==
    ASSUME IInv, Recycled, NEW p \in Paths, RecycleRest(p), env' = env
    PROVE  IInv'
<1>1. CASE Ends(p)
  BY <1>1, ReturnStep
<1>2. CASE Closes(p)
  BY <1>2, CloseLastStep
<1>3. ASSUME NEW r \in Rchs, Cleans(p, r), TrappedOK(p, r) PROVE IInv'
  BY <1>3, CleanupOneStep DEF TrappedOK
<1> QED BY <1>1, <1>2, <1>3, RestCases

\* The steps in i2o_recycleRch keep what is said about it: afterwards only a
\* process that has just made the test is in it.
LEMMA RecycleKeeps ==
    ASSUME IInv, Recycled, NEW p \in Paths, RecycleStep(p), UNCHANGED <<env, bh>>
    PROVE  Recycled'
<1>1. /\ inRecycle \in [Paths -> [at : RecyclePC, rch : Rchs \cup {NoRch}]] /\ bh' = NoReply
      /\ \A o \in Paths : RecycleOK(o)
  BY DEF Recycled
<1>2. /\ inRecycle' \in [Paths -> [at : RecyclePC, rch : Rchs \cup {NoRch}]]
      /\ \A o \in Paths \ {p} : inRecycle'[o] = inRecycle[o]
      /\ Runs(p)
  <2>1. CASE RecycleTest(p)
    <3>1. PICK r \in Rchs :
             /\ Recycles(p, r)
             /\ inRecycle' = [inRecycle EXCEPT ![p] =
                                [at |-> IF rch[r].path # NoPath THEN "remove" ELSE "free", rch |-> r]]
      BY <2>1 DEF RecycleTest
    <3>2. Runs(p)
      BY <3>1 DEF Recycles, At
    <3>3. [at |-> IF rch[r].path # NoPath THEN "remove" ELSE "free", rch |-> r]
             \in [at : RecyclePC, rch : Rchs \cup {NoRch}]
      BY DEF RecyclePC
    <3> QED BY <1>1, <3>1, <3>2, <3>3
  <2>2. CASE RecycleRest(p)
    BY <1>1, <2>2 DEF RecycleRest, RecyclePC
  <2>3. CASE RecycleOops(p)
    BY <1>1, <2>3 DEF RecycleOops, RecyclePC
  <2> QED BY <2>1, <2>2, <2>3 DEF RecycleStep
<1>3. \A o \in Paths \ {p} : ~ Recycling(o)'
  <2>1. \A o \in Paths \ {p} : ~ Recycling(o)
    BY <1>2 DEF Runs, IInv, Regular
  <2> QED BY <1>2, <2>1 DEF Recycling
<1>4. RecycleOK(p)'
  <2>1. CASE RecycleRest(p) \/ RecycleOops(p)
    <3>1. ~ Recycling(p)'
      BY <1>1, <2>1 DEF RecycleRest, RecycleOops, Recycling
    <3> QED BY <3>1 DEF RecycleOK
  <2>2. CASE RecycleTest(p)
    <3>1. PICK r \in Rchs :
             /\ Recycles(p, r)
             /\ inRecycle' = [inRecycle EXCEPT ![p] =
                                [at |-> IF rch[r].path # NoPath THEN "remove" ELSE "free", rch |-> r]]
      BY <2>2 DEF RecycleTest
    <3>2. /\ inRecycle'[p].rch = r
          /\ inRecycle'[p].at = IF rch[r].path # NoPath THEN "remove" ELSE "free"
      BY <1>1, <3>1
    <3>3. /\ rch' = rch /\ list' = list /\ proc' = proc /\ Listed' = Listed
      BY <2>2 DEF RecycleTest, Listed
    <3>4. PlaceOK(p) /\ HoldOK(p)
      BY Here
    <3>5. CASE proc[p].pc \in {"noMap", "copy", "error"}
      <4>1. r = proc[p].rch
        BY <3>1, <3>5 DEF Recycles, At
      <4>2. rch[r].path # NoPath <=> proc[p].pc \in {"copy", "error"}
        <5>1. proc[p].pc = "noMap" => rch[r].path = NoPath
          BY <3>4, <4>1 DEF HoldOK, Raw
        <5>2. proc[p].pc = "error" => rch[r].path = p
          BY <3>4, <4>1 DEF HoldOK
        <5>3. proc[p].pc = "copy" => rch[r].path = p
          BY <3>4, <4>1 DEF HoldOK, Out, Answered, PlaceOK
        <5> QED BY <3>5, <5>1, <5>2, <5>3, Sizes
      <4> QED BY <1>3, <3>2, <3>3, <3>5, <4>1, <4>2 DEF RecycleOK
    <3>6. CASE proc[p].pc = "last"
      <4>1. r = proc[p].rch /\ rch[r].valid = 1
        BY <3>1, <3>6 DEF Recycles, At
      <4>2. Answered(p) /\ rch[r].path = NoPath
        BY <3>4, <3>6, <4>1 DEF PlaceOK, HoldOK, Answered, Out
      <4>3. Answered(p)'
        BY <3>3, <4>2 DEF Answered
      <4> QED BY <1>3, <3>2, <3>3, <3>6, <4>1, <4>2, <4>3 DEF RecycleOK
    <3>7. CASE proc[p].pc = "cleanup"
      <4>1. r \in Listed /\ rch[r].path = p
        BY <3>1, <3>7 DEF Recycles, At, Trapped, Listed
      <4>2. TrappedOK(p, r)'
        BY <3>3, <4>1 DEF TrappedOK
      <4>3. inRecycle'[p].at = "remove"
        BY <3>2, <4>1, Sizes
      <4>4. TrappedOK(p, inRecycle[p].rch)'
        BY <3>2, <4>2 DEF TrappedOK, Spent
      <4> QED BY <1>3, <3>2, <3>3, <3>7, <4>3, <4>4 DEF RecycleOK
    <3> QED BY <3>1, <3>5, <3>6, <3>7 DEF Recycles, At
  <2> QED BY <2>1, <2>2 DEF RecycleStep
<1>5. \A o \in Paths : RecycleOK(o)'
  BY <1>3, <1>4 DEF RecycleOK
<1> QED BY <1>1, <1>2, <1>5 DEF Recycled

\* A test and an oops leave everything else alone.
LEMMA TestOopsSame ==
    ASSUME NEW p \in Paths, RecycleTest(p) \/ RecycleOops(p), env' = env
    PROVE  CoreSame
BY DEF RecycleTest, RecycleOops, CoreSame, pools

\* An answer of the card between the test and what follows: it finds a handler
\* that is listed, so not one that was answered; and one that release has found
\* only if the release has not waited for it.
LEMMA ReplyRecycled ==
    ASSUME IInv, Recycled, CardReply
    PROVE  Recycled'
<1>1. /\ inRecycle' = inRecycle /\ bh' = bh /\ proc' = proc /\ env' = env
  BY ReplyCases DEF CardReply
<1>2. PICK k \in DOMAIN pending :
         \/ Loses(k)
         \/ \E r \in Listed : rch[r].id = pending[k].id /\ (Stores(r) \/ GivesBack(r))
  BY ReplyCases
<1>3. /\ rch \in [Rchs -> RchRecord] /\ Listed \subseteq Rchs
      /\ \A r \in Listed : rch[r].path # NoPath
  BY Types DEF IInv, Typed, Handlers
<1>4. PICK t \in Listed \cup {NoRch} :
         /\ \A s \in Rchs : s # t => rch'[s] = rch[s] /\ (s \in Listed => s \in Listed')
         /\ t # NoRch => /\ rch'[t].kbuf = rch[t].kbuf
                         /\ \/ rch'[t].path = NoPath
                            \/ rch[t].handler = "read" /\ rch'[t].path = rch[t].path
  <2>1. CASE Loses(k)
    <3>1. rch' = rch /\ Listed' = Listed
      BY <2>1 DEF Loses, Listed
    <3> QED BY <3>1
  <2>2. ASSUME NEW r \in Listed, Stores(r)
        PROVE  /\ \A s \in Rchs : s # r => rch'[s] = rch[s] /\ (s \in Listed => s \in Listed')
               /\ rch'[r].kbuf = rch[r].kbuf
               /\ rch[r].handler = "read" /\ rch'[r].path = rch[r].path
    <3>1. PICK v \in {-1, 1} : rch' = [rch EXCEPT ![r].valid = v]
      BY <2>2 DEF Stores
    <3>2. Listed' = Listed /\ rch[r].handler = "read"
      BY <2>2 DEF Stores, Listed
    <3> QED BY <1>3, <3>1, <3>2, Stored
  <2>3. ASSUME NEW r \in Listed, GivesBack(r)
        PROVE  /\ \A s \in Rchs : s # r => rch'[s] = rch[s] /\ (s \in Listed => s \in Listed')
               /\ rch'[r].kbuf = rch[r].kbuf /\ rch'[r].path = NoPath
    BY <2>3 DEF GivesBack, Frees
  <2> QED BY <1>2, <2>1, <2>2, <2>3
<1>5. ASSUME NEW s \in Rchs, NEW m \in Maps, Used(s, m)' PROVE Used(s, m)
  BY <1>3, <1>4, <1>5, Sizes DEF Used
<1>6. \A r \in Rchs : rch'[r].kbuf = rch[r].kbuf
  BY <1>3, <1>4, Sizes
<1>7. \A r \in Rchs : Spent(r) => Spent(r)'
  BY <1>1, <1>5, <1>6 DEF Spent
<1>8. ASSUME NEW p \in Paths PROVE RecycleOK(p)'
  <2> SUFFICES ASSUME Recycling(p)' PROVE RecycleOK(p)'
    BY DEF RecycleOK
  <2>1. /\ Recycling(p) /\ \A o \in Paths : Recycling(o)' => o = p
    BY <1>1 DEF Recycling, Recycled, RecycleOK
  <2>2. RecycleOK(p) /\ PlaceOK(p) /\ HoldOK(p)
    BY Here DEF Recycled
  <2>3. CASE proc[p].pc \in {"noMap", "copy", "error", "last"}
    <3>1. proc[p].pc = "last" => Answered(p)'
      <4> SUFFICES ASSUME proc[p].pc = "last" PROVE Answered(p)'
        OBVIOUS
      <4>1. Answered(p) /\ proc[p].rch \in Rchs
        BY <2>1, <2>2, Here DEF RecycleOK, Idle
      <4>2. rch[proc[p].rch].path = NoPath
        BY <2>2, <4>1 DEF HoldOK, Out
      <4>3. rch'[proc[p].rch] = rch[proc[p].rch]
        BY <1>3, <1>4, <4>1, <4>2, Sizes
      <4> QED BY <1>1, <4>1, <4>3 DEF Answered
    <3> QED BY <1>1, <2>1, <2>2, <2>3, <3>1 DEF RecycleOK
  <2>4. CASE proc[p].pc = "cleanup"
    <3>0. PICK r : r = inRecycle[p].rch
      OBVIOUS
    <3>1. r \in Rchs /\ inRecycle[p].at = "remove" /\ TrappedOK(p, r)
      BY <2>1, <2>2, <2>4, <3>0 DEF RecycleOK
    <3>2. "close_signal" \in env
      BY <2>4 DEF IInv, Requests
    <3>3. ASSUME rch[r].path = NoPath PROVE TrappedOK(p, r)'
      <4>1. rch'[r] = rch[r]
        BY <1>3, <1>4, <3>1, <3>3, Sizes
      <4>2. "alloc_timeout" \notin env => Spent(r)'
        BY <1>7, <3>1, <3>3, Sizes DEF TrappedOK
      <4> QED BY <1>1, <3>2, <3>3, <4>1, <4>2 DEF TrappedOK
    <3>4. ASSUME rch[r].path # NoPath PROVE TrappedOK(p, r)'
      <4>1. r \in Listed /\ rch[r].path = p
        BY <3>1, <3>4 DEF TrappedOK
      <4>2. CASE r # t
        BY <1>4, <3>1, <4>1, <4>2 DEF TrappedOK
      <4>3. CASE r = t
        <5>1. rch'[r].path = NoPath
          <6>1. rch[r].handler # "read"
            BY <2>4, <4>1 DEF IInv, Handlers, Out
          <6> QED BY <1>4, <3>1, <4>3, <6>1, Sizes
        <5>2. "alloc_timeout" \notin env => Spent(r)'
          <6> SUFFICES ASSUME "alloc_timeout" \notin env, NEW m \in Maps, rch[r].kbuf = m
                       PROVE  /\ \A s \in Rchs : ~ Used(s, m)'
                              /\ \A q \in Paths : proc'[q].pc = "build" => proc'[q].kbuf # m
            BY <1>6, <3>1 DEF Spent
          <6>1. Used(r, m)
            BY <3>4 DEF Used
          <6>2. \A s \in Rchs : Used(s, m) => s = r
            BY <3>1, <6>1 DEF IInv, Mappings
          <6>3. \A q \in Paths : proc[q].pc = "build" => proc[q].kbuf # m
            BY <3>1, <6>1 DEF IInv, Mappings
          <6>4. ~ Used(r, m)'
            BY <5>1 DEF Used
          <6> QED BY <1>1, <1>5, <6>2, <6>3, <6>4
        <5> QED BY <1>1, <3>2, <5>1, <5>2 DEF TrappedOK
      <4> QED BY <4>2, <4>3
    <3>5. TrappedOK(p, r)'
      BY <3>3, <3>4
    <3>6. TrappedOK(p, inRecycle[p].rch)'
      BY <1>1, <3>0, <3>5 DEF TrappedOK, Spent
    <3> QED BY <1>1, <2>1, <2>4, <3>0, <3>1, <3>6 DEF RecycleOK
  <2> QED BY <2>1, <2>2, <2>3, <2>4 DEF RecycleOK
<1> QED BY <1>1, <1>8 DEF Recycled

\* A release whose wait a signal has ended.
LEMMA CloseUnanswered ==
    ASSUME IInv, NEW p \in Paths, CloseLast(p)
    PROVE  Closes(p)
<1>1. /\ Runs(p) /\ proc[p].pc = "last" /\ rch[proc[p].rch].valid # 1
      /\ proc' = [proc EXCEPT ![p].pc = "cleanup", ![p].rch = NoRch]
      /\ UNCHANGED <<pools, rch, list, lastId, pending, mutex, cpu, badDel>>
  BY DEF CloseLast, At
<1>2. Now(p, "cleanup", proc[p].op, NoRch, proc[p].kbuf, proc[p].used)
  <2>1. "cleanup" \in PC /\ NoRch \in Rchs \cup {NoRch}
    BY DEF PC
  <2> QED BY <1>1, <2>1, Here, SetPcRch
<1> QED BY <1>1, <1>2 DEF Closes

\* Every step keeps the invariant.
LEMMA NextKeeps ==
    ASSUME IInv, Recycled, [Next]_vars
    PROVE  IInv' /\ Recycled'
<1>1. CASE UNCHANGED vars
  <2>1. CoreSame /\ inRecycle' = inRecycle /\ bh' = bh
    BY <1>1 DEF vars, CoreSame
  <2>2. Recycled'
    BY <2>1 DEF CoreSame, Recycled, RecycleOK, Recycling, Answered, TrappedOK, Spent, Used, Listed
  <2> QED BY <2>1, <2>2, CoreKept
<1>2. CASE CardReply
  BY <1>2, ReplyStep, ReplyRecycled
<1>3. ASSUME NEW p \in Paths, Choice(p) PROVE IInv'
  <2>1. env' = env
    BY <1>3 DEF Choice
  <2>2. CASE Open(p)
    BY <2>1, <2>2, OpenStep
  <2>3. ASSUME NEW op \in {"read", "write", "close"}, Call(p, op) PROVE IInv'
    BY <2>1, <2>3, CallStep
  <2>4. CASE WriteEmpty(p)
    BY <2>1, <2>4, WriteEmptyStep
  <2> QED BY <1>3, <2>2, <2>3, <2>4 DEF Choice
<1>4. ASSUME NEW p \in Paths, Step(p), env' = env PROVE IInv'
  <2>1. env' = env
    BY <1>4
  <2>2. CASE Alloc(p)
    <3>1. CASE RchScan(p)
      BY <2>1, <3>1, RchScanStep
    <3>2. CASE RchClaim(p)
      BY <2>1, <3>2, RchClaimStep
    <3>3. CASE RchSleep(p) \/ RchWake(p) \/ RchTimeout(p)
      BY <2>1, <3>3, RchSleepStep
    <3>4. CASE MapScan(p)
      BY <2>1, <3>4, MapScanStep
    <3>5. CASE MapClaim(p)
      BY <2>1, <3>5, MapClaimStep
    <3>6. CASE MapSleep(p) \/ MapWake(p) \/ MapTimeout(p)
      BY <2>1, <3>6, MapSleepStep
    <3> QED BY <2>2, <3>1, <3>2, <3>3, <3>4, <3>5, <3>6 DEF Alloc
  <2>3. CASE Build(p)
    BY <2>1, <2>3, BuildStep
  <2>4. CASE Send(p)
    BY <2>1, <2>4, SendStep
  <2>5. CASE SendNoFrame(p)
    BY <2>1, <2>5, SendNoFrameStep
  <2>6. CASE Wait(p)
    BY <2>1, <2>6, WaitStep
  <2>7. CASE Check(p)
    BY <2>1, <2>7, CheckStep
  <2>9. CASE CloseLast(p)
    <3>1. Closes(p)
      BY <2>9, CloseUnanswered
    <3> QED BY <2>1, <3>1, CloseLastStep
  <2>11. CASE Release(p)
    BY <2>1, <2>11, ReleaseStep
  <2> QED BY <1>4, <2>2, <2>3, <2>4, <2>5, <2>6, <2>7, <2>9, <2>11 DEF Step
<1>5. ASSUME NEW p \in Paths, Choice(p) \/ Step(p), UNCHANGED <<inRecycle, bh>> PROVE Recycled'
  <2>1. \A o \in Paths : ~ Recycling(o)'
    BY <1>5, NobodyRecycles DEF Recycling
  <2> QED BY <1>5, <2>1 DEF Recycled, RecycleOK
<1>6. ASSUME NEW p \in Paths, RecycleStep(p), UNCHANGED <<env, bh>> PROVE IInv' /\ Recycled'
  <2>0. env' = env
    BY <1>6
  <2>1. ASSUME RecycleTest(p) \/ RecycleOops(p) PROVE IInv'
    BY <2>0, <2>1, TestOopsSame, CoreKept
  <2>2. ASSUME RecycleRest(p) PROVE IInv'
    BY <2>0, <2>2, RestStep
  <2> QED BY <1>6, <2>1, <2>2, RecycleKeeps DEF RecycleStep
<1>7. "smp" \notin env
  BY DEF IInv, Regular
<1>8. ASSUME NEW p \in Paths, Choice(p) \/ Progress(p) PROVE IInv' /\ Recycled'
  <2>1. CASE Choice(p)
    BY <1>3, <1>5, <2>1 DEF Choice
  <2>2. CASE Step(p) /\ UNCHANGED <<env, bh>>
    BY <1>4, <1>5, <2>2 DEF Step
  <2> QED BY <1>6, <1>8, <2>1, <2>2 DEF Progress
<1> QED BY <1>1, <1>2, <1>7, <1>8 DEF Next, Tasklet

\* What the theorems assume of the happenings that are looked at.
RegularEnvironments == \A e \in Environments : Regular(e)

\* It holds at first.
LEMMA InitHolds ==
    ASSUME Init, RegularEnvironments
    PROVE  IInv
<1>1. /\ env \in Environments /\ rchRes = Leaked /\ rchCur = 0
      /\ mapRes = Leaked \cup {MSG_MAPPING} /\ mapCur = 0
      /\ list = <<>> /\ lastId = 0 /\ pending = <<>> /\ mutex = NoPath /\ cpu = NoPath
      /\ badDel = FALSE
      /\ rch = [r \in Rchs |-> [handler |-> "none", path |-> NoPath, id |-> 0, valid |-> 0,
                                kbuf |-> NoMap, pool |-> FALSE]]
      /\ proc = [p \in Paths |-> [pc |-> "closed", op |-> "none", rch |-> NoRch,
                                  kbuf |-> NoMap, used |-> FALSE]]
  BY DEF Init
<1>2. /\ \A r \in Rchs : /\ rch[r].path = NoPath /\ rch[r].kbuf = NoMap /\ rch[r].valid = 0
                         /\ rch[r].handler = "none"
      /\ \A p \in Paths : /\ proc[p].pc = "closed" /\ proc[p].op = "none" /\ proc[p].rch = NoRch
                          /\ proc[p].kbuf = NoMap
  BY <1>1
<1>3. Listed = {} /\ Once(list) /\ DOMAIN pending = {} /\ Len(pending) = 0
  BY <1>1 DEF Listed, Once
<1>4. CoreOK
  <2>1. 0 \in Rchs /\ 0 \in Maps /\ 0 \in Ids /\ MSG_MAPPING \in Maps
    BY Sizes DEF Rchs, Maps, Ids, MSG_MAPPING
  <2>2. rchRes \subseteq Rchs /\ mapRes \subseteq Maps
    BY <1>1, <2>1 DEF Leaked
  <2>3. NoMap \in Kbufs /\ "closed" \in PC /\ "none" \in Ops
    BY DEF Kbufs, PC, Ops
  <2>4. rch \in [Rchs -> [handler : {"none", "read", "write", "last"}, path : Paths \cup {NoPath},
                         id : Ids, valid : {-1, 0, 1}, kbuf : Kbufs, pool : BOOLEAN]]
    BY <1>1, <2>1, <2>3
  <2>5. proc \in [Paths -> [pc : PC, op : Ops, rch : Rchs \cup {NoRch}, kbuf : Kbufs, used : BOOLEAN]]
    BY <1>1, <2>3
  <2>6. list \in Seq(Rchs) /\ pending \in Seq([id : Ids, op : Ops, rch : Rchs, path : Paths, kbuf : Kbufs])
    BY <1>1
  <2>7. /\ mutex \in Paths \cup {NoPath} /\ cpu \in Paths \cup {NoPath} /\ badDel \in BOOLEAN
        /\ env \in Environments /\ lastId \in Ids /\ rchCur \in Rchs /\ mapCur \in Maps
    BY <1>1, <2>1
  <2> QED BY <2>2, <2>4, <2>5, <2>6, <2>7 DEF CoreOK
<1>5. Typed /\ Regular(env)
  BY <1>1, <1>3, <1>4, Sizes DEF Typed, RegularEnvironments
<1>6. Places
  BY <1>2 DEF Places, PlaceOK, Idle, Out, Raw
<1>7. Turns
  BY <1>2 DEF Turns, Exclusive, Claims
<1>8. Holds
  BY <1>2 DEF Holds, HoldOK, Out, Raw
<1>9. Handlers
  BY <1>1, <1>2, <1>3, Sizes DEF Handlers
<1>10. Mappings
  BY <1>2 DEF Mappings, Used
<1>11. Requests /\ Sent
  BY <1>1, <1>2, <1>3 DEF Requests, Sent, Closing
<1> QED BY <1>5, <1>6, <1>7, <1>8, <1>9, <1>10, <1>11 DEF IInv

\* And nobody is in i2o_recycleRch.
LEMMA InitRecycled ==
    ASSUME Init
    PROVE  Recycled
<1>1. /\ inRecycle = [p \in Paths |-> [at |-> "out", rch |-> NoRch]] /\ bh = NoReply
  BY DEF Init
<1> QED BY <1>1 DEF Recycled, RecycleOK, Recycling, RecyclePC

\* It is an invariant.
LEMMA Invariance ==
    ASSUME RegularEnvironments
    PROVE  Spec => [](IInv /\ Recycled)
<1>1. Init => IInv /\ Recycled
  BY InitHolds, InitRecycled
<1>2. IInv /\ Recycled /\ [Next]_vars => IInv' /\ Recycled'
  BY NextKeeps
<1> QED BY <1>1, <1>2, PTL DEF Spec

-----------------------------------------------------------------------------
(***************************************************************************)
(* No entry of the pools is lost.                                          *)
(***************************************************************************)

\* Those who will give an entry back, as NoLeak has them.
RchOwned(r) == r \in Listed \/ \E p \in Paths : HasRch(p) /\ proc[p].rch = r
MapOwned(m) ==
    \/ \E r \in Listed : rch[r].kbuf = m /\ rch[r].pool
    \/ \E p \in Paths : HasMap(p) /\ proc[p].kbuf = m

\* What NoLeak says on one processor, also when a process has oopsed: it still
\* holds its handler.
AllOwned ==
    Troubles({"zero_write", "leaked"}) \/
    /\ \A r \in rchRes : RchOwned(r)
    /\ \A m \in mapRes \ {MSG_MAPPING} : MapOwned(m)

\* A step that reserves nothing, and after which the entries that are still
\* reserved have an owner when their owner was a handler or a process.
LEMMA OwnersKept ==
    ASSUME CoreOK, AllOwned, env' = env, rchRes' \subseteq rchRes, mapRes' \subseteq mapRes,
           \A r \in Rchs : r \in rchRes' /\ RchOwned(r) => RchOwned(r)',
           \A m \in Maps : m \in mapRes' /\ MapOwned(m) => MapOwned(m)'
    PROVE  AllOwned'
<1>1. Troubles({"zero_write", "leaked"})' <=> Troubles({"zero_write", "leaked"})
  BY DEF Troubles
<1>2. rchRes \subseteq Rchs /\ mapRes \subseteq Maps /\ MSG_MAPPING' = MSG_MAPPING
  BY DEF CoreOK, MSG_MAPPING
<1>3. ASSUME ~ Troubles({"zero_write", "leaked"})
      PROVE  /\ \A r \in rchRes' : RchOwned(r)'
             /\ \A m \in mapRes' \ {MSG_MAPPING} : MapOwned(m)'
  <2>1. /\ \A r \in rchRes : RchOwned(r)
        /\ \A m \in mapRes \ {MSG_MAPPING} : MapOwned(m)
    BY <1>3 DEF AllOwned, RchOwned, MapOwned
  <2> QED BY <1>2, <2>1
<1> QED BY <1>1, <1>2, <1>3 DEF AllOwned, RchOwned, MapOwned

\* A process that has no handler to give back.
LEMMA IdleHasNothing ==
    ASSUME IInv, NEW p \in Paths, proc[p].pc \in Idle
    PROVE  ~ HasRch(p) /\ ~ HasMap(p)
<1>1. PlaceOK(p)
  BY Here
<1> QED BY <1>1, Sizes DEF PlaceOK, HasRch, HasMap

\* Steps that leave handlers, list and pools alone: the process keeps what it
\* holds, or leaves it to a handler on the list.
LEMMA StaysOwned ==
    ASSUME IInv, AllOwned, NEW p \in Paths, Stays(p),
           HasRch(p) => \/ proc'[p].rch = proc[p].rch /\ proc'[p].pc # "rchClaim"
                        \/ proc[p].rch \in Listed \/ proc[p].rch \notin rchRes,
           HasMap(p) => \/ proc'[p].kbuf = proc[p].kbuf /\ proc'[p].pc # "mapClaim"
                        \/ \E s \in Listed : rch[s].kbuf = proc[p].kbuf /\ rch[s].pool
    PROVE  AllOwned'
<1>1. /\ rch' = rch /\ Listed' = Listed /\ env' = env /\ rchRes' = rchRes /\ mapRes' = mapRes /\ CoreOK
      /\ \A o \in Paths : o # p => proc'[o] = proc[o]
  BY DEF Stays, Listed, pools, Same, IInv, Typed
<1>2. \A o \in Paths : o # p => (HasRch(o)' <=> HasRch(o)) /\ (HasMap(o)' <=> HasMap(o))
  BY <1>1 DEF HasRch, HasMap
<1>3. ASSUME NEW r \in Rchs, r \in rchRes', RchOwned(r) PROVE RchOwned(r)'
  <2>1. CASE r \in Listed
    BY <1>1, <2>1 DEF RchOwned
  <2>2. ASSUME NEW o \in Paths, HasRch(o), proc[o].rch = r PROVE RchOwned(r)'
    <3>1. CASE o # p
      BY <1>1, <1>2, <2>2, <3>1 DEF RchOwned
    <3>2. CASE o = p /\ r \notin Listed
      <4>1. proc'[p].rch = r /\ proc'[p].pc # "rchClaim" /\ r # NoRch
        BY <1>1, <1>3, <2>2, <3>2 DEF HasRch
      <4>2. HasRch(p)'
        BY <4>1 DEF HasRch, NoRch
      <4> QED BY <4>1, <4>2 DEF RchOwned
    <3> QED BY <2>1, <3>1, <3>2
  <2> QED BY <1>3, <2>1, <2>2 DEF RchOwned
<1>4. ASSUME NEW m \in Maps, m \in mapRes', MapOwned(m) PROVE MapOwned(m)'
  <2>1. ASSUME NEW s \in Listed, rch[s].kbuf = m, rch[s].pool PROVE MapOwned(m)'
    BY <1>1, <2>1 DEF MapOwned
  <2>2. ASSUME NEW o \in Paths, HasMap(o), proc[o].kbuf = m PROVE MapOwned(m)'
    <3>1. CASE o # p
      BY <1>1, <1>2, <2>2, <3>1 DEF MapOwned
    <3>2. CASE o = p
      <4>1. CASE \E s \in Listed : rch[s].kbuf = m /\ rch[s].pool
        BY <2>1, <4>1
      <4>2. CASE proc'[p].kbuf = m /\ proc'[p].pc # "mapClaim"
        <5>1. HasMap(p)'
          BY <4>2 DEF HasMap, Maps
        <5> QED BY <4>2, <5>1 DEF MapOwned
      <4> QED BY <2>2, <3>2, <4>1, <4>2
    <3> QED BY <3>1, <3>2
  <2> QED BY <1>4, <2>1, <2>2 DEF MapOwned
<1> QED BY <1>1, <1>3, <1>4, OwnersKept

\* The steps of a process that holds nothing.
LEMMA IdleOwned ==
    ASSUME IInv, AllOwned, NEW p \in Paths, env' = env,
           \/ Open(p) \/ (\E op \in {"read", "write", "close"} : Call(p, op)) \/ RchScan(p)
           \/ RchSleep(p) \/ RchWake(p) \/ RchTimeout(p) \/ Release(p)
    PROVE  AllOwned'
<1>1. /\ proc[p].pc \in Idle /\ UNCHANGED <<pools, rch, list, badDel>>
      /\ \A o \in Paths : o # p => proc'[o] = proc[o]
  <2>0. proc \in [Paths -> ProcRecord]
    BY Here
  <2>1. CASE Open(p)
    BY <2>0, <2>1 DEF Open, At, Idle
  <2>2. CASE \E op \in {"read", "write", "close"} : Call(p, op)
    BY <2>0, <2>2 DEF Call, At, Idle
  <2>3. CASE RchScan(p)
    BY <2>0, <2>3 DEF RchScan, At, Idle
  <2>4. CASE RchSleep(p) \/ RchWake(p) \/ RchTimeout(p)
    BY <2>0, <2>4 DEF RchSleep, RchWake, RchTimeout, At, Idle, Goto
  <2>5. CASE Release(p)
    BY <2>0, <2>5 DEF Release, At, Idle
  <2> QED BY <2>1, <2>2, <2>3, <2>4, <2>5
<1>2. Stays(p)
  BY <1>1 DEF Stays, Same
<1>3. ~ HasRch(p) /\ ~ HasMap(p)
  BY <1>1, IdleHasNothing
<1> QED BY <1>2, <1>3, StaysOwned

\* The steps around the sleep in _alloc for a mapping, and the wait.
LEMMA WaitOwned ==
    ASSUME IInv, AllOwned, NEW p \in Paths, env' = env,
           MapScan(p) \/ MapSleep(p) \/ MapWake(p) \/ MapTimeout(p) \/ Wait(p)
    PROVE  AllOwned'
<1>0. proc \in [Paths -> ProcRecord] /\ PlaceOK(p) /\ proc[p].op \in Ops
  BY Here
<1>1. CASE MapScan(p)
  <2> DEFINE m == NextFree(mapRes, mapCur, NMappings)
  <2>1. /\ proc[p].pc = "map" /\ UNCHANGED <<pools, rch, list, badDel>>
        /\ proc' = [proc EXCEPT ![p].pc = "mapClaim", ![p].kbuf = m]
    BY <1>1 DEF MapScan, At
  <2> HIDE DEF m
  <2>2. Same(p) /\ proc'[p].rch = proc[p].rch /\ proc'[p].pc = "mapClaim"
    BY <1>0, <2>1 DEF Same, ProcRecord
  <2>3. ~ HasMap(p)
    BY <1>0, <2>1, Sizes DEF PlaceOK, HasMap
  <2>4. Stays(p)
    BY <2>1, <2>2 DEF Stays
  <2> QED BY <2>2, <2>3, <2>4, StaysOwned
<1>2. CASE MapSleep(p) \/ MapWake(p) \/ MapTimeout(p) \/ Wait(p)
  <2>1. /\ UNCHANGED <<pools, rch, list, badDel>>
        /\ \E l \in {"mapSleep", "map", "noMap", "last", "check"} : proc' = [proc EXCEPT ![p].pc = l]
    BY <1>2 DEF MapSleep, MapWake, MapTimeout, Wait, At, Goto
  <2>2. PICK l \in {"mapSleep", "map", "noMap", "last", "check"} : proc' = [proc EXCEPT ![p].pc = l]
    BY <2>1
  <2>3. /\ Same(p) /\ proc'[p].rch = proc[p].rch /\ proc'[p].kbuf = proc[p].kbuf
        /\ proc'[p].pc # "rchClaim" /\ proc'[p].pc # "mapClaim"
    BY <1>0, <2>2 DEF Same, ProcRecord
  <2>4. Stays(p)
    BY <2>1, <2>3 DEF Stays
  <2> QED BY <2>3, <2>4, StaysOwned
<1> QED BY <1>1, <1>2

\* The claim of an entry, which then is the process's.
LEMMA ClaimOwned ==
    ASSUME IInv, AllOwned, NEW p \in Paths, env' = env, RchClaim(p) \/ MapClaim(p)
    PROVE  AllOwned'
<1>1. PICK l \in {"build", "map"} : proc' = [proc EXCEPT ![p].pc = l]
  BY DEF RchClaim, MapClaim, Goto
<1>2. /\ proc \in [Paths -> ProcRecord] /\ PlaceOK(p) /\ CoreOK
  BY Here DEF IInv, Typed
<1>3. /\ \A o \in Paths : o # p => proc'[o] = proc[o]
      /\ proc'[p].rch = proc[p].rch /\ proc'[p].kbuf = proc[p].kbuf
      /\ proc'[p].pc \notin {"rchClaim", "mapClaim"}
      /\ rch' = rch /\ Listed' = Listed
  BY <1>1, <1>2 DEF ProcRecord, RchClaim, MapClaim, Listed
<1>4. \A o \in Paths : /\ HasRch(o) => HasRch(o)' /\ proc'[o].rch = proc[o].rch
                       /\ HasMap(o) => HasMap(o)' /\ proc'[o].kbuf = proc[o].kbuf
  BY <1>3 DEF HasRch, HasMap, NoRch, Maps
<1>5. /\ rchRes' \subseteq rchRes \cup {proc[p].rch} /\ mapRes' \subseteq mapRes \cup {proc[p].kbuf}
      /\ proc[p].rch \in rchRes' \ rchRes => proc[p].pc = "rchClaim"
      /\ proc[p].kbuf \in mapRes' \ mapRes => proc[p].pc = "mapClaim"
  BY DEF RchClaim, MapClaim, At
<1>6. /\ proc[p].pc = "rchClaim" => HasRch(p)'
      /\ proc[p].pc = "mapClaim" => HasMap(p)'
  BY <1>2, <1>3 DEF HasRch, HasMap, PlaceOK, Idle, NoRch, Maps
<1>7. ASSUME NEW r, r \in rchRes => RchOwned(r), r \in rchRes' PROVE RchOwned(r)'
  <2>1. CASE r \in rchRes
    BY <1>3, <1>4, <1>7, <2>1 DEF RchOwned
  <2>2. CASE r \notin rchRes
    BY <1>3, <1>5, <1>6, <1>7, <2>2 DEF RchOwned
  <2> QED BY <2>1, <2>2
<1>8. ASSUME NEW m, m \in mapRes => MapOwned(m), m \in mapRes' PROVE MapOwned(m)'
  <2>1. CASE m \in mapRes
    BY <1>3, <1>4, <1>8, <2>1 DEF MapOwned
  <2>2. CASE m \notin mapRes
    BY <1>3, <1>5, <1>6, <1>8, <2>2 DEF MapOwned
  <2> QED BY <2>1, <2>2
<1>9. Troubles({"zero_write", "leaked"})' <=> Troubles({"zero_write", "leaked"})
  BY DEF Troubles
<1>10. CASE Troubles({"zero_write", "leaked"})
  BY <1>9, <1>10 DEF AllOwned
<1>11. CASE ~ Troubles({"zero_write", "leaked"})
  <2>1. /\ \A r \in rchRes : RchOwned(r)
        /\ \A m \in mapRes \ {MSG_MAPPING} : MapOwned(m)
    BY <1>11 DEF AllOwned, RchOwned, MapOwned
  <2>2. /\ \A r \in rchRes' : RchOwned(r)'
        /\ \A m \in mapRes' \ {MSG_MAPPING} : MapOwned(m)'
    BY <1>7, <1>8, <2>1
  <2> QED BY <2>2 DEF AllOwned, RchOwned, MapOwned, MSG_MAPPING
<1> QED BY <1>10, <1>11

\* A handler that is built goes on the list.
LEMMA BuildOwned ==
    ASSUME IInv, AllOwned, NEW p \in Paths, env' = env, Build(p)
    PROVE  AllOwned'
<1>0. PICK r : r = proc[p].rch
  OBVIOUS
<1>1. /\ proc[p].pc = "build" /\ rch' = [rch EXCEPT ![r] = Built(p)] /\ list' = Append(list, r)
      /\ proc' = [proc EXCEPT ![p].pc = "send", ![p].used = TRUE] /\ UNCHANGED pools
  BY <1>0 DEF Build, At, rchAppend
<1>2. /\ proc \in [Paths -> ProcRecord] /\ PlaceOK(p) /\ HoldOK(p) /\ CoreOK /\ r \in Rchs
      /\ rch \in [Rchs -> RchRecord] /\ list \in Seq(Rchs) /\ Once(list) /\ Listed = Elems(list)
      /\ Listed' = Elems(list')
  <2>1. proc \in [Paths -> ProcRecord] /\ PlaceOK(p) /\ HoldOK(p) /\ r \in Rchs
    BY <1>0, <1>1, Here DEF Idle
  <2>2. Listed' = Elems(list')
    BY DEF Listed, Elems
  <2> QED BY <2>1, <2>2, Types DEF IInv, Typed, Handlers
<1>3. rch[r].path = NoPath /\ r \notin Listed
  BY <1>0, <1>1, <1>2 DEF HoldOK, Raw, IInv, Handlers
<1>4. Listed' = Listed \cup {r}
  BY <1>1, <1>2, <1>3, AppendFacts
<1>5. \A s \in Listed : s \in Rchs /\ rch'[s] = rch[s]
  BY <1>1, <1>2, <1>3, Types
<1>6. /\ \A o \in Paths : o # p => proc'[o] = proc[o]
      /\ proc'[p].rch = proc[p].rch /\ proc'[p].kbuf = proc[p].kbuf /\ proc'[p].pc = "send"
  BY <1>1, <1>2 DEF ProcRecord
<1>7. \A o \in Paths : /\ HasRch(o) => HasRch(o)' /\ proc'[o].rch = proc[o].rch
                       /\ HasMap(o) => HasMap(o)' /\ proc'[o].kbuf = proc[o].kbuf
  BY <1>6 DEF HasRch, HasMap, NoRch, Maps
<1>8. \A s \in Rchs : RchOwned(s) => RchOwned(s)'
  BY <1>4, <1>7 DEF RchOwned
<1>9. \A m \in Maps : MapOwned(m) => MapOwned(m)'
  BY <1>4, <1>5, <1>7 DEF MapOwned
<1>10. rchRes' \subseteq rchRes /\ mapRes' \subseteq mapRes
  BY <1>1 DEF pools
<1> QED BY <1>2, <1>8, <1>9, <1>10, OwnersKept

\* A write that returns leaves its handler and mapping to the list.
LEMMA SendOwned ==
    ASSUME IInv, AllOwned, NEW p \in Paths, env' = env, Send(p) \/ SendNoFrame(p)
    PROVE  AllOwned'
<1>1. At(p, "send") /\ AfterSend(p) /\ UNCHANGED <<pools, rch, list, mutex, badDel>>
  BY DEF Send, SendNoFrame
<1>2. proc[p].pc = "send" /\ HoldOK(p) /\ PlaceOK(p) /\ Stays(p)
  BY <1>1, Here, SendMoves DEF At
<1>3. ~ Answered(p) /\ proc[p].pc \in Out
  BY <1>2 DEF HoldOK, Out
<1>4. proc[p].rch \in Listed
  BY <1>2, <1>3 DEF HoldOK
<1>5. HasMap(p) => rch[proc[p].rch].kbuf = proc[p].kbuf /\ rch[proc[p].rch].pool
  <2> SUFFICES ASSUME HasMap(p) PROVE rch[proc[p].rch].kbuf = proc[p].kbuf /\ rch[proc[p].rch].pool
    OBVIOUS
  <2>1. ~ ReadsAB(p)
    BY <1>2, <1>3, Sizes DEF HasMap, PlaceOK, Bare
  <2> QED BY <1>2, <1>3, <2>1 DEF HoldOK
<1> QED BY <1>2, <1>4, <1>5, StaysOwned

\* A release that ends its wait: its handler was recycled, or is on the list.
LEMMA CloseLastOwned ==
    ASSUME IInv, AllOwned, NEW p \in Paths, env' = env, Closes(p)
    PROVE  AllOwned'
<1> DEFINE r == proc[p].rch
<1>1. /\ proc[p].pc = "last"
      /\ IF rch[r].valid = 1 THEN Recycle(rch, r) ELSE UNCHANGED <<pools, rch, list, badDel>>
      /\ Same(p)
  BY DEF Closes, Now
<1>2. /\ proc \in [Paths -> ProcRecord] /\ PlaceOK(p) /\ HoldOK(p) /\ proc[p].op = "close"
      /\ proc[p].kbuf = NoMap /\ ~ ReadsAB(p)
  <2>1. proc \in [Paths -> ProcRecord] /\ PlaceOK(p) /\ HoldOK(p)
    BY Here
  <2> QED BY <1>1, <2>1 DEF PlaceOK, Bare, Out, ReadsAB
<1>3. r \notin rchRes \/ r \in Listed
  BY <1>1, <1>2 DEF HoldOK, Out
<1>4. UNCHANGED <<pools, rch, list, badDel>>
  <2>1. CASE rch[r].valid # 1
    BY <1>1, <2>1
  <2>2. CASE rch[r].valid = 1
    <3>1. rch[r].path = NoPath /\ r \notin rchRes
      BY <1>1, <1>2, <2>2 DEF HoldOK, Out, Answered
    <3>2. rch[r].kbuf = NoMap
      BY <1>1, <1>2 DEF HoldOK, Out
    <3>3. NoMap \notin mapRes
      BY Sizes DEF IInv, Typed, CoreOK
    <3> QED BY <1>1, <2>2, <3>1, <3>2, <3>3 DEF Recycle, PoolFree, pools
  <2> QED BY <2>1, <2>2
<1>5. Stays(p)
  BY <1>1, <1>4 DEF Stays
<1>6. ~ HasMap(p)
  BY <1>2, Sizes DEF HasMap
<1> QED BY <1>3, <1>5, <1>6, StaysOwned

\* rchRemoveIfNotValid: who waits no more leaves the handler to the list, who
\* takes it from the list holds it.
LEMMA CheckOwned ==
    ASSUME IInv, AllOwned, NEW p \in Paths, env' = env, Check(p)
    PROVE  AllOwned'
<1>0. PICK r : r = proc[p].rch
  OBVIOUS
<1> DEFINE v == rch[r].valid
<1>1. /\ proc[p].pc = "check" /\ UNCHANGED pools
      /\ rch' = IF v = 1 THEN rch ELSE [rch EXCEPT ![r].handler = "none"]
      /\ list' = IF v < 0 THEN ListDel(list, r) ELSE list
      /\ proc' = [proc EXCEPT ![p] =
                    IF v = 0 THEN [@ EXCEPT !.pc = "open", !.rch = NoRch, !.kbuf = NoMap]
                    ELSE [@ EXCEPT !.pc = IF v = 1 THEN "copy" ELSE "error"]]
  BY <1>0 DEF Check, At
<1>2. /\ proc \in [Paths -> ProcRecord] /\ PlaceOK(p) /\ HoldOK(p) /\ CoreOK /\ r \in Rchs
      /\ rch \in [Rchs -> RchRecord] /\ list \in Seq(Rchs) /\ Once(list) /\ Listed = Elems(list)
      /\ Listed' = Elems(list') /\ v \in {-1, 0, 1} /\ Listed \subseteq Rchs
  <2>1. proc \in [Paths -> ProcRecord] /\ PlaceOK(p) /\ HoldOK(p) /\ r \in Rchs
    BY <1>0, <1>1, Here DEF Idle
  <2>2. Listed' = Elems(list')
    BY DEF Listed, Elems
  <2> QED BY <2>1, <2>2, Types DEF IInv, Typed, Handlers
<1>3. r \in Listed /\ (HasMap(p) => rch[r].kbuf = proc[p].kbuf /\ rch[r].pool)
  <2>1. ~ Answered(p) /\ proc[p].pc \in Out
    BY <1>1, <1>2 DEF Out, Answered, PlaceOK
  <2>2. HasMap(p) => ~ ReadsAB(p)
    BY <1>2, <2>1, Sizes DEF HasMap, PlaceOK, Bare
  <2> QED BY <1>0, <1>2, <2>1, <2>2 DEF HoldOK
<1>4. rchRes' \subseteq rchRes /\ mapRes' \subseteq mapRes
  BY <1>1 DEF pools
<1>5. \A s \in Rchs : rch'[s].kbuf = rch[s].kbuf /\ rch'[s].pool = rch[s].pool
  <2>1. CASE v = 1
    BY <1>1, <2>1
  <2>2. CASE v # 1
    <3>1. rch' = [rch EXCEPT ![r].handler = "none"]
      BY <1>1, <2>2
    <3> QED BY <1>2, <3>1, Disarmed
  <2> QED BY <2>1, <2>2
<1>6. \A o \in Paths : o # p => /\ proc'[o] = proc[o] /\ (HasRch(o)' <=> HasRch(o))
                                /\ HasMap(o)' <=> HasMap(o)
  BY <1>1, <1>2 DEF HasRch, HasMap
<1> HIDE DEF v
<1>7. CASE v = 0
  <2>1. Listed' = Listed
    BY <1>1, <1>7 DEF Listed
  <2>2. \A s \in Rchs : RchOwned(s) => RchOwned(s)'
    BY <1>0, <1>3, <1>6, <2>1 DEF RchOwned
  <2>3. ASSUME NEW m \in Maps, MapOwned(m) PROVE MapOwned(m)'
    <3>1. CASE \E s \in Listed : rch[s].kbuf = m /\ rch[s].pool
      BY <1>2, <1>5, <2>1, <3>1 DEF MapOwned
    <3>2. ASSUME NEW o \in Paths, HasMap(o), proc[o].kbuf = m PROVE MapOwned(m)'
      <4>1. CASE o = p
        BY <1>3, <3>1, <3>2, <4>1
      <4>2. CASE o # p
        BY <1>6, <3>2, <4>2 DEF MapOwned
      <4> QED BY <4>1, <4>2
    <3> QED BY <2>3, <3>1, <3>2 DEF MapOwned
  <2> QED BY <1>2, <1>4, <2>2, <2>3, OwnersKept
<1>8. CASE v # 0
  <2>1. PICK l \in {"copy", "error"} : proc' = [proc EXCEPT ![p] = [@ EXCEPT !.pc = l]]
    BY <1>1, <1>8
  <2>2. proc'[p].pc = l /\ proc'[p].rch = r /\ proc'[p].kbuf = proc[p].kbuf
    BY <1>0, <1>2, <2>1 DEF ProcRecord
  <2>3. HasRch(p)' /\ (HasMap(p) => HasMap(p)')
    BY <1>2, <2>2 DEF HasRch, HasMap, NoRch, Maps, Rchs
  <2>4. Listed \subseteq Listed' \cup {r}
    <3>1. CASE v < 0
      BY <1>1, <1>2, <3>1, ListDelFacts
    <3>2. CASE ~ (v < 0)
      BY <1>1, <3>2 DEF Listed
    <3> QED BY <3>1, <3>2
  <2>5. \A s \in Rchs : RchOwned(s) => RchOwned(s)'
    BY <1>0, <1>6, <2>2, <2>3, <2>4 DEF RchOwned
  <2>6. ASSUME NEW m \in Maps, MapOwned(m), m \in mapRes' PROVE MapOwned(m)'
    <3>1. ASSUME NEW o \in Paths, HasMap(o), proc[o].kbuf = m PROVE MapOwned(m)'
      BY <1>6, <2>2, <2>3, <3>1 DEF MapOwned
    <3>2. ASSUME NEW s \in Listed, rch[s].kbuf = m, rch[s].pool PROVE MapOwned(m)'
      <4>1. CASE s # r
        BY <1>2, <1>5, <2>4, <3>2, <4>1 DEF MapOwned
      <4>2. CASE s = r
        <5>1. proc[p].pc \in Out /\ HoldOK(p) /\ PlaceOK(p)
          BY <1>1, <1>2 DEF Out
        <5>2. proc[p].kbuf = m
          BY <1>0, <3>2, <4>2, <5>1, Sizes DEF HoldOK
        <5>3. HasMap(p)
          BY <1>1, <5>2 DEF HasMap
        <5> QED BY <3>1, <5>2, <5>3
      <4> QED BY <4>1, <4>2
    <3> QED BY <2>6, <3>1, <3>2 DEF MapOwned
  <2> QED BY <1>2, <1>4, <2>5, <2>6, OwnersKept
<1> QED BY <1>7, <1>8

\* A handler that is given back takes its mapping along; nobody else owned
\* them, and a process that returns held no other mapping.
LEMMA FreeOwned ==
    ASSUME IInv, AllOwned, NEW r \in Rchs, FreeStep(r),
           \A p \in Paths : Returns(p, r) /\ HasMap(p) =>
              rch[r].kbuf = proc[p].kbuf /\ rch[r].pool = TRUE
    PROVE  AllOwned'
<1>1. /\ \A s \in Rchs : s # r => rch'[s] = rch[s]
      /\ Listed' = Listed \ {r} /\ rchRes' = rchRes \ {r} /\ mapRes' \subseteq mapRes
      /\ \A m \in mapRes : m \in mapRes' <=> ~ (rch[r].pool = TRUE /\ rch[r].kbuf = m)
      /\ env' = env
  BY DEF FreeStep, Frees
<1>2. CoreOK /\ Listed \subseteq Rchs /\ \A s \in Rchs : rch[s].pool \in BOOLEAN
  BY Types DEF IInv, Typed
<1>3. \A o \in Paths : \/ Returns(o, r)
                       \/ proc'[o] = proc[o] /\ (HasRch(o)' <=> HasRch(o)) /\ (HasMap(o)' <=> HasMap(o))
  BY DEF FreeStep, Apart, WaitsClosed, HasRch, HasMap
<1>4. \A s \in Rchs : s \in rchRes' /\ RchOwned(s) => RchOwned(s)'
  BY <1>1, <1>3 DEF RchOwned, Returns
<1>5. ASSUME NEW m \in Maps, m \in mapRes', MapOwned(m) PROVE MapOwned(m)'
  <2>1. ASSUME NEW s \in Listed, rch[s].kbuf = m, rch[s].pool PROVE MapOwned(m)'
    <3>1. s \in Rchs /\ rch[s].pool = TRUE
      BY <1>2, <2>1
    <3>2. s # r
      BY <1>1, <1>5, <2>1, <3>1
    <3> QED BY <1>1, <2>1, <3>1, <3>2 DEF MapOwned
  <2>2. ASSUME NEW o \in Paths, HasMap(o), proc[o].kbuf = m PROVE MapOwned(m)'
    <3>1. ~ Returns(o, r)
      BY <1>1, <1>5, <2>2
    <3> QED BY <1>3, <2>2, <3>1 DEF MapOwned
  <2> QED BY <1>5, <2>1, <2>2 DEF MapOwned
<1> QED BY <1>1, <1>2, <1>4, <1>5, OwnersKept

\* A call that returns gives back what it had.
LEMMA ReturnOwned ==
    ASSUME IInv, AllOwned, NEW p \in Paths, env' = env, Ends(p)
    PROVE  AllOwned'
<1>1. /\ proc[p].rch \in Rchs /\ proc[p].pc \in {"noMap", "copy", "error"} /\ FreeStep(proc[p].rch)
      /\ \A o \in Paths : Returns(o, proc[p].rch) => o = p
      /\ PlaceOK(p) /\ HoldOK(p)
  BY ReturnFrees, Here
<1>2. HasMap(p) => rch[proc[p].rch].kbuf = proc[p].kbuf /\ rch[proc[p].rch].pool = TRUE
  <2> SUFFICES ASSUME HasMap(p)
               PROVE  rch[proc[p].rch].kbuf = proc[p].kbuf /\ rch[proc[p].rch].pool = TRUE
    OBVIOUS
  <2>1. proc[p].pc \in Out \cup {"error"} /\ ~ ReadsAB(p)
    BY <1>1, Sizes DEF HasMap, PlaceOK, Bare, Out
  <2> QED BY <1>1, <2>1 DEF HoldOK
<1> QED BY <1>1, <1>2, FreeOwned

\* So does a round of the cleanup.
LEMMA CleanupOwned ==
    ASSUME IInv, AllOwned, NEW p \in Paths, env' = env, NEW r \in Rchs, Cleans(p, r)
    PROVE  AllOwned'
<1>1. FreeStep(r) /\ \A o \in Paths : Apart(o, r)
  BY CleanupFrees
<1> QED BY <1>1, FreeOwned DEF Apart, Returns

\* An answer gives back what it finds, or leaves it to the reader.
LEMMA ReplyOwned ==
    ASSUME IInv, AllOwned, CardReply
    PROVE  AllOwned'
<1>1. UNCHANGED <<lastId, mutex, proc, cpu, env>>
  BY ReplyCases
<1>2. PICK k \in DOMAIN pending :
         /\ InOrder(k) /\ pending' = Without(pending, k)
         /\ \/ Loses(k)
            \/ \E r \in Listed : rch[r].id = pending[k].id /\ (Stores(r) \/ GivesBack(r))
  BY ReplyCases
<1>3. CoreOK /\ rch \in [Rchs -> RchRecord] /\ Listed \subseteq Rchs /\ proc \in [Paths -> ProcRecord]
  BY Types DEF IInv, Typed
<1>4. \A o \in Paths : (HasRch(o)' <=> HasRch(o)) /\ (HasMap(o)' <=> HasMap(o)) /\ proc'[o] = proc[o]
  BY <1>1 DEF HasRch, HasMap
<1>5. CASE Loses(k) \/ \E r \in Listed : Stores(r)
  <2>1. /\ Listed' = Listed /\ rchRes' = rchRes /\ mapRes' = mapRes
    BY <1>5 DEF Loses, Stores, Listed, pools
  <2>2. \A s \in Rchs : rch'[s].kbuf = rch[s].kbuf /\ rch'[s].pool = rch[s].pool
    <3>1. CASE Loses(k)
      BY <3>1 DEF Loses
    <3>2. ASSUME NEW r \in Listed, Stores(r)
          PROVE  \A s \in Rchs : rch'[s].kbuf = rch[s].kbuf /\ rch'[s].pool = rch[s].pool
      <4>1. PICK v \in {-1, 1} : rch' = [rch EXCEPT ![r].valid = v]
        BY <3>2 DEF Stores
      <4> QED BY <1>3, <4>1, Stored
    <3> QED BY <1>5, <3>1, <3>2
  <2>3. \A s \in Rchs : RchOwned(s) => RchOwned(s)'
    BY <1>4, <2>1 DEF RchOwned
  <2>4. \A m \in Maps : MapOwned(m) => MapOwned(m)'
    BY <1>3, <1>4, <2>1, <2>2 DEF MapOwned
  <2> QED BY <1>1, <1>3, <2>1, <2>3, <2>4, OwnersKept
<1>6. ASSUME NEW r \in Listed, rch[r].id = pending[k].id, GivesBack(r) PROVE AllOwned'
  <2>1. \A p \in Paths : Apart(p, r) \/ WaitsClosed(p, r)
    BY <1>1, <1>6, Finds DEF Apart, WaitsClosed, GivesBack
  <2>2. FreeStep(r)
    BY <1>1, <1>3, <1>6, <2>1 DEF FreeStep, GivesBack
  <2>3. \A p \in Paths : ~ Returns(p, r)
    BY <2>1 DEF Apart, WaitsClosed, Returns, Closing
  <2> QED BY <1>3, <2>2, <2>3, FreeOwned
<1> QED BY <1>2, <1>5, <1>6

\* Every step keeps AllOwned.
LEMMA NextOwned ==
    ASSUME IInv, Recycled, AllOwned, [Next]_vars
    PROVE  AllOwned'
<1>1. ASSUME CoreSame PROVE AllOwned'
  <2>1. /\ rch' = rch /\ Listed' = Listed /\ proc' = proc /\ env' = env /\ rchRes' = rchRes
        /\ mapRes' = mapRes
    BY <1>1 DEF CoreSame, Listed
  <2> QED BY <2>1 DEF AllOwned, Troubles, RchOwned, MapOwned, HasRch, HasMap, MSG_MAPPING, Maps, NoRch
<1>2. CASE CardReply
  BY <1>2, ReplyOwned
<1>3. ASSUME NEW p \in Paths, Choice(p) PROVE AllOwned'
  <2>1. env' = env
    BY <1>3 DEF Choice
  <2>2. CASE Open(p) \/ \E op \in {"read", "write", "close"} : Call(p, op)
    BY <2>1, <2>2, IdleOwned
  <2>3. CASE WriteEmpty(p)
    BY <2>1, <2>3 DEF WriteEmpty, AllOwned, Troubles
  <2> QED BY <1>3, <2>2, <2>3 DEF Choice
<1>4. ASSUME NEW p \in Paths, Step(p), env' = env PROVE AllOwned'
  <2>1. env' = env
    BY <1>4
  <2>2. CASE RchScan(p) \/ RchSleep(p) \/ RchWake(p) \/ RchTimeout(p) \/ Release(p)
    BY <2>1, <2>2, IdleOwned
  <2>3. CASE MapScan(p) \/ MapSleep(p) \/ MapWake(p) \/ MapTimeout(p) \/ Wait(p)
    BY <2>1, <2>3, WaitOwned
  <2>4. CASE RchClaim(p) \/ MapClaim(p)
    BY <2>1, <2>4, ClaimOwned
  <2>5. CASE Build(p)
    BY <2>1, <2>5, BuildOwned
  <2>6. CASE Send(p) \/ SendNoFrame(p)
    BY <2>1, <2>6, SendOwned
  <2>7. CASE Check(p)
    BY <2>1, <2>7, CheckOwned
  <2>8. CASE CloseLast(p)
    <3>1. Closes(p)
      BY <2>8, CloseUnanswered
    <3> QED BY <2>1, <3>1, CloseLastOwned
  <2> QED BY <1>4, <2>2, <2>3, <2>4, <2>5, <2>6, <2>7, <2>8 DEF Step, Alloc
<1>5. ASSUME NEW p \in Paths, RecycleStep(p), env' = env PROVE AllOwned'
  <2>1. CASE RecycleTest(p) \/ RecycleOops(p)
    BY <1>1, <1>5, <2>1, TestOopsSame
  <2>2. CASE RecycleRest(p)
    <3>1. CASE Ends(p)
      BY <1>5, <3>1, ReturnOwned
    <3>2. CASE Closes(p)
      BY <1>5, <3>2, CloseLastOwned
    <3>3. ASSUME NEW r \in Rchs, Cleans(p, r) PROVE AllOwned'
      BY <1>5, <3>3, CleanupOwned
    <3> QED BY <2>2, <3>1, <3>2, <3>3, RestCases
  <2> QED BY <1>5, <2>1, <2>2 DEF RecycleStep
<1>6. CASE UNCHANGED vars
  <2>1. CoreSame
    BY <1>6 DEF vars, CoreSame
  <2> QED BY <1>1, <2>1
<1>7. "smp" \notin env
  BY DEF IInv, Regular
<1>8. ASSUME NEW p \in Paths, Choice(p) \/ Progress(p) PROVE AllOwned'
  BY <1>3, <1>4, <1>5, <1>8 DEF Progress
<1> QED BY <1>2, <1>6, <1>7, <1>8 DEF Next, Tasklet

\* It holds at first, when nothing but MSG_MAPPING is reserved.
LEMMA InitOwned ==
    ASSUME Init
    PROVE  AllOwned
BY DEF Init, AllOwned, Troubles, Leaked

-----------------------------------------------------------------------------
\* The invariant implies that the list is sound (Handlers).
LEMMA ImpliesListSound ==
    ASSUME IInv
    PROVE  ListSound
<1>1. Handlers /\ Listed \subseteq Rchs
  BY Types DEF IInv, Typed
<1>2. Troubles({"error_reply", "close_signal"}) \/ ~ badDel
  BY <1>1 DEF Handlers, Troubles
<1>3. \A r \in Listed : r \in rchRes /\ rch[r].path # NoPath /\ proc[rch[r].path].pc # "closed"
  BY <1>1 DEF Handlers
<1> QED BY <1>1, <1>2, <1>3 DEF ListSound, Handlers, Once

\* A handler that a read or write holds is reserved (HoldOK, Handlers) and nobody else's.
LEMMA ImpliesActivePath ==
    ASSUME IInv
    PROVE  ActivePath
<1> SUFFICES ASSUME NEW p \in Paths, HasRch(p), proc[p].op # "close"
             PROVE  /\ proc[p].rch \in rchRes
                    /\ proc[p].pc \in {"send", "wait", "check", "copy"} => rch[proc[p].rch].path = p
                    /\ \A o \in Paths \ {p} :
                          HasRch(o) /\ proc[o].op # "close" => proc[o].rch # proc[p].rch
  BY DEF ActivePath
<1>1. HoldOK(p) /\ PlaceOK(p) /\ proc[p].pc \in PC /\ ~ Answered(p)
  BY Here DEF Answered
<1>2. proc[p].pc \notin Idle \cup {"rchClaim"} /\ proc[p].rch \in Rchs
  <2>1. proc[p].pc \notin Idle \cup {"rchClaim"}
    BY <1>1 DEF HasRch, PlaceOK
  <2> QED BY <2>1, Here
<1>3. \A o \in Paths \ {p} : proc[o].rch # proc[p].rch
  BY <1>2, SoleHolder
<1>4. proc[p].pc \in Raw => proc[p].rch \in rchRes
  BY <1>1 DEF HoldOK
<1>5. proc[p].pc \in Out \cup {"error"} => rch[proc[p].rch].path = p
  BY <1>1 DEF HoldOK
<1>6. proc[p].pc \in Raw \cup Out \cup {"error"}
  BY <1>1, <1>2 DEF PC, Idle, Raw, Out
<1>7. proc[p].rch \in rchRes
  BY <1>2, <1>4, <1>5, <1>6, Sizes DEF IInv, Handlers
<1>8. proc[p].pc \in {"send", "wait", "check", "copy"} => proc[p].pc \in Out
  BY DEF Out
<1> QED BY <1>3, <1>5, <1>7, <1>8

\* The handler of a request at the card uses the request's mapping (Requests, Mappings).
LEMMA ImpliesDmaSafe ==
    ASSUME IInv
    PROVE  DmaSafe
<1> SUFFICES ASSUME "alloc_timeout" \notin env, "close_signal" \notin env, NEW k \in DOMAIN pending,
                    NEW m \in Maps, pending[k].kbuf = m
             PROVE  /\ m \in mapRes
                    /\ \A j \in DOMAIN pending : j # k => pending[j].kbuf # m
                    /\ \A p \in Paths : HasMap(p) /\ proc[p].kbuf = m => proc[p].rch = pending[k].rch
  BY DEF DmaSafe, Troubles
<1>1. /\ \A j \in DOMAIN pending : AtCard(pending[j]) /\ pending[j].rch \in Rchs /\ pending[j].path \in Paths
      /\ \A i, j \in DOMAIN pending : pending[i].id = pending[j].id => i = j
      /\ Mappings
  BY Types DEF IInv, Typed, Requests
<1>2. Used(pending[k].rch, m)
  BY <1>1, Sizes DEF AtCard, Used
<1>3. m \in mapRes
  BY <1>1, <1>2 DEF Mappings
<1>4. ASSUME NEW j \in DOMAIN pending, j # k, pending[j].kbuf = m PROVE FALSE
  <2>1. Used(pending[j].rch, m)
    BY <1>1, <1>4, Sizes DEF AtCard, Used
  <2>2. pending[j].rch = pending[k].rch
    BY <1>1, <1>2, <2>1 DEF Mappings
  <2> QED BY <1>1, <1>4, <2>2 DEF AtCard
<1>5. ASSUME NEW p \in Paths, HasMap(p), proc[p].kbuf = m PROVE proc[p].rch = pending[k].rch
  <2>1. PlaceOK(p) /\ HoldOK(p) /\ proc[p].pc \in PC /\ (proc[p].pc \notin Idle => proc[p].rch \in Rchs)
    BY Here
  <2>2. proc[p].pc \in Out \cup {"build", "error"} /\ ~ Bare(p)
    BY <1>5, <2>1, Sizes DEF HasMap, PlaceOK, PC, Idle, Out
  <2>3. CASE proc[p].pc = "build"
    BY <1>1, <1>2, <1>5, <2>3 DEF Mappings
  <2>4. CASE proc[p].pc \in Out \cup {"error"}
    <3>1. ~ ReadsAB(p) /\ ~ Answered(p)
      BY <2>2 DEF Bare, Answered
    <3>2. rch[proc[p].rch].kbuf = m /\ rch[proc[p].rch].path = p /\ proc[p].rch \in Rchs
      BY <1>5, <2>1, <2>4, <3>1 DEF HoldOK, Out, Idle
    <3>3. Used(proc[p].rch, m)
      BY <3>2, Sizes DEF Used
    <3> QED BY <1>1, <1>2, <3>2, <3>3 DEF Mappings
  <2> QED BY <2>2, <2>3, <2>4
<1> QED BY <1>3, <1>4, <1>5

\* The id of a request at the card is its handler's and no other's (Requests, Sent).
LEMMA ImpliesReplyFindsRequest ==
    ASSUME IInv, NHandlers <= InFrames, "no_frame" \notin env
    PROVE  ReplyFindsRequest
<1> SUFFICES ASSUME "close_signal" \notin env, NEW k \in DOMAIN pending, NEW r \in Listed,
                    rch[r].id = pending[k].id
             PROVE  r = pending[k].rch /\ rch[r].path = pending[k].path
  BY DEF ReplyFindsRequest, Troubles
<1>1. r = pending[k].rch
  BY DEF IInv, Sent, AllSent
<1>2. AtCard(pending[k])
  BY DEF IInv, Requests
<1> QED BY <1>1, <1>2 DEF AtCard


-----------------------------------------------------------------------------
(***************************************************************************)
(* The theorems.  They are about every number of paths, handlers, mappings *)
(* and frames and every modulus of the ids, and about every behaviour in   *)
(* which a regular combination of troubles may happen.                     *)
(***************************************************************************)

\* What the steps of processes, card and tasklet leave in every variable keeps
\* its type; a recycled handler's index and an id that comes round included.
THEOREM RchTypes ==
    ASSUME RegularEnvironments
    PROVE  Spec => []TypeOK
<1>1. IInv /\ Recycled => TypeOK
  <2> SUFFICES ASSUME IInv, Recycled PROVE TypeOK
    OBVIOUS
  <2>1. CoreOK /\ inRecycle \in [Paths -> [at : RecyclePC, rch : Rchs \cup {NoRch}]] /\ bh = NoReply
    BY DEF IInv, Typed, Recycled
  <2>2. 0 \in Ids
    BY Sizes DEF Ids
  <2>3. NoReply \in [at : BhPC, rch : Rchs \cup {NoRch}, id : Ids, ok : BOOLEAN,
                     handler : Functions, path : Paths \cup {NoPath}]
    BY <2>2 DEF NoReply, BhPC
  <2> QED BY <2>1, <2>3 DEF TypeOK
<1> QED BY <1>1, Invariance, PTL

\* A mapping that the card may still write to, or read from, is reserved and
\* belongs to one request: a read that a signal ended leaves it to the tasklet
\* (acq200_i2o.c:519), and release waits before it frees what is left (786-804).
THEOREM MappingsSafeFromDma ==
    ASSUME RegularEnvironments
    PROVE  Spec => []DmaSafe
<1>1. IInv => DmaSafe
  BY ImpliesDmaSafe
<1> QED BY <1>1, Invariance, PTL

\* A handler serves one read or write at a time, is reserved while it does, and
\* its active path (acq200.h:108) is the path of that request until the recycle.
THEOREM HandlerHasActivePath ==
    ASSUME RegularEnvironments
    PROVE  Spec => []ActivePath
<1>1. IInv => ActivePath
  BY ImpliesActivePath
<1> QED BY <1>1, Invariance, PTL

\* On one processor the list of outstanding handlers (rch.h) holds each one once,
\* only reserved ones, and only handlers of paths that are open: the tasklet never
\* wakes a path that acq200_release has freed (acq200_i2o.c:271).  No handler is
\* deleted that is not there, although i2o_recycleRch tests self->path without
\* the lock (238) and a reply may come before its list_del (rch.h:29), unless the
\* card reports errors or a signal has ended the wait of a release.
THEOREM ListStaysSound ==
    ASSUME RegularEnvironments
    PROVE  Spec => []ListSound
<1>1. IInv => ListSound
  BY ImpliesListSound
<1> QED BY <1>1, Invariance, PTL

\* A reply finds, by its id, the handler of the request it answers, although the
\* id is computed once for the handler and once for the message and comes round
\* (acq200_i2o.c:149, 180, 320).  The card needs a frame for every handler, as
\* each handler may be at the card, and sends fail in no behaviour in which
\* releases wait: a handler whose message was not sent has the id of the next.
THEOREM RepliesFindTheirRequest ==
    ASSUME RegularEnvironments, NHandlers <= InFrames,
           \A e \in Environments : "no_frame" \in e => "close_signal" \in e
    PROVE  Spec => []ReplyFindsRequest
<1>1. IInv => ReplyFindsRequest
  <2> SUFFICES ASSUME IInv PROVE ReplyFindsRequest
    OBVIOUS
  <2>1. env \in Environments
    BY DEF IInv, Typed, CoreOK
  <2>2. CASE "close_signal" \in env
    BY <2>2 DEF ReplyFindsRequest, Troubles
  <2>3. CASE "close_signal" \notin env
    BY <2>1, <2>3, ImpliesReplyFindsRequest
  <2> QED BY <2>2, <2>3
<1> QED BY <1>1, Invariance, PTL

\* On one processor, and until a process oopses with the null device of a handler
\* that was never built (acq200_i2o.c:477, 557), every reserved handler and
\* mapping has somebody who gives it back: a process, or a handler on the list
\* that the cleanup of release finds ("this to free any trapped rch", 834);
\* whatever signals, errors and missing frames happened, and unless a write had
\* zero bytes (564).
THEOREM NothingLeaks ==
    ASSUME RegularEnvironments
    PROVE  Spec => []NoLeak
<1>1. Init => AllOwned
  BY InitOwned
<1>2. IInv /\ Recycled /\ AllOwned /\ [Next]_vars => AllOwned'
  BY NextOwned
<1>3. AllOwned => NoLeak
  BY DEF AllOwned, RchOwned, MapOwned, NoLeak
<1> QED BY <1>1, <1>2, <1>3, Invariance, PTL DEF Spec
=============================================================================
