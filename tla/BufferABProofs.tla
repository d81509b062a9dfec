---------------------------- MODULE BufferABProofs ---------------------------
(***************************************************************************)
(* Proofs about the swinging buffers for any number of blocks, of timeouts *)
(* and of message ids.  When ioctls fail more often in a row than half the *)
(* ids (IdsComeRound) nothing is claimed but where no ioctl fails.         *)
(*                                                                         *)
(* Requests are numbered as they are sent.  The card serves them in that   *)
(* order, so request q gets block q; s is how many it has served, and g    *)
(* gives the number of the last request for a buffer, 0 before the first.  *)
(***************************************************************************)
EXTENDS BufferAB, Integers, SequenceTheorems, TLAPS

Sent(s) == s + Len(reqs)
BlockOf(q) == IF q <= MaxBlocks THEN q ELSE EOF
Requests == [id : Nat, buf : Buffers]

\* Ioctls that htstream makes at most before one succeeds, as long as no id
\* comes round: one, where there are more timeouts than ids for them.
Rounds == IF MaxTO = 0 \/ IdMod < 2 * MaxTO THEN 1 ELSE MaxTO

\* The requests at the card are the last ones, and none is newer than the one
\* the driver remembers for its buffer.
Queue(rq, s, g) ==
    /\ rq \in Seq(Requests) /\ \A b \in Buffers : g[b] <= s + Len(rq)
    /\ \A k \in 1 .. Len(rq) : rq[k].id = (s + k) % IdMod /\ s + k <= g[rq[k].buf]
    /\ \A k \in 1 .. Len(rq), b \in Buffers : s + k = g[b] => rq[k].buf = b
Numbered(s, g) == Queue(reqs, s, g) /\ lastId = Sent(s) % IdMod

\* A request that was served is valid and its block is in the memory: the
\* handler r and the memory m of a buffer whose last request is number q.
Slot(r, m, s, q) ==
    /\ q = 0 => r = NoRch
    /\ q > 0 => r.id = q % IdMod
    /\ q > s => r.valid = NoBlock
    /\ 0 < q /\ q <= s => r.valid = BlockOf(q)
    /\ 0 < q /\ q <= s /\ q <= MaxBlocks => m = q
Served(s, g) ==
    /\ block = (IF s <= MaxBlocks THEN s ELSE MaxBlocks)
    /\ rchAB \in [Buffers -> [id : Nat, valid : Nat]] /\ mem \in [Buffers -> Nat]
    /\ \A b \in Buffers : Slot(rchAB[b], mem[b], s, g[b])

\* Before an ioctl has succeeded.
Starting(s, g) ==
    /\ cpc \in {"ioctl", "wait"} /\ recycle = {} /\ abNext = 0 /\ next = 0 /\ timeouts = 0
    /\ out = <<>>
    /\ \/ cpc = "ioctl" /\ Sent(s) = 0 /\ g[0] = 0 /\ g[1] = 0
       \/ Sent(s) = 2 /\ g[0] = 1 /\ g[1] = 2

\* Between two successful ioctls, c of them made: the client has given back one
\* buffer, or both when both were full.
Tries == IF cpc = "wait" THEN timeouts + 1 ELSE timeouts
Waiting(s, g) ==
    /\ cpc \in {"ioctl", "wait"} /\ abNext \in Buffers /\ next = abNext
    /\ timeouts \in Nat /\ Tries <= Rounds /\ (cpc = "ioctl" => Tries < Rounds)
    /\ g[0] > 0 /\ g[1] > 0
    /\ \/ /\ recycle = {Other(abNext)} /\ Sent(s) - g[abNext] = Tries
          /\ Sent(s) - g[Other(abNext)] <= Rounds /\ Len(reqs) <= Rounds + Tries
          /\ Tries > 0 => g[Other(abNext)] = Sent(s)
       \/ /\ recycle = {0, 1} /\ Len(reqs) <= 2 * Tries
          /\ Tries > 0 => g[0] = Sent(s) - 1 /\ g[1] = Sent(s)

\* The client works on buffer b, and on the other one if both were full.
OneFull(s, g, b) ==
    /\ full[Other(b)] = NoBlock /\ abNext = Other(b)
    /\ g[Other(b)] = Sent(s) /\ Sent(s) - g[b] <= Rounds
TwoFull(s, g, b) ==
    /\ full[Other(b)] = BlockOf(g[Other(b)]) /\ abNext = b
    /\ g[Other(b)] <= s /\ Len(reqs) = 0
Working(s, g, b) ==
    /\ timeouts = 0 /\ g[0] > 0 /\ g[1] > 0
    /\ \/ cpc = "work" /\ next = b /\ recycle = {}
       \/ cpc = "work2" /\ next = Other(b) /\ recycle = {b}
    /\ full \in [Buffers -> Nat] /\ full[b] = BlockOf(g[b]) /\ g[b] <= s
    /\ OneFull(s, g, b) \/ TwoFull(s, g, b)

Phase(s, g) ==
    \/ started = FALSE /\ Starting(s, g)
    \/ started = TRUE /\ Waiting(s, g)
    \/ started = TRUE /\ \E b \in Buffers : Working(s, g, b)

\* Without timeouts every request is worked on once: what was worked on at each
\* place, and the two requests that are left.
Seen == {out[k] : k \in 1 .. Len(out)}
Injective == out \in Seq(Nat) /\ \A i, j \in 1 .. Len(out) : out[i] = out[j] => i = j
LastTwo(s, g) == {g[0], g[1]} = {Sent(s) - 1, Sent(s)}
Complete(s, g) ==
    /\ timeouts = 0
    /\ cpc = "ioctl" =>
         /\ Seen = 1 .. Len(out)
         /\ recycle \in {{0}, {1}} => Len(out) = Sent(s) - 1
         /\ recycle = {0, 1} => Len(out) = Sent(s)
    /\ cpc \in {"wait", "work"} =>
         LastTwo(s, g) /\ Seen = 1 .. Len(out) /\ Len(out) = Sent(s) - 2
    /\ cpc = "work2" =>
         /\ LastTwo(s, g)
         /\ LET b == Other(next)
            IN  /\ full[b] # EOF => Seen = 1 .. Sent(s) - 2 \cup {g[b]} /\ Len(out) = Sent(s) - 1
                /\ full[b] = EOF => Seen = 1 .. Sent(s) - 2

\* And when the client keeps up, they never both wait for it.
Quick(s, g) ==
    /\ recycle # {0, 1}
    /\ cpc \in {"wait", "work"} \/ (started = FALSE /\ g[0] > 0) => Len(reqs) > 0
    /\ cpc = "work2" => full[next] = NoBlock

Timely == env \cap {"timeout", "error"} = {}
Prompt == env \cap {"slow", "timeout", "error"} = {}
Body(s, g) ==
    /\ Numbered(s, g) /\ Served(s, g) /\ Phase(s, g)
    /\ Timely => Complete(s, g)
    /\ Prompt => Quick(s, g)
AbInv ==
    /\ Timely => Injective
    /\ Prompt => \A k \in 1 .. Len(out) : out[k] = k
    /\ cpc # "end" /\ ~ IdsComeRound => \E s \in Nat, g \in [Buffers -> Nat] : Body(s, g)

-----------------------------------------------------------------------------
\* Arithmetic of ids.
LEMMA Euclid ==
    ASSUME NEW m \in Nat, m > 0, NEW a \in Nat
    PROVE  \E q \in Nat : a = q * m + (a % m)
<1>1. a = m * (a \div m) + (a % m) /\ a \div m \in Nat
  OBVIOUS
<1> DEFINE q == a \div m
<1> HIDE DEF q
<1>2. q \in Nat /\ a = q * m + (a % m)
  <2>1. a = m * q + (a % m) /\ q \in Nat
    BY <1>1 DEF q
  <2>2. m * q = q * m
    BY <2>1
  <2> QED BY <2>1, <2>2
<1> QED BY <1>2

LEMMA Unique ==
    ASSUME NEW m \in Nat, m > 0, NEW q \in Nat, NEW r \in 0 .. m - 1
    PROVE  (q * m + r) % m = r
OBVIOUS

\* Two numbers of a window as long as the ids that have the same id are equal.
LEMMA SameId ==
    ASSUME NEW m \in Nat, m > 0, NEW a \in Nat, NEW b \in Nat, a % m = b % m,
           a - b < m, b - a < m
    PROVE  a = b
<1>1. PICK p \in Nat : a = p * m + (a % m)
  BY Euclid
<1>2. PICK q \in Nat : b = q * m + (b % m)
  BY Euclid
<1>3. a % m \in 0 .. m - 1
  OBVIOUS
<1> DEFINE r == a % m
<1> HIDE DEF r
<1>4. a = p * m + r /\ b = q * m + r /\ r \in Nat
  BY <1>1, <1>2, <1>3 DEF r
<1>5. CASE p >= q + 1
  <2>1. PICK d \in Nat : p = q + 1 + d
    BY <1>5
  <2>2. a - b = (1 + d) * m
    BY <1>4, <2>1
  <2>3. (1 + d) * m >= m
    OBVIOUS
  <2> QED BY <2>2, <2>3
<1>6. CASE q >= p + 1
  <2>1. PICK d \in Nat : q = p + 1 + d
    BY <1>6
  <2>2. b - a = (1 + d) * m
    BY <1>4, <2>1
  <2>3. (1 + d) * m >= m
    OBVIOUS
  <2> QED BY <2>2, <2>3
<1> QED BY <1>4, <1>5, <1>6

LEMMA ModAdd ==
    ASSUME NEW m \in Nat, m > 0, NEW n \in Nat, NEW j \in Nat
    PROVE  ((n % m) + j) % m = (n + j) % m
<1>1. PICK q \in Nat : n = q * m + (n % m)
  BY Euclid
<1> DEFINE r == n % m
<1>2. r \in 0 .. m - 1
  OBVIOUS
<1> HIDE DEF r
<1>3. n = q * m + r
  BY <1>1 DEF r
<1> DEFINE x == r + j
<1>8. x \in Nat
  BY <1>2
<1> HIDE DEF x
<1>4. PICK p \in Nat : x = p * m + (x % m)
  BY <1>8, Euclid
<1>5. x % m \in 0 .. m - 1 /\ x \in Nat
  BY <1>8
<1> DEFINE t == x % m
<1> HIDE DEF t
<1>6. n + j = (q + p) * m + t
  <2>1. n + j = q * m + x
    BY <1>2, <1>3 DEF x
  <2>2. x = p * m + t
    BY <1>4 DEF t
  <2>3. t \in Nat
    BY <1>5 DEF t
  <2> QED BY <2>1, <2>2, <2>3
<1>7. ((q + p) * m + t) % m = t
  BY <1>5, Unique DEF t
<1> QED BY <1>6, <1>7 DEF t, x, r

LEMMA BoundFacts ==
    /\ MaxBlocks \in Nat /\ EOF = MaxBlocks + 1 /\ NoBlock = 0
    /\ IdMod \in Nat /\ IdMod >= 2 /\ Rounds \in Nat /\ Rounds >= 1 /\ 2 * Rounds <= IdMod
    /\ Buffers = {0, 1} /\ Other(0) = 1 /\ Other(1) = 0
BY BoundsAssumption DEF Rounds, EOF, NoBlock, Buffers, Other

\* One more request, and one less.
LEMMA QueueAppend ==
    ASSUME NEW rq, NEW s \in Nat, NEW g \in [Buffers -> Nat], Queue(rq, s, g), NEW b \in Buffers,
           NEW h \in [Buffers -> Nat], h[b] = s + Len(rq) + 1, \A c \in Buffers : c # b => h[c] = g[c],
           NEW x \in Requests, x.buf = b, x.id = (s + Len(rq) + 1) % IdMod
    PROVE  Queue(Append(rq, x), s, h) /\ Len(Append(rq, x)) = Len(rq) + 1
<1> DEFINE q == Append(rq, x)
<1>1. rq \in Seq(Requests) /\ Len(rq) \in Nat
  BY DEF Queue
<1>2. /\ q \in Seq(Requests) /\ Len(q) = Len(rq) + 1 /\ q[Len(rq) + 1] = x
      /\ \A k \in 1 .. Len(rq) : q[k] = rq[k]
  BY <1>1
<1> HIDE DEF q
<1>3. \A k \in 1 .. Len(q) : k \in 1 .. Len(rq) \/ k = Len(rq) + 1
  BY <1>1, <1>2
<1>4. \A c \in Buffers : h[c] <= s + Len(q) /\ g[c] <= h[c]
  <2> TAKE c \in Buffers
  <2>1. g[c] <= s + Len(rq) /\ g[c] \in Nat
    BY DEF Queue
  <2>2. CASE c = b
    BY <1>1, <1>2, <2>1, <2>2
  <2>3. CASE c # b
    BY <1>1, <1>2, <2>1, <2>3
  <2> QED BY <2>2, <2>3
<1>5. \A k \in 1 .. Len(q) : q[k].id = (s + k) % IdMod /\ s + k <= h[q[k].buf]
  <2> TAKE k \in 1 .. Len(q)
  <2>1. CASE k \in 1 .. Len(rq)
    <3>1. q[k] = rq[k] /\ rq[k].id = (s + k) % IdMod /\ s + k <= g[rq[k].buf] /\ rq[k].buf \in Buffers
      <4>1. rq[k] \in Requests
        BY <1>1, <2>1
      <4>2. rq[k].buf \in Buffers
        BY <4>1 DEF Requests
      <4> QED BY <1>2, <2>1, <4>2 DEF Queue
    <3> QED BY <1>4, <3>1
  <2>2. CASE k = Len(rq) + 1
    BY <1>1, <1>2, <2>2
  <2> QED BY <1>3, <2>1, <2>2
<1>6. \A k \in 1 .. Len(q), c \in Buffers : s + k = h[c] => q[k].buf = c
  <2> SUFFICES ASSUME NEW k \in 1 .. Len(q), NEW c \in Buffers, s + k = h[c] PROVE q[k].buf = c
    OBVIOUS
  <2>1. CASE k \in 1 .. Len(rq)
    <3>1. c # b
      BY <1>1, <2>1
    <3> QED BY <1>2, <2>1, <3>1 DEF Queue
  <2>2. CASE k = Len(rq) + 1
    <3>1. c = b
      BY <1>1, <2>2 DEF Queue
    <3> QED BY <1>2, <2>2, <3>1
  <2> QED BY <1>3, <2>1, <2>2
<1> QED BY <1>2, <1>4, <1>5, <1>6 DEF Queue, q

LEMMA QueueTail ==
    ASSUME NEW rq, NEW s \in Nat, NEW g \in [Buffers -> Nat], Queue(rq, s, g), rq # <<>>
    PROVE  /\ Queue(Tail(rq), s + 1, g) /\ Len(rq) > 0 /\ Len(Tail(rq)) = Len(rq) - 1
           /\ Head(rq).id = (s + 1) % IdMod /\ Head(rq).buf \in Buffers
           /\ s + 1 <= g[Head(rq).buf] /\ \A b \in Buffers : s + 1 = g[b] => Head(rq).buf = b
<1> DEFINE q == Tail(rq)
<1>1. rq \in Seq(Requests) /\ Len(rq) \in Nat /\ Len(rq) > 0 /\ Head(rq) = rq[1]
  BY DEF Queue
<1>2. /\ q \in Seq(Requests) /\ Len(q) = Len(rq) - 1 /\ \A k \in 1 .. Len(q) : q[k] = rq[k + 1]
  BY <1>1
<1> HIDE DEF q
<1>3. \A k \in 1 .. Len(q) : k + 1 \in 1 .. Len(rq) /\ s + (k + 1) = (s + 1) + k
  BY <1>1, <1>2
<1>4. 1 \in 1 .. Len(rq)
  BY <1>1
<1>5. /\ rq[1].id = (s + 1) % IdMod /\ rq[1].buf \in Buffers
      /\ s + 1 <= g[rq[1].buf] /\ \A b \in Buffers : s + 1 = g[b] => rq[1].buf = b
  <2>1. rq[1] \in Requests
    BY <1>1, <1>4
  <2>2. rq[1].buf \in Buffers
    BY <2>1 DEF Requests
  <2> QED BY <1>4, <2>2 DEF Queue
<1>6. \A k \in 1 .. Len(q) : q[k].id = ((s + 1) + k) % IdMod /\ (s + 1) + k <= g[q[k].buf]
  <2> TAKE k \in 1 .. Len(q)
  <2>1. /\ rq[k + 1].id = (s + (k + 1)) % IdMod /\ s + (k + 1) <= g[rq[k + 1].buf]
    BY <1>3 DEF Queue
  <2> QED BY <1>2, <1>3, <2>1
<1>7. \A k \in 1 .. Len(q), b \in Buffers : (s + 1) + k = g[b] => q[k].buf = b
  <2> SUFFICES ASSUME NEW k \in 1 .. Len(q), NEW b \in Buffers, (s + 1) + k = g[b] PROVE q[k].buf = b
    OBVIOUS
  <2>1. s + (k + 1) = g[b] => rq[k + 1].buf = b
    BY <1>3 DEF Queue
  <2> QED BY <1>2, <1>3, <2>1
<1>8. \A b \in Buffers : g[b] <= (s + 1) + Len(q)
  BY <1>1, <1>2 DEF Queue
<1> QED BY <1>1, <1>2, <1>5, <1>6, <1>7, <1>8 DEF Queue, q

\* The ids in use are those of a window that the ids cover.
LEMMA Window ==
    ASSUME NEW s \in Nat, NEW g \in [Buffers -> Nat], Numbered(s, g), Phase(s, g), Len(reqs) > 0
    PROVE  Len(reqs) <= IdMod /\ \A b \in Buffers : g[b] > 0 => Sent(s) - g[b] < IdMod
<1> USE BoundFacts
<1>1. Len(reqs) \in Nat /\ Sent(s) \in Nat /\ \A b \in Buffers : g[b] <= Sent(s) /\ g[b] \in Nat
  <2>1. reqs \in Seq(Requests) /\ \A b \in Buffers : g[b] <= s + Len(reqs)
    BY DEF Numbered, Queue
  <2> QED BY <2>1 DEF Sent
<1>2. CASE Starting(s, g)
  <2>1. Sent(s) = 2 /\ g[0] = 1 /\ g[1] = 2
    BY <1>1, <1>2 DEF Starting, Sent
  <2> QED BY <1>1, <2>1 DEF Sent
<1>3. CASE Waiting(s, g)
  <2>1. Tries \in Nat /\ Tries <= Rounds /\ abNext \in Buffers
    BY <1>3 DEF Waiting, Tries
  <2>2. CASE /\ Sent(s) - g[abNext] = Tries /\ Sent(s) - g[Other(abNext)] <= Rounds
             /\ Len(reqs) <= Rounds + Tries
    BY <1>1, <2>1, <2>2
  <2>3. CASE /\ Len(reqs) <= 2 * Tries
             /\ Tries > 0 => g[0] = Sent(s) - 1 /\ g[1] = Sent(s)
    BY <1>1, <2>1, <2>3
  <2> QED BY <1>3, <2>2, <2>3 DEF Waiting
<1>4. ASSUME NEW b \in Buffers, Working(s, g, b) PROVE Len(reqs) <= IdMod /\ \A c \in Buffers : Sent(s) - g[c] < IdMod
  <2>1. g[b] <= s /\ g[Other(b)] = Sent(s) /\ Sent(s) - g[b] <= Rounds
    BY <1>4 DEF Working, OneFull, TwoFull
  <2> QED BY <1>1, <2>1 DEF Sent
<1> QED BY <1>2, <1>3, <1>4 DEF Phase

\* A reply finds the handler of the last request for its buffer, or none.
LEMMA MatchesOwn ==
    ASSUME NEW s \in Nat, NEW g \in [Buffers -> Nat], Numbered(s, g), Served(s, g), Phase(s, g),
           reqs # <<>>, NEW b \in Buffers
    PROVE  rchAB[b].id = Head(reqs).id <=> g[b] = s + 1
<1> USE BoundFacts
<1>1. /\ Len(reqs) \in Nat /\ Len(reqs) > 0 /\ Head(reqs).id = (s + 1) % IdMod
      /\ g[b] \in Nat /\ g[b] <= Sent(s)
  BY QueueTail DEF Numbered, Queue, Sent
<1>2. CASE g[b] = 0
  <2>1. rchAB[b].id = IdMod
    BY <1>2 DEF Served, Slot, NoRch
  <2>2. (s + 1) % IdMod < IdMod
    OBVIOUS
  <2> QED BY <1>1, <1>2, <2>1, <2>2
<1>3. CASE g[b] > 0
  <2>1. rchAB[b].id = g[b] % IdMod
    BY <1>3 DEF Served, Slot
  <2>2. Len(reqs) <= IdMod /\ Sent(s) - g[b] < IdMod
    BY <1>1, <1>3, Window
  <2> DEFINE a == g[b]  c == s + 1
  <2>3. a \in Nat /\ c \in Nat /\ a - c < IdMod /\ c - a < IdMod
    BY <1>1, <2>2 DEF Sent
  <2> HIDE DEF a, c
  <2>4. a % IdMod = c % IdMod <=> a = c
    BY <2>3, SameId
  <2> QED BY <1>1, <2>1, <2>4 DEF a, c
<1> QED BY <1>1, <1>2, <1>3

\* The card fills a buffer.
LEMMA FillStep ==
    ASSUME NEW s \in Nat, NEW g \in [Buffers -> Nat], Numbered(s, g), Served(s, g), Phase(s, g),
           CardFill
    PROVE  /\ Numbered(s + 1, g)' /\ Served(s + 1, g)' /\ Phase(s + 1, g)'
           /\ Sent(s + 1)' = Sent(s) /\ Len(reqs') = Len(reqs) - 1 /\ Len(reqs) \in Nat
<1> USE BoundFacts
<1> DEFINE r == Head(reqs)
           n == IF block = MaxBlocks THEN EOF ELSE block + 1
<1>1. /\ reqs # <<>> /\ reqs' = Tail(reqs)
      /\ block' = IF n = EOF THEN block ELSE n
      /\ mem' = IF n = EOF THEN mem ELSE [mem EXCEPT ![r.buf] = n]
      /\ rchAB' = [b \in Buffers |-> IF rchAB[b].id = r.id THEN [rchAB[b] EXCEPT !.valid = n]
                                      ELSE rchAB[b]]
      /\ UNCHANGED <<abNext, lastId, full, recycle, next, cpc, timeouts, started, out, env>>
  BY DEF CardFill
<1>2. /\ Queue(reqs', s + 1, g) /\ Len(reqs) > 0 /\ Len(reqs') = Len(reqs) - 1
      /\ r.buf \in Buffers /\ s + 1 <= g[r.buf] /\ \A b \in Buffers : s + 1 = g[b] => r.buf = b
  BY <1>1, QueueTail DEF Numbered
<1>3. Len(reqs) \in Nat /\ Sent(s) \in Nat /\ Sent(s + 1)' = Sent(s)
  <2>1. Len(reqs) \in Nat
    BY DEF Numbered, Queue
  <2> QED BY <1>2, <2>1 DEF Sent
<1>4. Numbered(s + 1, g)'
  BY <1>1, <1>2, <1>3 DEF Numbered
<1>5. /\ n = BlockOf(s + 1) /\ n \in Nat /\ (n = EOF <=> s + 1 > MaxBlocks)
      /\ block' = IF s + 1 <= MaxBlocks THEN s + 1 ELSE MaxBlocks
  <2>1. block = (IF s <= MaxBlocks THEN s ELSE MaxBlocks)
    BY DEF Served
  <2>2. CASE s < MaxBlocks
    BY <1>1, <2>1, <2>2 DEF BlockOf
  <2>3. CASE s >= MaxBlocks
    BY <1>1, <2>1, <2>3 DEF BlockOf
  <2> QED BY <2>2, <2>3
<1>6. \A b \in Buffers : rchAB[b].id = r.id <=> g[b] = s + 1
  BY <1>1, MatchesOwn
<1> HIDE DEF n, r
<1>7. /\ rchAB' \in [Buffers -> [id : Nat, valid : Nat]] /\ mem' \in [Buffers -> Nat]
      /\ \A b \in Buffers : g[b] = s + 1 => rchAB'[b].id = rchAB[b].id /\ rchAB'[b].valid = n
      /\ \A b \in Buffers : g[b] # s + 1 => rchAB'[b] = rchAB[b]
      /\ \A b \in Buffers : b # r.buf => mem'[b] = mem[b]
      /\ n # EOF => mem'[r.buf] = n
  <2>1. rchAB \in [Buffers -> [id : Nat, valid : Nat]] /\ mem \in [Buffers -> Nat] /\ n \in Nat
    BY <1>5 DEF Served
  <2>2. /\ mem' \in [Buffers -> Nat] /\ \A b \in Buffers : b # r.buf => mem'[b] = mem[b]
        /\ n # EOF => mem'[r.buf] = n
    BY <1>1, <1>2, <2>1
  <2>3. /\ rchAB' \in [Buffers -> [id : Nat, valid : Nat]]
        /\ \A b \in Buffers : rchAB[b].id = r.id => rchAB'[b].id = rchAB[b].id /\ rchAB'[b].valid = n
        /\ \A b \in Buffers : rchAB[b].id # r.id => rchAB'[b] = rchAB[b]
    BY <1>1, <2>1
  <2> QED BY <1>6, <2>2, <2>3
<1>8. ASSUME NEW b \in Buffers PROVE Slot(rchAB'[b], mem'[b], s + 1, g[b])
  <2>0. g[b] \in Nat /\ Slot(rchAB[b], mem[b], s, g[b])
    BY DEF Served
  <2>1. CASE g[b] = s + 1
    <3>1. r.buf = b /\ rchAB'[b].id = rchAB[b].id /\ rchAB'[b].valid = n
      BY <1>2, <1>7, <2>1
    <3>2. rchAB[b].id = g[b] % IdMod
      BY <2>0, <2>1 DEF Slot
    <3> QED BY <1>5, <1>7, <2>1, <3>1, <3>2 DEF Slot, BlockOf
  <2>2. CASE g[b] # s + 1
    <3>1. rchAB'[b] = rchAB[b]
      BY <1>7, <2>2
    <3>2. g[b] <= s => mem'[b] = mem[b]
      <4>1. g[b] <= s => b # r.buf
        BY <1>2, <2>0
      <4> QED BY <1>7, <4>1
    <3> QED BY <2>0, <2>2, <3>1, <3>2 DEF Slot
  <2> QED BY <2>1, <2>2
<1>9. Served(s + 1, g)'
  BY <1>5, <1>7, <1>8 DEF Served
<1>10. Phase(s + 1, g)'
  <2>1. CASE started = FALSE /\ Starting(s, g)
    BY <1>1, <1>3, <2>1 DEF Phase, Starting
  <2>2. CASE started = TRUE /\ Waiting(s, g)
    <3>1. Tries' = Tries /\ Tries \in Nat
      BY <1>1, <2>2 DEF Tries, Waiting
    <3>3. /\ Len(reqs) <= Rounds + Tries => Len(reqs') <= Rounds + Tries
          /\ Len(reqs) <= 2 * Tries => Len(reqs') <= 2 * Tries
      BY <1>2, <1>3, <3>1
    <3>2. Waiting(s + 1, g)'
      <4>1. CASE recycle = {Other(abNext)}
        BY <1>1, <1>3, <2>2, <3>1, <3>3, <4>1 DEF Waiting
      <4>2. CASE recycle = {0, 1}
        BY <1>1, <1>3, <2>2, <3>1, <3>3, <4>2 DEF Waiting
      <4> QED BY <2>2, <4>1, <4>2 DEF Waiting
    <3> QED BY <1>1, <2>2, <3>2 DEF Phase
  <2>3. ASSUME started = TRUE, NEW b \in Buffers, Working(s, g, b) PROVE Phase(s + 1, g)'
    <3>1. OneFull(s, g, b)
      BY <1>2, <2>3 DEF Working, TwoFull
    <3>2. Working(s + 1, g, b)'
      <4>1. OneFull(s + 1, g, b)'
        BY <1>1, <1>3, <3>1 DEF OneFull
      <4>2. g[b] <= s /\ g[b] <= s + 1
        BY <2>3 DEF Working
      <4> QED BY <1>1, <2>3, <4>1, <4>2 DEF Working
    <3> QED BY <1>1, <2>3, <3>2 DEF Phase
  <2> QED BY <2>1, <2>2, <2>3 DEF Phase
<1> QED BY <1>2, <1>3, <1>4, <1>9, <1>10

-----------------------------------------------------------------------------
(***************************************************************************)
(* acq200_bufferABrecycle and acq200_bufferAB_queue: none, one or two new  *)
(* requests.                                                               *)
(***************************************************************************)
LEMMA QueuedAre ==
    ASSUME NEW s \in Nat, NEW g \in [Buffers -> Nat], Served(s, g)
    PROVE  ToQueue = recycle \cup {b \in Buffers : g[b] = 0}
<1> USE BoundFacts
<1>1. ASSUME NEW b \in Buffers PROVE rchAB[b] = NoRch <=> g[b] = 0
  <2>1. CASE g[b] = 0
    BY <2>1 DEF Served, Slot
  <2>2. CASE g[b] > 0
    <3>1. rchAB[b].id = g[b] % IdMod
      BY <2>2 DEF Served, Slot
    <3>2. g[b] % IdMod < IdMod
      OBVIOUS
    <3>3. NoRch.id = IdMod
      BY DEF NoRch
    <3>4. rchAB[b].id # NoRch.id
      BY <3>1, <3>2, <3>3
    <3> QED BY <2>2, <3>4
  <2> QED BY <2>1, <2>2
<1> QED BY <1>1, Zenon DEF ToQueue

\* The ids of the new requests.
LEMMA NewIds ==
    ASSUME NEW s \in Nat, NEW g \in [Buffers -> Nat], Numbered(s, g)
    PROVE  /\ Len(reqs) \in Nat /\ Sent(s) \in Nat /\ lastId % IdMod = lastId
           /\ (lastId + 0) % IdMod = Sent(s) % IdMod
           /\ (lastId + 1) % IdMod = (Sent(s) + 1) % IdMod
           /\ (lastId + 2) % IdMod = (Sent(s) + 2) % IdMod
<1> USE BoundFacts
<1>1. Len(reqs) \in Nat
  BY DEF Numbered, Queue
<1> DEFINE n == Sent(s)
<1>2. n \in Nat
  BY <1>1 DEF Sent
<1>3. lastId = n % IdMod
  BY DEF Numbered
<1> HIDE DEF n
<1>4. \A j \in Nat : (lastId + j) % IdMod = (n + j) % IdMod
  <2> TAKE j \in Nat
  <2>1. ((n % IdMod) + j) % IdMod = (n + j) % IdMod
    <3>1. IdMod \in Nat /\ IdMod > 0
      OBVIOUS
    <3> QED BY <1>2, <3>1, ModAdd, Zenon
  <2> QED BY <1>3, <2>1
<1>5. lastId \in Nat /\ lastId + 0 = lastId /\ n + 0 = n
  BY <1>2, <1>3
<1>6. (lastId + 0) % IdMod = (n + 0) % IdMod
  BY <1>4
<1> QED BY <1>1, <1>2, <1>3, <1>4, <1>5, <1>6 DEF n

\* A buffer with a new request waits for it.
LEMMA NewSlot ==
    ASSUME NEW s \in Nat, NEW q \in Nat, q > s, NEW m,
           NEW r, r = [id |-> q % IdMod, valid |-> NoBlock]
    PROVE  Slot(r, m, s, q)
BY DEF Slot

LEMMA IoctlNone ==
    ASSUME NEW s \in Nat, NEW g \in [Buffers -> Nat], Numbered(s, g), Served(s, g), Ioctl,
           ToQueue = {}
    PROVE  Numbered(s, g)' /\ Served(s, g)' /\ reqs' = reqs
<1> USE BoundFacts
<1>1. NewReqs = <<>> \o <<>>
  <2>1. ~ (0 \in ToQueue) /\ ~ (1 \in ToQueue)
    OBVIOUS
  <2> QED BY <2>1, Zenon DEF NewReqs
<1>2. reqs \in Seq(Requests)
  BY DEF Numbered, Queue
<1>3. NewReqs = <<>> /\ Len(NewReqs) = 0
  BY <1>1
<1>4. reqs' = reqs
  BY <1>2, <1>3 DEF Ioctl
<1>5. lastId' = lastId
  BY <1>3, NewIds DEF Ioctl, Numbered
<1>6. rchAB \in [Buffers -> [id : Nat, valid : Nat]]
  BY DEF Served
<1>7. rchAB' = rchAB /\ UNCHANGED <<block, mem>>
  BY <1>6 DEF Ioctl
<1> QED BY <1>4, <1>5, <1>7 DEF Numbered, Served, Sent

LEMMA IoctlOne ==
    ASSUME NEW s \in Nat, NEW g \in [Buffers -> Nat], Numbered(s, g), Served(s, g), Ioctl,
           NEW b \in Buffers, ToQueue = {b},
           NEW h \in [Buffers -> Nat], h[b] = Sent(s) + 1, h[Other(b)] = g[Other(b)]
    PROVE  Numbered(s, h)' /\ Served(s, h)' /\ Len(reqs') = Len(reqs) + 1
<1> USE BoundFacts
<1> DEFINE x == [id |-> (Sent(s) + 1) % IdMod, buf |-> b]
<1>0. Len(reqs) \in Nat /\ Sent(s) \in Nat /\ reqs \in Seq(Requests)
  BY NewIds DEF Numbered, Queue
<1>1. IdOf(b) = (Sent(s) + 1) % IdMod
  BY NewIds DEF IdOf
<1>2. x \in Requests /\ x.buf = b /\ x.id = (s + Len(reqs) + 1) % IdMod
  BY <1>0 DEF Requests, Sent
<1>3. NewReqs = <<x>>
  <2>1. CASE b = 0
    <3>1. NewReqs = <<x>> \o <<>>
      BY <1>1, <2>1 DEF NewReqs
    <3> QED BY <3>1
  <2>2. CASE b = 1
    <3>1. NewReqs = <<>> \o <<x>>
      BY <1>1, <2>2 DEF NewReqs
    <3> QED BY <3>1
  <2> QED BY <2>1, <2>2
<1> HIDE DEF x
<1>4. reqs' = Append(reqs, x) /\ lastId' = (lastId + 1) % IdMod
  <2>1. reqs' = reqs \o <<x>> /\ lastId' = (lastId + Len(<<x>>)) % IdMod
    BY <1>3 DEF Ioctl
  <2>2. Len(<<x>>) = 1 /\ reqs \o <<x>> = Append(reqs, x)
    BY <1>0, <1>2
  <2> QED BY <2>1, <2>2
<1>5. Queue(reqs', s, h) /\ Len(reqs') = Len(reqs) + 1
  <2>1. h[b] = s + Len(reqs) + 1 /\ \A c \in Buffers : c # b => h[c] = g[c]
    BY DEF Sent
  <2> QED BY <1>2, <1>4, <2>1, QueueAppend DEF Numbered
<1>6. Numbered(s, h)'
  <2>1. Sent(s)' = Sent(s) + 1
    BY <1>0, <1>5 DEF Sent
  <2> QED BY <1>4, <1>5, <2>1, NewIds DEF Numbered
<1>7. rchAB' = [c \in Buffers |-> IF c = b THEN [id |-> h[b] % IdMod, valid |-> NoBlock] ELSE rchAB[c]]
  BY <1>1 DEF Ioctl
<1>8. UNCHANGED <<block, mem>>
  BY DEF Ioctl
<1>9. Served(s, h)'
  <2>1. rchAB' \in [Buffers -> [id : Nat, valid : Nat]]
    BY <1>7 DEF Served
  <2>2. ASSUME NEW c \in Buffers PROVE Slot(rchAB'[c], mem[c], s, h[c])
    <3>1. CASE c = b
      <4>1. rchAB'[c] = [id |-> h[c] % IdMod, valid |-> NoBlock] /\ h[c] > s
        BY <1>0, <1>7, <3>1 DEF Sent
      <4> QED BY <4>1, NewSlot
    <3>2. CASE c # b
      <4>1. rchAB'[c] = rchAB[c] /\ h[c] = g[c]
        BY <1>7, <3>2
      <4> QED BY <4>1 DEF Served
    <3> QED BY <3>1, <3>2
  <2> QED BY <1>8, <2>1, <2>2 DEF Served
<1> QED BY <1>5, <1>6, <1>9

\* Two requests after one another.
LEMMA TwoMore ==
    ASSUME NEW S, NEW q \in Seq(S), NEW x \in S, NEW y \in S
    PROVE  q \o (<<x>> \o <<y>>) = Append(Append(q, x), y) /\ Len(<<x>> \o <<y>>) = 2
<1>1. <<x>> \in Seq(S) /\ <<y>> \in Seq(S) /\ Len(<<x>>) = 1 /\ Len(<<y>>) = 1
  OBVIOUS
<1>2. Append(q, x) = q \o <<x>>
  OBVIOUS
<1>3. Append(q \o <<x>>, y) = (q \o <<x>>) \o <<y>>
  <2>1. q \o <<x>> \in Seq(S)
    BY <1>1
  <2> QED BY <2>1
<1>4. (q \o <<x>>) \o <<y>> = q \o (<<x>> \o <<y>>)
  BY <1>1, ConcatAssociative
<1> QED BY <1>1, <1>2, <1>3, <1>4

LEMMA IoctlBoth ==
    ASSUME NEW s \in Nat, NEW g \in [Buffers -> Nat], Numbered(s, g), Served(s, g), Ioctl,
           ToQueue = {0, 1},
           NEW h \in [Buffers -> Nat], h[0] = Sent(s) + 1, h[1] = Sent(s) + 2
    PROVE  Numbered(s, h)' /\ Served(s, h)' /\ Len(reqs') = Len(reqs) + 2
<1> USE BoundFacts
<1> DEFINE x == [id |-> (Sent(s) + 1) % IdMod, buf |-> 0]
           y == [id |-> (Sent(s) + 2) % IdMod, buf |-> 1]
           q == Append(reqs, x)
           f == [c \in Buffers |-> IF c = 0 THEN Sent(s) + 1 ELSE g[c]]
<1>0. Len(reqs) \in Nat /\ Sent(s) \in Nat /\ reqs \in Seq(Requests)
  BY NewIds DEF Numbered, Queue
<1>1. IdOf(0) = (Sent(s) + 1) % IdMod /\ IdOf(1) = (Sent(s) + 2) % IdMod
  BY NewIds DEF IdOf
<1>2. /\ x \in Requests /\ x.buf = 0 /\ x.id = (s + Len(reqs) + 1) % IdMod
      /\ y \in Requests /\ y.buf = 1 /\ y.id = (Sent(s) + 2) % IdMod
  BY <1>0 DEF Requests, Sent
<1>10. NewReqs = <<x>> \o <<y>>
  BY <1>1 DEF NewReqs
<1>11. f \in [Buffers -> Nat] /\ f[0] = s + Len(reqs) + 1 /\ f[1] = g[1]
  BY <1>0 DEF Sent
<1> HIDE DEF x, y, f
<1>4. reqs' = Append(q, y) /\ lastId' = (lastId + 2) % IdMod
  <2>1. reqs' = reqs \o NewReqs /\ lastId' = (lastId + Len(NewReqs)) % IdMod
    BY DEF Ioctl
  <2>2. reqs \o NewReqs = Append(Append(reqs, x), y) /\ Len(NewReqs) = 2
    <3>1. reqs \o (<<x>> \o <<y>>) = Append(Append(reqs, x), y) /\ Len(<<x>> \o <<y>>) = 2
      BY <1>0, <1>2, TwoMore
    <3> QED BY <1>10, <3>1, Zenon
  <2> QED BY <2>1, <2>2
<1>12. Queue(q, s, f) /\ Len(q) = Len(reqs) + 1
  <2>1. \A c \in Buffers : c # 0 => f[c] = g[c]
    BY <1>11
  <2> QED BY <1>2, <1>11, <2>1, QueueAppend DEF Numbered
<1> HIDE DEF q
<1>5. Queue(reqs', s, h) /\ Len(reqs') = Len(reqs) + 2
  <2>1. \A c \in Buffers : c # 1 => h[c] = f[c]
    BY <1>11 DEF Sent
  <2>2. h[1] = s + Len(q) + 1 /\ y.id = (s + Len(q) + 1) % IdMod /\ Len(q) + 1 = Len(reqs) + 2
    <3>1. s + Len(q) + 1 = Sent(s) + 2 /\ Len(q) + 1 = Len(reqs) + 2
      BY <1>0, <1>12 DEF Sent
    <3> QED BY <1>2, <3>1
  <2>3. Queue(Append(q, y), s, h) /\ Len(Append(q, y)) = Len(q) + 1
    <3>1. 1 \in Buffers /\ f \in [Buffers -> Nat] /\ y \in Requests /\ y.buf = 1 /\ Queue(q, s, f)
      BY <1>2, <1>11, <1>12
    <3> HIDE BoundFacts
    <3> QED BY <2>1, <2>2, <3>1, QueueAppend
  <2> QED BY <1>4, <2>2, <2>3
<1>6. Numbered(s, h)'
  <2>1. Sent(s)' = Sent(s) + 2
    BY <1>0, <1>5 DEF Sent
  <2> QED BY <1>4, <1>5, <2>1, NewIds DEF Numbered
<1>7. rchAB' = [c \in Buffers |-> [id |-> h[c] % IdMod, valid |-> NoBlock]]
  <2>1. \A c \in Buffers : IdOf(c) = h[c] % IdMod /\ c \in ToQueue
    BY <1>1
  <2>2. rchAB' = [c \in Buffers |-> IF c \in ToQueue THEN [id |-> IdOf(c), valid |-> NoBlock]
                                     ELSE rchAB[c]]
    BY DEF Ioctl
  <2> QED BY <2>1, <2>2, Zenon
<1>8. UNCHANGED <<block, mem>>
  BY DEF Ioctl
<1>9. Served(s, h)'
  <2>1. rchAB' \in [Buffers -> [id : Nat, valid : Nat]]
    BY <1>7
  <2>2. ASSUME NEW c \in Buffers PROVE Slot(rchAB'[c], mem[c], s, h[c])
    <3>1. rchAB'[c] = [id |-> h[c] % IdMod, valid |-> NoBlock] /\ h[c] > s
      BY <1>0, <1>7 DEF Sent
    <3> QED BY <3>1, NewSlot
  <2> QED BY <1>8, <2>1, <2>2 DEF Served
<1> QED BY <1>5, <1>6, <1>9

-----------------------------------------------------------------------------
(***************************************************************************)
(* The steps of the client, the driver and the card.                       *)
(***************************************************************************)
\* What is valid has been served.
LEMMA ValidServed ==
    ASSUME NEW s \in Nat, NEW g \in [Buffers -> Nat], Served(s, g), NEW b \in Buffers
    PROVE  /\ rchAB[b].valid # NoBlock <=> 0 < g[b] /\ g[b] <= s
           /\ rchAB[b].valid # NoBlock => rchAB[b].valid = BlockOf(g[b])
<1> USE BoundFacts
<1>0. Slot(rchAB[b], mem[b], s, g[b]) /\ g[b] \in Nat
  BY DEF Served
<1>1. g[b] > 0 => BlockOf(g[b]) # NoBlock
  BY <1>0 DEF BlockOf
<1>2. CASE g[b] = 0
  BY <1>0, <1>2 DEF Slot, NoRch
<1>3. CASE g[b] > s
  BY <1>0, <1>3 DEF Slot
<1>4. CASE 0 < g[b] /\ g[b] <= s
  BY <1>0, <1>1, <1>4 DEF Slot
<1> QED BY <1>0, <1>2, <1>3, <1>4

\* Numbers that are used in every step.
LEMMA Numbers ==
    ASSUME NEW s \in Nat, NEW g \in [Buffers -> Nat], Numbered(s, g)
    PROVE  /\ Len(reqs) \in Nat /\ Sent(s) \in Nat /\ Sent(s) = s + Len(reqs)
           /\ \A b \in Buffers : g[b] \in Nat /\ g[b] <= Sent(s)
<1>1. reqs \in Seq(Requests) /\ \A b \in Buffers : g[b] <= s + Len(reqs)
  BY DEF Numbered, Queue
<1> QED BY <1>1 DEF Sent

\* The numbers of the last requests.
LEMMA TwoNumbers ==
    ASSUME NEW i \in Nat, NEW j \in Nat
    PROVE  \E h \in [Buffers -> Nat] : h[0] = i /\ h[1] = j
<1> DEFINE f == [b \in Buffers |-> IF b = 0 THEN i ELSE j]
<1>1. f \in [Buffers -> Nat] /\ f[0] = i /\ f[1] = j
  BY BoundFacts
<1> QED BY <1>1

LEMMA IoctlBody ==
    ASSUME NEW s \in Nat, NEW g \in [Buffers -> Nat], Body(s, g), Ioctl
    PROVE  \E h \in [Buffers -> Nat] : Body(s, h)'
<1> USE BoundFacts
<1>0. /\ Numbered(s, g) /\ Served(s, g) /\ Phase(s, g)
      /\ Timely => Complete(s, g)
      /\ Prompt => Quick(s, g)
  BY DEF Body
<1>1. /\ cpc = "ioctl" /\ cpc' = "wait"
      /\ UNCHANGED <<abNext, full, recycle, next, timeouts, started, out, env>>
  BY DEF Ioctl
<1>2. /\ Len(reqs) \in Nat /\ Sent(s) \in Nat /\ Sent(s) = s + Len(reqs) /\ Sent(s)' = s + Len(reqs')
      /\ \A b \in Buffers : g[b] \in Nat /\ g[b] <= Sent(s)
  BY <1>0, Numbers DEF Sent
<1>3. ToQueue = recycle \cup {b \in Buffers : g[b] = 0}
  BY <1>0, QueuedAre
<1>4. Seen' = Seen /\ (Timely' <=> Timely) /\ (Prompt' <=> Prompt)
  BY <1>1 DEF Seen, Timely, Prompt
<1>5. CASE started = FALSE /\ Starting(s, g) /\ Sent(s) = 0 /\ g[0] = 0 /\ g[1] = 0
  <2>1. PICK h \in [Buffers -> Nat] : h[0] = Sent(s) + 1 /\ h[1] = Sent(s) + 2
    <3>1. Sent(s) + 1 \in Nat /\ Sent(s) + 2 \in Nat
      BY <1>2
    <3> QED BY <3>1, TwoNumbers
  <2>2. ToQueue = {0, 1}
    BY <1>3, <1>5 DEF Starting
  <2>3. Numbered(s, h)' /\ Served(s, h)' /\ Len(reqs') = Len(reqs) + 2
    BY <1>0, <2>1, <2>2, IoctlBoth
  <2>4. Sent(s)' = 2 /\ h[0] = 1 /\ h[1] = 2 /\ Len(reqs') > 0
    BY <1>2, <1>5, <2>1, <2>3
  <2>5. Phase(s, h)'
    BY <1>1, <1>5, <2>4 DEF Phase, Starting
  <2>6. Complete(s, h)'
    <3>1. out = <<>> /\ timeouts = 0
      BY <1>5 DEF Starting
    <3>2. Seen = 1 .. Len(out) /\ Len(out) = 0
      BY <3>1 DEF Seen
    <3>3. LastTwo(s, h)'
      BY <2>4 DEF LastTwo
    <3> QED BY <1>1, <1>4, <2>4, <3>1, <3>2, <3>3 DEF Complete
  <2>7. Quick(s, h)'
    BY <1>1, <1>5, <2>4 DEF Quick, Starting
  <2> QED BY <2>1, <2>3, <2>5, <2>6, <2>7 DEF Body
<1>6. CASE started = FALSE /\ Starting(s, g) /\ Sent(s) = 2 /\ g[0] = 1 /\ g[1] = 2
  <2>2. ToQueue = {}
    BY <1>3, <1>6 DEF Starting
  <2>3. Numbered(s, g)' /\ Served(s, g)' /\ reqs' = reqs
    BY <1>0, <2>2, IoctlNone
  <2>4. Sent(s)' = 2
    BY <1>2, <1>6, <2>3
  <2>5. Phase(s, g)'
    BY <1>1, <1>6, <2>4 DEF Phase, Starting
  <2>6. Complete(s, g)'
    <3>1. out = <<>> /\ timeouts = 0
      BY <1>6 DEF Starting
    <3>2. Seen = 1 .. Len(out) /\ Len(out) = 0
      BY <3>1 DEF Seen
    <3>3. LastTwo(s, g)'
      BY <1>6, <2>4 DEF LastTwo
    <3> QED BY <1>1, <1>4, <2>4, <3>1, <3>2, <3>3 DEF Complete
  <2>7. Prompt => Quick(s, g)'
    BY <1>0, <1>1, <1>6, <2>3 DEF Quick
  <2> QED BY <1>4, <2>3, <2>5, <2>6, <2>7 DEF Body
<1>7. CASE started = TRUE /\ Waiting(s, g)
  <2>1. /\ abNext \in Buffers /\ next = abNext /\ timeouts \in Nat /\ timeouts < Rounds
        /\ g[0] > 0 /\ g[1] > 0 /\ Tries = timeouts
    BY <1>1, <1>7 DEF Waiting, Tries
  <2>2. ToQueue = recycle
    <3>1. \A b \in Buffers : g[b] # 0
      BY <2>1
    <3> QED BY <1>3, <3>1
  <2>3. Tries' = timeouts + 1
    BY <1>1 DEF Tries
  <2>4. CASE /\ recycle = {Other(abNext)} /\ Sent(s) - g[abNext] = Tries
             /\ Len(reqs) <= Rounds + Tries
    <3> DEFINE o == Other(abNext)
    <3>1. /\ o \in Buffers /\ Other(o) = abNext /\ o # abNext
          /\ \A b \in Buffers : b = o \/ b = abNext
      BY <2>1
    <3>2. PICK h \in [Buffers -> Nat] : h[o] = Sent(s) + 1 /\ h[abNext] = g[abNext]
      <4> DEFINE f == [b \in Buffers |-> IF b = o THEN Sent(s) + 1 ELSE g[b]]
      <4>1. f \in [Buffers -> Nat] /\ f[o] = Sent(s) + 1 /\ f[abNext] = g[abNext]
        BY <1>2, <2>1, <3>1
      <4> QED BY <4>1
    <3>3. Numbered(s, h)' /\ Served(s, h)' /\ Len(reqs') = Len(reqs) + 1
      BY <1>0, <2>2, <2>4, <3>1, <3>2, IoctlOne
    <3>4. Sent(s)' = Sent(s) + 1
      BY <1>2, <3>3
    <3>5. Waiting(s, h)'
      <4>1. h[0] > 0 /\ h[1] > 0
        BY <1>2, <2>1, <3>1, <3>2
      <4>2. /\ Sent(s)' - h[abNext] = Tries' /\ Len(reqs') <= Rounds + Tries'
            /\ Sent(s)' - h[o] <= Rounds /\ Tries' <= Rounds /\ h[o] = Sent(s)'
        <5> DEFINE n == Sent(s)
        <5>1. n \in Nat /\ Sent(s)' = n + 1 /\ h[o] = n + 1 /\ h[abNext] = g[abNext] /\ n - g[abNext] = timeouts
          BY <1>2, <2>1, <2>4, <3>2, <3>4
        <5>2. g[abNext] \in Nat /\ timeouts \in Nat /\ Len(reqs) \in Nat
          BY <1>2, <2>1
        <5> HIDE DEF n, o
        <5> QED BY <2>1, <2>3, <2>4, <3>3, <5>1, <5>2
      <4> QED BY <1>1, <2>1, <2>4, <4>1, <4>2 DEF Waiting
    <3>6. Timely => Complete(s, h)'
      <4> SUFFICES ASSUME Timely PROVE Complete(s, h)'
        OBVIOUS
      <4>1. timeouts = 0 /\ Seen = 1 .. Len(out) /\ Len(out) = Sent(s) - 1
        BY <1>0, <1>1, <2>1, <2>4 DEF Complete
      <4>2. g[abNext] = Sent(s)
        BY <1>2, <2>1, <2>4, <4>1
      <4>3. {h[0], h[1]} = {h[o], h[abNext]}
        BY <2>1
      <4>4. LastTwo(s, h)'
        <5>1. Sent(s)' - 1 = Sent(s)
          BY <1>2, <3>4
        <5> QED BY <3>2, <3>4, <4>2, <4>3, <5>1 DEF LastTwo
      <4>5. Len(out) = Sent(s)' - 2
        BY <1>2, <3>4, <4>1
      <4> QED BY <1>1, <1>4, <4>1, <4>4, <4>5 DEF Complete
    <3>7. Prompt => Quick(s, h)'
      BY <1>0, <1>1, <1>2, <3>3 DEF Quick
    <3> QED BY <1>1, <1>4, <1>7, <3>2, <3>3, <3>5, <3>6, <3>7 DEF Body, Phase
  <2>5. CASE recycle = {0, 1} /\ Len(reqs) <= 2 * Tries
    <3>2. PICK h \in [Buffers -> Nat] : h[0] = Sent(s) + 1 /\ h[1] = Sent(s) + 2
      <4>1. Sent(s) + 1 \in Nat /\ Sent(s) + 2 \in Nat
        BY <1>2
      <4> QED BY <4>1, TwoNumbers
    <3>3. Numbered(s, h)' /\ Served(s, h)' /\ Len(reqs') = Len(reqs) + 2
      BY <1>0, <2>2, <2>5, <3>2, IoctlBoth
    <3>4. Sent(s)' = Sent(s) + 2
      BY <1>2, <3>3
    <3>5. Waiting(s, h)'
      <4>1. h[0] > 0 /\ h[1] > 0
        BY <1>2, <3>2
      <4>2. /\ h[0] = Sent(s)' - 1 /\ h[1] = Sent(s)' /\ Tries' <= Rounds
            /\ Len(reqs') <= 2 * Tries'
        BY <1>2, <2>1, <2>3, <2>5, <3>2, <3>3, <3>4
      <4> QED BY <1>1, <2>1, <2>5, <4>1, <4>2 DEF Waiting
    <3>6. Timely => Complete(s, h)'
      <4> SUFFICES ASSUME Timely PROVE Complete(s, h)'
        OBVIOUS
      <4>1. timeouts = 0 /\ Seen = 1 .. Len(out) /\ Len(out) = Sent(s)
        BY <1>0, <1>1, <2>5 DEF Complete
      <4>2. Sent(s)' - 1 = Sent(s) + 1 /\ Sent(s)' - 2 = Sent(s)
        BY <1>2, <3>4
      <4>3. LastTwo(s, h)'
        BY <3>2, <3>4, <4>2 DEF LastTwo
      <4> QED BY <1>1, <1>4, <4>1, <4>2, <4>3 DEF Complete
    <3>7. ~ Prompt
      BY <1>0, <2>5 DEF Quick
    <3> QED BY <1>1, <1>4, <1>7, <3>2, <3>3, <3>5, <3>6, <3>7 DEF Body, Phase
  <2> QED BY <1>7, <2>4, <2>5 DEF Waiting
<1>8. ~ \E b \in Buffers : Working(s, g, b)
  BY <1>1 DEF Working
<1> QED BY <1>0, <1>1, <1>5, <1>6, <1>7, <1>8 DEF Phase, Starting

LEMMA FillBody ==
    ASSUME NEW s \in Nat, NEW g \in [Buffers -> Nat], Body(s, g), CardFill
    PROVE  Body(s + 1, g)'
<1> USE BoundFacts
<1>0. /\ Numbered(s, g) /\ Served(s, g) /\ Phase(s, g)
      /\ Timely => Complete(s, g)
      /\ Prompt => Quick(s, g)
  BY DEF Body
<1>1. /\ "slow" \in env \/ \A b \in Buffers : rchAB[b].valid = NoBlock \/ b \in recycle
      /\ UNCHANGED <<abNext, full, recycle, next, cpc, timeouts, started, out, env>>
  BY DEF CardFill
<1>2. /\ Numbered(s + 1, g)' /\ Served(s + 1, g)' /\ Phase(s + 1, g)'
      /\ Sent(s + 1)' = Sent(s) /\ Len(reqs') = Len(reqs) - 1 /\ Len(reqs) \in Nat
  BY <1>0, FillStep
<1>3. Seen' = Seen /\ (Timely' <=> Timely) /\ (Prompt' <=> Prompt) /\ (LastTwo(s + 1, g)' <=> LastTwo(s, g))
  BY <1>1, <1>2 DEF Seen, Timely, Prompt, LastTwo
<1>4. Complete(s, g) => Complete(s + 1, g)'
  BY <1>1, <1>2, <1>3 DEF Complete
<1>5. Prompt => Quick(s + 1, g)'
  <2> SUFFICES ASSUME Prompt PROVE Quick(s + 1, g)'
    OBVIOUS
  <2>1. Quick(s, g) /\ "slow" \notin env /\ Timely /\ Complete(s, g)
    BY <1>0 DEF Prompt, Timely
  <2>2. \A b \in Buffers : 0 < g[b] /\ g[b] <= s => b \in recycle
    BY <1>0, <1>1, <2>1, ValidServed
  <2>3. cpc \in {"wait", "work"} \/ (started = FALSE /\ g[0] > 0) => Len(reqs) # 1
    <3> SUFFICES ASSUME cpc \in {"wait", "work"} \/ (started = FALSE /\ g[0] > 0), Len(reqs) = 1 PROVE FALSE
      OBVIOUS
    <3>0. Sent(s) = s + 1 /\ s \in Nat
      BY DEF Sent
    <3>1. CASE Starting(s, g)
      <4>1. Sent(s) = 2 /\ g[0] = 1 /\ recycle = {}
        BY <3>0, <3>1 DEF Starting
      <4> QED BY <2>2, <3>0, <4>1
    <3>2. CASE started = TRUE /\ Waiting(s, g)
      <4>1. cpc = "wait" /\ timeouts = 0 /\ abNext \in Buffers /\ Tries = 1
        BY <2>1, <3>2 DEF Waiting, Complete, Tries
      <4>2. recycle = {Other(abNext)} /\ Sent(s) - g[abNext] = 1 /\ g[abNext] > 0 /\ g[abNext] \in Nat
        BY <2>1, <3>2, <4>1 DEF Waiting, Quick
      <4>3. g[abNext] = s
        BY <3>0, <4>2
      <4>4. abNext # Other(abNext)
        BY <4>1
      <4> QED BY <2>2, <4>1, <4>2, <4>3, <4>4
    <3>3. ASSUME NEW b \in Buffers, started = TRUE, Working(s, g, b) PROVE FALSE
      <4>1. cpc = "work" /\ recycle = {} /\ g[b] <= s /\ g[b] > 0
        BY <3>3 DEF Working
      <4> QED BY <2>2, <4>1
    <3> QED BY <1>0, <3>1, <3>2, <3>3 DEF Phase
  <2> QED BY <1>1, <1>2, <2>1, <2>3 DEF Quick
<1> QED BY <1>0, <1>2, <1>3, <1>4, <1>5 DEF Body

LEMMA DoneBody ==
    ASSUME NEW s \in Nat, NEW g \in [Buffers -> Nat], Body(s, g), IoctlDone
    PROVE  Body(s, g)'
<1> USE BoundFacts
<1>0. /\ Numbered(s, g) /\ Served(s, g) /\ Phase(s, g)
      /\ Timely => Complete(s, g)
      /\ Prompt => Quick(s, g)
  BY DEF Body
<1>1. /\ cpc = "wait" /\ cpc' = "work" /\ timeouts' = 0 /\ started' = TRUE /\ recycle' = {}
      /\ rchAB[abNext].valid # NoBlock
      /\ UNCHANGED <<rchAB, lastId, reqs, block, mem, next, out, env>>
  BY DEF IoctlDone
<1>2. /\ Len(reqs) \in Nat /\ Sent(s) \in Nat /\ Sent(s) = s + Len(reqs) /\ Sent(s)' = Sent(s)
      /\ \A b \in Buffers : g[b] \in Nat /\ g[b] <= Sent(s)
  BY <1>0, <1>1, Numbers DEF Sent
<1>3. Seen' = Seen /\ (Timely' <=> Timely) /\ (Prompt' <=> Prompt) /\ (LastTwo(s, g)' <=> LastTwo(s, g))
  BY <1>1, <1>2 DEF Seen, Timely, Prompt, LastTwo
<1>4. Numbered(s, g)' /\ Served(s, g)'
  BY <1>0, <1>1, <1>2 DEF Numbered, Served
<1>5. PICK b \in Buffers : b = abNext
  BY <1>0, <1>1 DEF Phase, Starting, Waiting, Working
<1> DEFINE o == Other(b)
           two == rchAB[o].valid # NoBlock
<1>6. o \in Buffers /\ o # b /\ Other(o) = b /\ \A x \in Buffers : x = b \/ x = o
  BY <1>5
<1>7. next = b /\ g[0] > 0 /\ g[1] > 0
  BY <1>0, <1>1, <1>5 DEF Phase, Starting, Waiting, Working
<1>8. \/ g[o] = Sent(s) /\ Sent(s) - g[b] <= Rounds
      \/ g[b] = Sent(s)
  <2>1. CASE Starting(s, g)
    <3>1. b = 0 /\ o = 1 /\ Sent(s) = 2 /\ g[0] = 1 /\ g[1] = 2
      BY <1>1, <1>5, <2>1 DEF Starting
    <3> QED BY <1>2, <3>1
  <2>2. CASE Waiting(s, g)
    <3>1. Tries \in Nat /\ Tries > 0 /\ Tries <= Rounds
      BY <1>1, <2>2 DEF Waiting, Tries
    <3>2. CASE recycle = {Other(abNext)} /\ Sent(s) - g[abNext] = Tries /\ g[Other(abNext)] = Sent(s)
      BY <1>5, <3>1, <3>2
    <3>3. CASE g[0] = Sent(s) - 1 /\ g[1] = Sent(s)
      <4>1. CASE b = 0
        BY <1>2, <3>3, <4>1
      <4>2. CASE b = 1
        BY <3>3, <4>2
      <4> QED BY <4>1, <4>2
    <3> QED BY <2>2, <3>1, <3>2, <3>3 DEF Waiting
  <2> QED BY <1>0, <1>1, <2>1, <2>2 DEF Phase, Working
<1>9. /\ g[b] > 0 /\ g[b] <= s /\ rchAB[b].valid = BlockOf(g[b])
      /\ g[o] > 0 /\ g[o] \in Nat /\ (two <=> g[o] <= s) /\ (two => rchAB[o].valid = BlockOf(g[o]))
  BY <1>0, <1>1, <1>2, <1>5, <1>6, <1>7, ValidServed
<1>10. /\ full' = [x \in Buffers |-> IF x = b \/ two THEN rchAB[x].valid ELSE NoBlock]
       /\ abNext' = IF two THEN b ELSE o
  BY <1>5 DEF IoctlDone, Fill
<1>11. /\ full' \in [Buffers -> Nat] /\ full'[b] = BlockOf(g[b])
       /\ full'[o] = IF two THEN BlockOf(g[o]) ELSE NoBlock
  <2>1. \A x \in Buffers : rchAB[x].valid \in Nat
    BY <1>0 DEF Served
  <2> HIDE DEF two, o
  <2> QED BY <1>6, <1>9, <1>10, <2>1
<1> HIDE DEF two
<1>12. OneFull(s, g, b)' \/ TwoFull(s, g, b)'
  <2>1. CASE two
    <3>1. Len(reqs) = 0
      BY <1>2, <1>6, <1>8, <1>9, <2>1
    <3> QED BY <1>1, <1>9, <1>10, <1>11, <2>1, <3>1 DEF TwoFull
  <2>2. CASE ~ two
    <3>1. g[o] = Sent(s) /\ Sent(s) - g[b] <= Rounds
      BY <1>2, <1>6, <1>8, <1>9, <2>2
    <3> QED BY <1>1, <1>2, <1>10, <1>11, <2>2, <3>1 DEF OneFull
  <2> QED BY <2>1, <2>2
<1>13. Working(s, g, b)'
  BY <1>1, <1>7, <1>9, <1>11, <1>12 DEF Working
<1>14. Phase(s, g)'
  BY <1>1, <1>13 DEF Phase
<1>15. Complete(s, g) => Complete(s, g)'
  BY <1>1, <1>2, <1>3 DEF Complete
<1>16. Quick(s, g) => Quick(s, g)'
  BY <1>1 DEF Quick
<1> QED BY <1>0, <1>3, <1>4, <1>14, <1>15, <1>16 DEF Body

LEMMA TimeoutBody ==
    ASSUME NEW s \in Nat, NEW g \in [Buffers -> Nat], Body(s, g), IoctlTimeout, cpc' # "end",
           ~ IdsComeRound
    PROVE  Body(s, g)'
<1> USE BoundFacts
<1>0. /\ Numbered(s, g) /\ Served(s, g) /\ Phase(s, g)
      /\ Timely => Complete(s, g)
      /\ Prompt => Quick(s, g)
  BY DEF Body
<1>1. /\ cpc = "wait" /\ (started => "timeout" \in env)
      /\ timeouts' = (IF started THEN timeouts + 1 ELSE timeouts)
      /\ cpc' = (IF timeouts' >= MaxTO /\ started THEN "end" ELSE "ioctl")
      /\ UNCHANGED <<rchAB, abNext, lastId, reqs, block, mem, full, recycle, next, started, out, env>>
  BY DEF IoctlTimeout
<1>2. cpc' = "ioctl" /\ ~ (timeouts' >= MaxTO /\ started)
  BY <1>1
<1>3. /\ Sent(s)' = Sent(s) /\ Seen' = Seen /\ (Timely' <=> Timely) /\ (Prompt' <=> Prompt)
  BY <1>1 DEF Seen, Timely, Prompt, Sent
<1>4. Numbered(s, g)' /\ Served(s, g)'
  BY <1>0, <1>1, <1>3 DEF Numbered, Served
<1>5. CASE started = FALSE /\ Starting(s, g)
  <2>1. timeouts' = 0 /\ recycle = {} /\ timeouts = 0
    BY <1>1, <1>5 DEF Starting
  <2>2. Starting(s, g)'
    BY <1>1, <1>2, <1>3, <1>5, <2>1 DEF Starting
  <2>3. Timely => Complete(s, g)'
    BY <1>0, <1>1, <1>2, <1>3, <2>1 DEF Complete
  <2>4. Prompt => Quick(s, g)'
    BY <1>0, <1>1, <1>2, <2>1 DEF Quick
  <2> QED BY <1>1, <1>3, <1>4, <1>5, <2>2, <2>3, <2>4 DEF Body, Phase
<1>6. CASE started = TRUE /\ Waiting(s, g)
  <2>1. ~ Timely /\ ~ Prompt
    BY <1>1, <1>6 DEF Timely, Prompt
  <2>2. timeouts \in Nat /\ timeouts' = timeouts + 1 /\ timeouts' < MaxTO /\ MaxTO \in Nat
    BY <1>1, <1>2, <1>6, BoundsAssumption DEF Waiting
  <2>5. IdMod >= 2 * MaxTO
    BY <1>1, <1>6, <2>2 DEF IdsComeRound
  <2>3. Tries' = Tries /\ Tries' < Rounds /\ Tries \in Nat
    BY <1>1, <1>2, <2>2, <2>5 DEF Tries, Rounds
  <2>4. Waiting(s, g)'
    BY <1>1, <1>2, <1>3, <1>6, <2>2, <2>3 DEF Waiting
  <2> QED BY <1>1, <1>3, <1>4, <1>6, <2>1, <2>4 DEF Body, Phase
<1> QED BY <1>0, <1>1, <1>5, <1>6 DEF Phase, Working

\* The blocks worked on, and one more.
LEMMA OneMore ==
    ASSUME NEW q \in Seq(Nat), NEW x \in Nat, NEW p, p = Append(q, x)
    PROVE  /\ p \in Seq(Nat) /\ Len(q) \in Nat /\ Len(p) = Len(q) + 1 /\ p[Len(q) + 1] = x
           /\ \A k \in 1 .. Len(q) : p[k] = q[k]
           /\ {p[k] : k \in 1 .. Len(p)} = {q[k] : k \in 1 .. Len(q)} \cup {x}
<1>1. /\ p \in Seq(Nat) /\ Len(q) \in Nat /\ Len(p) = Len(q) + 1 /\ p[Len(q) + 1] = x
      /\ \A k \in 1 .. Len(q) : p[k] = q[k]
  OBVIOUS
<1>2. \A k \in 1 .. Len(p) : k \in 1 .. Len(q) \/ k = Len(q) + 1
  BY <1>1
<1>3. \A k \in 1 .. Len(q) : k \in 1 .. Len(p)
  BY <1>1
<1>4. Len(q) + 1 \in 1 .. Len(p)
  BY <1>1
<1>5. ASSUME NEW y PROVE (\E k \in 1 .. Len(p) : y = p[k]) <=> (\E k \in 1 .. Len(q) : y = q[k]) \/ y = x
  BY <1>1, <1>2, <1>3, <1>4, Zenon
<1> QED BY <1>1, <1>5, Zenon

\* A block that was not worked on keeps the blocks worked on apart.
LEMMA StaysInjective ==
    ASSUME NEW x \in Nat, Injective, x \notin Seen, out' = Append(out, x)
    PROVE  Injective' /\ Seen' = Seen \cup {x} /\ Len(out') = Len(out) + 1 /\ Len(out) \in Nat
<1>0. out \in Seq(Nat)
  BY DEF Injective
<1>1. /\ out' \in Seq(Nat) /\ Len(out) \in Nat /\ Len(out') = Len(out) + 1 /\ out'[Len(out) + 1] = x
      /\ \A k \in 1 .. Len(out) : out'[k] = out[k]
      /\ {out'[k] : k \in 1 .. Len(out')} = {out[k] : k \in 1 .. Len(out)} \cup {x}
  BY <1>0, OneMore
<1>2. \A k \in 1 .. Len(out) : out[k] # x
  BY DEF Seen
<1>3. \A k \in 1 .. Len(out') : k \in 1 .. Len(out) \/ k = Len(out) + 1
  BY <1>1
<1>4. \A i, j \in 1 .. Len(out') : out'[i] = out'[j] => i = j
  BY <1>1, <1>2, <1>3 DEF Injective
<1> QED BY <1>1, <1>4 DEF Injective, Seen

LEMMA FirstBody ==
    ASSUME NEW s \in Nat, NEW g \in [Buffers -> Nat], Body(s, g), WorkFirst,
           Timely => Injective, Prompt => \A k \in 1 .. Len(out) : out[k] = k
    PROVE  /\ Body(s, g)'
           /\ Timely' => Injective'
           /\ Prompt' => \A k \in 1 .. Len(out') : out'[k] = k
<1> USE BoundFacts
<1>0. /\ Numbered(s, g) /\ Served(s, g) /\ Phase(s, g)
      /\ Timely => Complete(s, g)
      /\ Prompt => Quick(s, g)
  BY DEF Body
<1>1. /\ cpc = "work" /\ cpc' = "work2" /\ full[next] # NoBlock
      /\ out' = (IF full[next] = EOF THEN out ELSE Append(out, mem[next]))
      /\ recycle' = recycle \cup {next} /\ next' = Other(next)
      /\ UNCHANGED <<rchAB, abNext, lastId, reqs, block, mem, full, timeouts, started, env>>
  BY DEF WorkFirst, Work
<1>2. /\ Len(reqs) \in Nat /\ Sent(s) \in Nat /\ Sent(s) = s + Len(reqs) /\ Sent(s)' = Sent(s)
      /\ \A b \in Buffers : g[b] \in Nat /\ g[b] <= Sent(s)
  BY <1>0, <1>1, Numbers DEF Sent
<1>3. (Timely' <=> Timely) /\ (Prompt' <=> Prompt) /\ (LastTwo(s, g)' <=> LastTwo(s, g))
  BY <1>1, <1>2 DEF Timely, Prompt, LastTwo
<1>4. Numbered(s, g)' /\ Served(s, g)'
  BY <1>0, <1>1, <1>2 DEF Numbered, Served
<1>5. PICK b \in Buffers : Working(s, g, b) /\ started = TRUE
  BY <1>0, <1>1 DEF Phase, Starting, Waiting
<1> DEFINE o == Other(b)
<1>6. o \in Buffers /\ o # b /\ Other(o) = b /\ {g[0], g[1]} = {g[b], g[o]}
  BY <1>5
<1>7. /\ next = b /\ recycle = {} /\ full[b] = BlockOf(g[b]) /\ 0 < g[b] /\ g[b] <= s
      /\ OneFull(s, g, b) \/ TwoFull(s, g, b)
  BY <1>1, <1>5 DEF Working
<1>8. recycle' = {b} /\ next' = o
  BY <1>1, <1>7
<1>9. Working(s, g, b)'
  <2>1. OneFull(s, g, b)' \/ TwoFull(s, g, b)'
    BY <1>1, <1>2, <1>7 DEF OneFull, TwoFull
  <2> QED BY <1>1, <1>5, <1>7, <1>8, <2>1 DEF Working
<1>10. Phase(s, g)'
  BY <1>1, <1>5, <1>9 DEF Phase
<1>11. full[b] # EOF => mem[b] = g[b] /\ out' = Append(out, g[b])
  <2>1. full[b] # EOF => g[b] <= MaxBlocks
    BY <1>7 DEF BlockOf
  <2>2. Slot(rchAB[b], mem[b], s, g[b])
    BY <1>0 DEF Served
  <2> QED BY <1>1, <1>7, <2>1, <2>2 DEF Slot
<1>12. full[b] = EOF => out' = out
  BY <1>1, <1>7
<1>13. Timely => Injective' /\ Complete(s, g)'
  <2> SUFFICES ASSUME Timely PROVE Injective' /\ Complete(s, g)'
    OBVIOUS
  <2>1. /\ timeouts = 0 /\ LastTwo(s, g) /\ Seen = 1 .. Len(out) /\ Len(out) = Sent(s) - 2 /\ Injective
    BY <1>0, <1>1 DEF Complete
  <2>2. g[b] \in Nat /\ g[b] \notin Seen
    <3>1. g[b] = Sent(s) - 1 \/ g[b] = Sent(s)
      BY <1>6, <2>1, Zenon DEF LastTwo
    <3> QED BY <1>2, <2>1, <3>1
  <2>3. CASE full[b] = EOF
    <3>1. Injective' /\ Seen' = Seen
      BY <1>12, <2>1, <2>3 DEF Injective, Seen
    <3>2. Seen' = 1 .. Sent(s) - 2
      BY <2>1, <3>1
    <3> QED BY <1>1, <1>2, <1>3, <1>6, <1>8, <2>1, <2>3, <3>1, <3>2 DEF Complete
  <2>4. CASE full[b] # EOF
    <3>1. Injective' /\ Seen' = Seen \cup {g[b]} /\ Len(out') = Len(out) + 1 /\ Len(out) \in Nat
      BY <1>11, <2>1, <2>2, <2>4, StaysInjective
    <3>2. Seen' = 1 .. Sent(s) - 2 \cup {g[b]} /\ Len(out') = Sent(s) - 1
      BY <1>2, <2>1, <3>1
    <3> QED BY <1>1, <1>2, <1>3, <1>6, <1>8, <2>1, <2>4, <3>1, <3>2 DEF Complete
  <2> QED BY <2>3, <2>4
<1>14. Prompt => Quick(s, g)' /\ \A k \in 1 .. Len(out') : out'[k] = k
  <2> SUFFICES ASSUME Prompt PROVE Quick(s, g)' /\ \A k \in 1 .. Len(out') : out'[k] = k
    OBVIOUS
  <2>1. Timely /\ Len(reqs) > 0
    BY <1>0, <1>1 DEF Prompt, Timely, Quick
  <2>2. OneFull(s, g, b)
    BY <1>7, <2>1 DEF TwoFull
  <2>3. Quick(s, g)'
    <3>1. {b} # {0, 1}
      BY <1>6
    <3>2. full'[o] = NoBlock /\ started' = TRUE
      BY <1>1, <1>5, <2>2 DEF OneFull
    <3> QED BY <1>1, <1>8, <3>1, <3>2 DEF Quick
  <2>4. /\ LastTwo(s, g) /\ Len(out) = Sent(s) - 2 /\ out \in Seq(Nat)
    BY <1>0, <1>1, <2>1 DEF Complete, Injective
  <2>5. g[b] = Len(out) + 1 /\ g[b] \in Nat
    <3>1. g[b] < Sent(s) /\ g[b] \in Nat
      BY <1>2, <1>7, <2>1
    <3>2. g[b] = Sent(s) - 1 \/ g[b] = Sent(s)
      BY <1>6, <2>4, Zenon DEF LastTwo
    <3> QED BY <1>2, <2>4, <3>1, <3>2
  <2>6. CASE full[b] = EOF
    BY <1>12, <2>3, <2>6
  <2>7. CASE full[b] # EOF
    <3>1. /\ Len(out') = Len(out) + 1 /\ Len(out) \in Nat /\ out'[Len(out) + 1] = g[b]
          /\ \A k \in 1 .. Len(out) : out'[k] = out[k]
      BY <1>11, <2>4, <2>5, <2>7, OneMore
    <3>2. \A k \in 1 .. Len(out') : k \in 1 .. Len(out) \/ k = Len(out) + 1
      BY <3>1
    <3> QED BY <2>3, <2>5, <3>1, <3>2
  <2> QED BY <2>6, <2>7
<1> QED BY <1>3, <1>4, <1>10, <1>13, <1>14 DEF Body

LEMMA SecondBody ==
    ASSUME NEW s \in Nat, NEW g \in [Buffers -> Nat], Body(s, g), WorkSecond, Timely => Injective
    PROVE  /\ cpc' # "end" => Body(s, g)'
           /\ Timely' => Injective'
           /\ ~ Prompt'
<1> USE BoundFacts
<1>0. /\ Numbered(s, g) /\ Served(s, g) /\ Phase(s, g)
      /\ Timely => Complete(s, g)
      /\ Prompt => Quick(s, g)
  BY DEF Body
<1>1. /\ cpc = "work2" /\ cpc' = AfterWork /\ full[next] # NoBlock
      /\ out' = (IF full[next] = EOF THEN out ELSE Append(out, mem[next]))
      /\ recycle' = recycle \cup {next} /\ next' = Other(next)
      /\ UNCHANGED <<rchAB, abNext, lastId, reqs, block, mem, full, timeouts, started, env>>
  BY DEF WorkSecond, Work
<1>2. /\ Len(reqs) \in Nat /\ Sent(s) \in Nat /\ Sent(s) = s + Len(reqs) /\ Sent(s)' = Sent(s)
      /\ \A b \in Buffers : g[b] \in Nat /\ g[b] <= Sent(s)
  BY <1>0, <1>1, Numbers DEF Sent
<1>3. (Timely' <=> Timely) /\ (Prompt' <=> Prompt) /\ ~ Prompt
  BY <1>0, <1>1 DEF Timely, Prompt, Quick
<1>4. Numbered(s, g)' /\ Served(s, g)'
  BY <1>0, <1>1, <1>2 DEF Numbered, Served
<1>5. PICK b \in Buffers : Working(s, g, b) /\ started = TRUE
  BY <1>0, <1>1 DEF Phase, Starting, Waiting
<1> DEFINE o == Other(b)
<1>6. o \in Buffers /\ o # b /\ Other(o) = b /\ {g[0], g[1]} = {g[b], g[o]} /\ {b} \cup {o} = {0, 1}
  BY <1>5
<1>7. next = o /\ recycle = {b} /\ TwoFull(s, g, b) /\ g[o] > 0 /\ g[b] > 0 /\ timeouts = 0
  BY <1>1, <1>5 DEF Working, OneFull
<1>8. recycle' = {0, 1} /\ next' = b /\ full[o] = BlockOf(g[o]) /\ abNext = b /\ Len(reqs) = 0 /\ g[o] <= s
  BY <1>1, <1>6, <1>7 DEF TwoFull
<1>9. AfterWork # "end" => AfterWork = "ioctl" /\ full[b] # EOF /\ full[o] # EOF
  BY <1>5, <1>6 DEF AfterWork
<1>10. cpc' # "end" => Waiting(s, g)'
  <2> SUFFICES ASSUME cpc' # "end" PROVE Waiting(s, g)'
    OBVIOUS
  <2>1. cpc' = "ioctl" /\ timeouts' = 0
    BY <1>1, <1>7, <1>9
  <2>2. Tries' = 0
    BY <2>1 DEF Tries
  <2>3. Len(reqs') <= 2 * Tries'
    BY <1>1, <1>8, <2>2
  <2> QED BY <1>1, <1>6, <1>7, <1>8, <2>1, <2>2, <2>3 DEF Waiting
<1>11. full[o] # EOF => mem[o] = g[o] /\ out' = Append(out, g[o])
  <2>1. full[o] # EOF => g[o] <= MaxBlocks
    BY <1>2, <1>6, <1>8 DEF BlockOf
  <2>2. Slot(rchAB[o], mem[o], s, g[o])
    BY <1>0, <1>6 DEF Served
  <2> QED BY <1>1, <1>7, <1>8, <2>1, <2>2 DEF Slot
<1>12. Timely => Injective' /\ (cpc' # "end" => Complete(s, g)')
  <2> SUFFICES ASSUME Timely PROVE Injective' /\ (cpc' # "end" => Complete(s, g)')
    OBVIOUS
  <2>1. /\ LastTwo(s, g) /\ Injective
        /\ full[b] # EOF => Seen = 1 .. Sent(s) - 2 \cup {g[b]} /\ Len(out) = Sent(s) - 1
        /\ full[b] = EOF => Seen = 1 .. Sent(s) - 2
    BY <1>0, <1>1, <1>6, <1>7 DEF Complete
  <2>2. {g[b], g[o]} = {Sent(s) - 1, Sent(s)}
    BY <1>6, <2>1, Zenon DEF LastTwo
  <2>3. \/ g[b] = Sent(s) - 1 /\ g[o] = Sent(s)
        \/ g[b] = Sent(s) /\ g[o] = Sent(s) - 1
    BY <1>2, <1>6, <2>2
  <2>4. g[o] \in Nat /\ g[o] \notin Seen
    BY <1>2, <1>6, <2>1, <2>3
  <2>5. CASE full[o] = EOF
    <3>1. out' = out
      BY <1>1, <1>7, <2>5
    <3> QED BY <1>1, <1>9, <2>1, <2>5, <3>1 DEF Injective
  <2>6. CASE full[o] # EOF
    <3>1. Injective' /\ Seen' = Seen \cup {g[o]} /\ Len(out') = Len(out) + 1 /\ Len(out) \in Nat
      BY <1>11, <2>1, <2>4, <2>6, StaysInjective
    <3>2. cpc' # "end" => Complete(s, g)'
      <4> SUFFICES ASSUME cpc' # "end" PROVE Complete(s, g)'
        OBVIOUS
      <4>1. cpc' = "ioctl" /\ full[b] # EOF
        BY <1>1, <1>9
      <4>2. Len(out') = Sent(s)
        BY <1>2, <2>1, <3>1, <4>1
      <4>3. \A x : x \in Seen' <=> x \in 1 .. Sent(s)
        <5>1. \A x : x \in Seen' <=> x \in 1 .. Sent(s) - 2 \/ x = g[b] \/ x = g[o]
          BY <2>1, <3>1, <4>1
        <5>2. Sent(s) >= 1 /\ g[b] > 0 /\ g[o] > 0
          BY <1>2, <1>6, <1>7, <2>3
        <5> QED BY <1>2, <2>3, <5>1, <5>2
      <4>4. Seen' = 1 .. Len(out')
        BY <4>2, <4>3
      <4>5. {0, 1} # {0} /\ {0, 1} # {1}
        OBVIOUS
      <4> QED BY <1>1, <1>2, <1>7, <1>8, <4>1, <4>2, <4>4, <4>5 DEF Complete
    <3> QED BY <3>1, <3>2
  <2> QED BY <2>5, <2>6
<1>13. cpc' # "end" => Phase(s, g)'
  BY <1>1, <1>5, <1>10 DEF Phase
<1> QED BY <1>3, <1>4, <1>12, <1>13 DEF Body

LEMMA NoneBody ==
    ASSUME NEW s \in Nat, NEW g \in [Buffers -> Nat], Body(s, g), WorkNone, cpc' # "end"
    PROVE  Body(s, g)'
<1> USE BoundFacts
<1>0. /\ Numbered(s, g) /\ Served(s, g) /\ Phase(s, g)
      /\ Timely => Complete(s, g)
      /\ Prompt => Quick(s, g)
  BY DEF Body
<1>1. /\ cpc \in {"work", "work2"} /\ cpc' = AfterWork /\ full[next] = NoBlock
      /\ UNCHANGED <<rchAB, abNext, lastId, reqs, block, mem, full, recycle, next, timeouts, started,
                     out, env>>
  BY DEF WorkNone
<1>2. /\ Len(reqs) \in Nat /\ Sent(s) \in Nat /\ Sent(s) = s + Len(reqs) /\ Sent(s)' = Sent(s)
      /\ \A b \in Buffers : g[b] \in Nat /\ g[b] <= Sent(s)
  BY <1>0, <1>1, Numbers DEF Sent
<1>3. (Timely' <=> Timely) /\ (Prompt' <=> Prompt) /\ Seen' = Seen
  BY <1>1 DEF Timely, Prompt, Seen
<1>4. Numbered(s, g)' /\ Served(s, g)'
  BY <1>0, <1>1, <1>2 DEF Numbered, Served
<1>5. PICK b \in Buffers : Working(s, g, b) /\ started = TRUE
  BY <1>0, <1>1 DEF Phase, Starting, Waiting
<1> DEFINE o == Other(b)
<1>6. o \in Buffers /\ o # b /\ Other(o) = b /\ {g[0], g[1]} = {g[b], g[o]} /\ {b} # {0, 1}
  BY <1>5
<1>7. g[o] > 0 /\ g[b] > 0 /\ BlockOf(g[o]) # NoBlock /\ BlockOf(g[b]) # NoBlock
  BY <1>2, <1>5, <1>6 DEF Working, BlockOf
<1>8. /\ cpc = "work2" /\ next = o /\ recycle = {b} /\ OneFull(s, g, b) /\ timeouts = 0 /\ g[b] <= s
  BY <1>1, <1>5, <1>7 DEF Working, TwoFull
<1>9. abNext = o /\ g[o] = Sent(s) /\ Sent(s) - g[b] <= Rounds
  BY <1>8 DEF OneFull
<1>10. cpc' = "ioctl" /\ full[b] # EOF
  BY <1>1, <1>5 DEF AfterWork
<1>11. Waiting(s, g)'
  <2>1. Tries' = 0
    BY <1>1, <1>8, <1>10 DEF Tries
  <2>2. Len(reqs) <= Rounds
    BY <1>2, <1>8, <1>9
  <2>3. /\ recycle' = {Other(abNext')} /\ Sent(s)' - g[abNext'] = Tries'
        /\ Sent(s)' - g[Other(abNext')] <= Rounds /\ Len(reqs') <= Rounds + Tries'
    BY <1>1, <1>2, <1>6, <1>8, <1>9, <2>1, <2>2
  <2> QED BY <1>1, <1>5, <1>6, <1>7, <1>8, <1>9, <1>10, <2>1, <2>3 DEF Waiting
<1>12. Phase(s, g)'
  BY <1>1, <1>5, <1>11 DEF Phase
<1>13. Timely => Complete(s, g)'
  <2> SUFFICES ASSUME Timely PROVE Complete(s, g)'
    OBVIOUS
  <2>1. /\ LastTwo(s, g) /\ Seen = 1 .. Sent(s) - 2 \cup {g[b]} /\ Len(out) = Sent(s) - 1
    BY <1>0, <1>6, <1>8, <1>10 DEF Complete
  <2>2. {g[b], g[o]} = {Sent(s) - 1, Sent(s)}
    BY <1>6, <2>1, Zenon DEF LastTwo
  <2>3. g[b] = Sent(s) - 1
    BY <1>2, <1>6, <1>9, <2>2
  <2>4. \A x : x \in Seen <=> x \in 1 .. Sent(s) - 1
    <3>1. \A x : x \in Seen <=> x \in 1 .. Sent(s) - 2 \/ x = g[b]
      BY <2>1
    <3> QED BY <1>2, <1>7, <2>3, <3>1
  <2>5. Seen = 1 .. Len(out)
    BY <2>1, <2>4
  <2> QED BY <1>1, <1>2, <1>3, <1>6, <1>8, <1>10, <2>1, <2>5 DEF Complete
<1>14. Prompt => Quick(s, g)'
  BY <1>1, <1>5, <1>6, <1>8, <1>10 DEF Quick
<1> QED BY <1>3, <1>4, <1>12, <1>13, <1>14 DEF Body

-----------------------------------------------------------------------------
(***************************************************************************)
(* The invariant and the theorems.                                         *)
(***************************************************************************)
LEMMA AbInit == Init => AbInv
<1> SUFFICES ASSUME Init PROVE AbInv
  OBVIOUS
<1> USE BoundFacts
<1>1. PICK g \in [Buffers -> Nat] : g[0] = 0 /\ g[1] = 0
  BY TwoNumbers
<1>2. Len(reqs) = 0 /\ Sent(0) = 0 /\ reqs \in Seq(Requests) /\ Len(out) = 0 /\ out \in Seq(Nat)
  BY DEF Init, Sent
<1>3. Numbered(0, g)
  <2>1. 0 % IdMod = 0
    OBVIOUS
  <2> QED BY <1>1, <1>2, <2>1 DEF Numbered, Queue, Init
<1>4. Served(0, g)
  <2>1. NoRch \in [id : Nat, valid : Nat] /\ NoRch.valid = NoBlock
    BY DEF NoRch
  <2>2. \A b \in Buffers : rchAB[b] = NoRch /\ g[b] = 0
    BY <1>1 DEF Init
  <2>3. /\ rchAB \in [Buffers -> [id : Nat, valid : Nat]] /\ mem \in [Buffers -> Nat] /\ block = 0
    BY <2>1 DEF Init
  <2> QED BY <2>1, <2>2, <2>3 DEF Served, Slot
<1>5. Phase(0, g)
  BY <1>1, <1>2 DEF Phase, Starting, Init
<1>6. Complete(0, g)
  <2>1. Seen = 1 .. Len(out)
    BY <1>2 DEF Seen
  <2>2. recycle = {} /\ cpc = "ioctl" /\ timeouts = 0
    BY DEF Init
  <2> QED BY <2>1, <2>2 DEF Complete
<1>7. Quick(0, g)
  BY <1>1 DEF Quick, Init
<1>8. Injective /\ \A k \in 1 .. Len(out) : out[k] = k
  BY <1>2 DEF Injective
<1> QED BY <1>3, <1>4, <1>5, <1>6, <1>7, <1>8 DEF AbInv, Body

LEMMA AbStep == AbInv /\ [Next]_vars => AbInv'
<1> SUFFICES ASSUME AbInv, [Next]_vars PROVE AbInv'
  OBVIOUS
<1>1. CASE cpc = "end"
  <2>1. CardFill \/ UNCHANGED vars
    BY <1>1 DEF Next, Client, Ioctl, IoctlDone, IoctlTimeout, IoctlError, WorkFirst, WorkSecond, Work, WorkNone
  <2>2. UNCHANGED <<cpc, out, env>>
    BY <2>1 DEF CardFill, vars
  <2> QED BY <1>1, <2>2 DEF AbInv, Timely, Prompt, Injective
<1>4. CASE IdsComeRound /\ Next
  <2>1. env' = env
    BY <1>4 DEF Next, Client, Ioctl, IoctlDone, IoctlTimeout, IoctlError, WorkFirst, WorkSecond,
                Work, WorkNone, CardFill
  <2>2. IdsComeRound' /\ ~ Timely' /\ ~ Prompt'
    BY <1>4, <2>1 DEF IdsComeRound, Timely, Prompt
  <2> QED BY <2>2 DEF AbInv
<1>2. CASE cpc # "end" /\ ~ IdsComeRound /\ Next
  <2>1. PICK s \in Nat, g \in [Buffers -> Nat] : Body(s, g)
    BY <1>2 DEF AbInv
  <2>2. (Timely => Injective) /\ (Prompt => \A k \in 1 .. Len(out) : out[k] = k)
    BY DEF AbInv
  <2>3. UNCHANGED <<out, env>> =>
          (Timely' => Injective') /\ (Prompt' => \A k \in 1 .. Len(out') : out'[k] = k)
    BY <2>2 DEF Timely, Prompt, Injective
  <2>4. CASE Ioctl
    <3>1. UNCHANGED <<out, env>>
      BY <2>4 DEF Ioctl
    <3>2. \E h \in [Buffers -> Nat] : Body(s, h)'
      BY <2>1, <2>4, IoctlBody
    <3> QED BY <2>3, <3>1, <3>2 DEF AbInv
  <2>5. CASE IoctlDone
    <3>1. UNCHANGED <<out, env>>
      BY <2>5 DEF IoctlDone
    <3>2. Body(s, g)'
      BY <2>1, <2>5, DoneBody
    <3> QED BY <2>3, <3>1, <3>2 DEF AbInv
  <2>6. CASE WorkFirst
    <3>1. /\ Body(s, g)'
          /\ Timely' => Injective'
          /\ Prompt' => \A k \in 1 .. Len(out') : out'[k] = k
      BY <2>1, <2>2, <2>6, FirstBody
    <3> QED BY <3>1 DEF AbInv
  <2>7. CASE WorkSecond
    <3>1. /\ cpc' # "end" => Body(s, g)'
          /\ Timely' => Injective'
          /\ ~ Prompt'
      BY <2>1, <2>2, <2>7, SecondBody
    <3> QED BY <3>1 DEF AbInv
  <2>8. CASE WorkNone
    <3>1. UNCHANGED <<out, env>>
      BY <2>8 DEF WorkNone
    <3>2. cpc' # "end" => Body(s, g)'
      BY <2>1, <2>8, NoneBody
    <3> QED BY <2>3, <3>1, <3>2 DEF AbInv
  <2>9. CASE IoctlTimeout
    <3>1. UNCHANGED <<out, env>>
      BY <2>9 DEF IoctlTimeout
    <3>2. cpc' # "end" => Body(s, g)'
      BY <1>2, <2>1, <2>9, TimeoutBody
    <3> QED BY <2>3, <3>1, <3>2 DEF AbInv
  <2>11. CASE IoctlError
    BY <1>2, <2>11 DEF IoctlError, IdsComeRound
  <2>10. CASE CardFill
    <3>1. UNCHANGED <<out, env>>
      BY <2>10 DEF CardFill
    <3>2. Body(s + 1, g)' /\ s + 1 \in Nat
      BY <2>1, <2>10, FillBody
    <3>3. \E n \in Nat, h \in [Buffers -> Nat] : Body(n, h)'
      BY <3>2
    <3> QED BY <2>3, <3>1, <3>3 DEF AbInv
  <2> QED BY <1>2, <2>4, <2>5, <2>6, <2>7, <2>8, <2>9, <2>10, <2>11 DEF Next, Client
<1>3. CASE UNCHANGED vars
  <2>1. /\ rchAB' = rchAB /\ abNext' = abNext /\ lastId' = lastId /\ reqs' = reqs
        /\ block' = block /\ mem' = mem /\ full' = full /\ recycle' = recycle /\ next' = next
        /\ cpc' = cpc /\ timeouts' = timeouts /\ started' = started /\ out' = out /\ env' = env
    BY <1>3 DEF vars
  <2>2. ASSUME NEW s \in Nat, NEW g \in [Buffers -> Nat], Body(s, g) PROVE Body(s, g)'
    <3>1. Sent(s)' = Sent(s) /\ Tries' = Tries /\ Seen' = Seen
      BY <2>1 DEF Sent, Tries, Seen
    <3>2. Numbered(s, g)' /\ Served(s, g)'
      BY <2>1, <2>2, <3>1 DEF Body, Numbered, Served
    <3>3. Phase(s, g)'
      BY <2>1, <2>2, <3>1 DEF Body, Phase, Starting, Waiting, Working, OneFull, TwoFull
    <3>4. Timely' => Complete(s, g)'
      BY <2>1, <2>2, <3>1 DEF Body, Timely, Complete, LastTwo
    <3>5. Prompt' => Quick(s, g)'
      BY <2>1, <2>2 DEF Body, Prompt, Quick
    <3> QED BY <3>2, <3>3, <3>4, <3>5 DEF Body
  <2>3. (Timely' <=> Timely) /\ (Prompt' <=> Prompt)
    BY <2>1 DEF Timely, Prompt
  <2>4. IdsComeRound' <=> IdsComeRound
    BY <2>1 DEF IdsComeRound
  <2> QED BY <2>1, <2>2, <2>3, <2>4 DEF AbInv, Injective
<1> QED BY <1>1, <1>2, <1>3, <1>4

LEMMA AbSafe == Spec => []AbInv
BY AbInit, AbStep, PTL DEF Spec

\* acq200_bufferABaction and the loop of htstream, for any number of blocks,
\* ids and timeouts: while the client works on a buffer it was told is full,
\* the buffer holds the block that was reported and the card has no request
\* that would overwrite it, not even one left over from before a timeout; as
\* long as the ids are twice the tries that htstream makes in a row.
THEOREM StableSafe == Spec => []StableWhileRead
<1>1. AbInv => StableWhileRead
  <2> SUFFICES ASSUME AbInv, ~ IdsComeRound, NEW x \in Buffers, cpc \in {"work", "work2"},
                      full[x] \notin {NoBlock, EOF}
               PROVE  mem[x] = full[x] /\ \A k \in DOMAIN reqs : reqs[k].buf # x
    BY DEF StableWhileRead
  <2> USE BoundFacts
  <2>1. PICK s \in Nat, g \in [Buffers -> Nat] : Numbered(s, g) /\ Served(s, g) /\ Phase(s, g)
    BY DEF AbInv, Body
  <2>2. PICK b \in Buffers : Working(s, g, b)
    BY <2>1 DEF Phase, Starting, Waiting
  <2>3. full[x] = BlockOf(g[x]) /\ g[x] <= s /\ g[x] > 0 /\ g[x] \in Nat
    <3>1. CASE x = b
      BY <2>2, <3>1 DEF Working
    <3>2. CASE x # b
      <4>1. x = Other(b)
        BY <3>2
      <4> QED BY <2>2, <4>1 DEF Working, OneFull, TwoFull
    <3> QED BY <3>1, <3>2
  <2>4. mem[x] = full[x]
    <3>1. g[x] <= MaxBlocks /\ BlockOf(g[x]) = g[x]
      BY <2>3 DEF BlockOf
    <3>2. Slot(rchAB[x], mem[x], s, g[x])
      BY <2>1 DEF Served
    <3>3. 0 < g[x] /\ g[x] <= s /\ g[x] <= MaxBlocks => mem[x] = g[x]
      BY <3>2 DEF Slot
    <3> QED BY <2>3, <3>1, <3>3
  <2>5. reqs \in Seq(Requests) /\ DOMAIN reqs = 1 .. Len(reqs)
    BY <2>1 DEF Numbered, Queue
  <2>6. ASSUME NEW k \in 1 .. Len(reqs), reqs[k].buf = x PROVE FALSE
    <3>1. s + k <= g[reqs[k].buf]
      BY <2>1 DEF Numbered, Queue
    <3>2. s + k <= g[x] /\ k >= 1 /\ k \in Nat
      BY <2>5, <2>6, <3>1
    <3> QED BY <2>3, <3>2
  <2> QED BY <2>4, <2>5, <2>6
<1> QED BY <1>1, AbSafe, PTL

\* When no ioctl fails once data flows, htstream works on no block twice,
\* and when it goes back to the driver it has missed none.
THEOREM OnceSafe == Spec => []EachBlockOnce
<1>1. AbInv => EachBlockOnce
  <2> SUFFICES ASSUME AbInv, Timely PROVE EachBlockOnce
    BY DEF EachBlockOnce, Timely
  <2>1. Injective /\ out \in Seq(Nat) /\ DOMAIN out = 1 .. Len(out)
    BY DEF AbInv, Injective
  <2>3. ~ IdsComeRound
    BY DEF Timely, IdsComeRound
  <2>2. cpc = "ioctl" => Seen = 1 .. Len(out)
    BY <2>3 DEF AbInv, Body, Complete
  <2> QED BY <2>1, <2>2 DEF EachBlockOnce, Injective, Seen
<1> QED BY <1>1, AbSafe, PTL

\* A client that keeps up, and sees no ioctl fail, works on the blocks in the order
\* in which they were acquired.
THEOREM TurnSafe == Spec => []InTurnForQuickClient
<1>1. AbInv => InTurnForQuickClient
  <2> SUFFICES ASSUME AbInv, Prompt PROVE FilledInTurn
    BY DEF InTurnForQuickClient, Prompt
  <2>1. Timely
    BY DEF Timely, Prompt
  <2>2. out \in Seq(Nat) /\ DOMAIN out = 1 .. Len(out)
    BY <2>1 DEF AbInv, Injective
  <2> QED BY <2>2 DEF AbInv, FilledInTurn
<1> QED BY <1>1, AbSafe, PTL
=============================================================================
