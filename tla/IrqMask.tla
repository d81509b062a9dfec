------------------------------- MODULE IrqMask -------------------------------
(***************************************************************************)
(* Switching interrupt lines off and on (acq200_utils.c): the ioctls that  *)
(* walk a mask with MASK_ITERATOR, and the imask attribute, which disables *)
(* the lines of a new mask and enables those of the last one.              *)
(*                                                                         *)
(* A mask is the set of its bits, 0 to W - 1 (W is 32 in the ioctls; the   *)
(* attribute goes through its mask by groups of 4).  The kernel nests      *)
(* disable_irq: a line is on when its depth is zero.                       *)
(***************************************************************************)
EXTENDS Integers

CONSTANTS W,          \* width of a mask
          Writers,    \* processes that write to the attribute
          Environments,  \* what may happen in the behaviours that are looked at
          MaxDepth    \* bound on the nesting of disable_irq

ASSUME WidthAssumption == W \in Nat \ {0, 1} /\ MaxDepth \in Nat \ {0}

Happenings ==
    {"repeat",    \* a stored mask repeats a line of the last one
     "contend"}   \* two processes write to the attribute at the same time

ASSUME EnvironmentAssumption == Environments \subseteq SUBSET Happenings

VARIABLES op,      \* "idle", or the ioctl under way
          mask,    \* it.mask
          cursor,  \* it.icursor
          state,   \* it.state
          visited, \* the lines the walk has passed to the kernel
          depth,   \* line -> times it was disabled by the ioctls
          mdepth,  \* line -> times it was disabled by the attribute
          imask,   \* the mask last stored in the attribute
          active,  \* imask_a
          nibble,  \* writer -> new_mask and active_mask of its acq200_intsMask
          bkl,     \* bkl.lock is held
          is_locked, \* bkl.is_locked
          writer,  \* writer -> its place in store_imask
          env      \* what may happen in this behaviour: chosen once

it == <<mask, cursor, state>>
walk == <<op, mask, cursor, state, visited, depth>>
attr == <<mdepth, imask, active, nibble>>
lock == <<bkl, is_locked>>
vars == <<walk, attr, lock, writer, env>>

Bits == 0 .. W - 1
Masks == SUBSET Bits
NoNibble == [new |-> {}, active |-> {}]

Init ==
    /\ op = "idle" /\ mask = {} /\ cursor = 0 /\ state = "MI_IDLE" /\ visited = {}
    /\ depth = [i \in Bits |-> 0] /\ mdepth = [i \in Bits |-> 0]
    /\ imask = {} /\ active = {} /\ nibble = [w \in Writers |-> NoNibble]
    /\ bkl = FALSE /\ is_locked = FALSE /\ writer = [w \in Writers |-> "idle"]
    /\ env \in Environments

-----------------------------------------------------------------------------
(***************************************************************************)
(* MASK_ITERATOR.                                                          *)
(***************************************************************************)

\* The bits that hasNext looks at.  In (1 << icursor) >> 1 the sign bit is
\* shifted in again: from the top bit the walk looks at the top bit once more.
Ahead ==
    CASE state = "MI_IDLE" -> Bits
      [] state = "MI_STARTED" -> IF cursor = W - 1 THEN Bits ELSE 0 .. cursor - 1
      [] state = "MI_FINISHED" -> {}
hasNext == mask \cap Ahead # {}

\* The bits that getNext looks at, and the bit it returns, or -1.
Below_Skips == IF state = "MI_IDLE" THEN Bits ELSE 0 .. cursor - 2
Below == IF state = "MI_IDLE" THEN Bits ELSE 0 .. cursor - 1
Highest(S) == IF S = {} THEN -1 ELSE CHOOSE i \in S : \A j \in S : j <= i
getNext == Highest(mask \cap Below)

Start(o, m) ==
    /\ op = "idle" /\ m \in Masks
    /\ o = "disable" => \A i \in m : depth[i] < MaxDepth
    /\ o = "enable" => \A i \in m : depth[i] > 0
    /\ op' = o /\ mask' = m /\ cursor' = 0 /\ state' = "MI_IDLE" /\ visited' = {}
    /\ UNCHANGED <<depth, attr, lock, writer, env>>

\* One round of the loop of acq200_intsDisable or acq200_intsEnable.
Walk ==
    /\ op # "idle" /\ hasNext
    /\ LET i == getNext
       IN  /\ visited' = visited \cup {i}
           /\ depth' = IF i = -1 THEN depth
                       ELSE [depth EXCEPT ![i] = IF op = "disable" THEN @ + 1 ELSE @ - 1]
           /\ cursor' = IF i = -1 THEN 0 ELSE i
           /\ state' = IF i = -1 THEN "MI_FINISHED" ELSE "MI_STARTED"
    /\ UNCHANGED <<op, mask, attr, lock, writer, env>>

WalkEnd ==
    /\ op # "idle" /\ ~ hasNext
    /\ op' = "idle"
    /\ UNCHANGED <<it, visited, depth, attr, lock, writer, env>>

-----------------------------------------------------------------------------
(***************************************************************************)
(* store_imask and acq200_intsMask: every line of the new mask is          *)
(* disabled, a line that only the old one has is enabled.                  *)
(***************************************************************************)
Goto(w, l) == writer' = [writer EXCEPT ![w] = l]
MayWrite(w) ==
    writer[w] = "idle" /\ ("contend" \in env \/ \A u \in Writers : writer[u] = "idle")

\* The text is copied to device->imask.
StoreMask(w, m) ==
    /\ MayWrite(w) /\ m \in Masks
    /\ "repeat" \in env \/ m \cap imask = {}
    /\ \A i \in m, u \in Writers :
          mdepth[i] + (IF writer[u] \in {"mask", "apply"} THEN 1 ELSE 0) < MaxDepth
    /\ imask' = m /\ Goto(w, "mask")
    /\ UNCHANGED <<walk, mdepth, active, nibble, lock, env>>

\* new_mask and active_mask are nibble.
MaskLoad(w) ==
    /\ writer[w] = "mask"
    /\ nibble' = [nibble EXCEPT ![w] = [new |-> imask, active |-> active]]
    /\ Goto(w, "apply")
    /\ UNCHANGED <<walk, mdepth, imask, active, lock, env>>

\* The lines are disabled and enabled, and imask_a is stored.  To enable a line
\* that is on has no effect.
NewDepth_NoEnable(l) == [i \in Bits |-> IF i \in l.new THEN mdepth[i] + 1 ELSE mdepth[i]]
NewDepth(l) ==
    [i \in Bits |-> IF i \in l.new THEN mdepth[i] + 1
                    ELSE IF i \in l.active /\ mdepth[i] > 0 THEN mdepth[i] - 1 ELSE mdepth[i]]
MaskApply(w) ==
    /\ writer[w] = "apply"
    /\ mdepth' = NewDepth(nibble[w])
    /\ active' = nibble[w].new
    /\ nibble' = [nibble EXCEPT ![w] = NoNibble] /\ Goto(w, "idle")
    /\ UNCHANGED <<walk, imask, lock, env>>

-----------------------------------------------------------------------------
(***************************************************************************)
(* store_imask with LOC and 000, and acq200_bkl.  The lock stays with the  *)
(* attribute when the write returns.                                       *)
(***************************************************************************)
rest == <<walk, attr, env>>

StoreLoc(w) ==
    /\ MayWrite(w)
    /\ Goto(w, "spin")
    /\ UNCHANGED <<bkl, is_locked, rest>>

\* spin_lock_irqsave ends, and is_locked is set.
BklLock(w) ==
    /\ writer[w] = "spin" /\ ~ bkl
    /\ bkl' = TRUE /\ Goto(w, "locked")
    /\ UNCHANGED <<is_locked, rest>>
BklLocked(w) ==
    /\ writer[w] = "locked"
    /\ is_locked' = TRUE /\ Goto(w, "idle")
    /\ UNCHANGED <<bkl, rest>>

\* 000 when BKL_QUERY says locked; otherwise it is the empty mask of StoreMask.
StoreUnlock(w) ==
    /\ MayWrite(w) /\ is_locked
    /\ Goto(w, "unlock")
    /\ UNCHANGED <<bkl, is_locked, rest>>

\* spin_unlock_irqrestore, and is_locked is cleared after it.
BklUnlock(w) ==
    /\ writer[w] = "unlock"
    /\ bkl' = FALSE /\ Goto(w, "unlocked")
    /\ UNCHANGED <<is_locked, rest>>
BklUnlocked_Forgets(w) ==
    /\ writer[w] = "unlocked"
    /\ Goto(w, "idle")
    /\ UNCHANGED <<bkl, is_locked, rest>>
BklUnlocked(w) ==
    /\ writer[w] = "unlocked"
    /\ is_locked' = FALSE /\ Goto(w, "idle")
    /\ UNCHANGED <<bkl, rest>>

-----------------------------------------------------------------------------
WalkNext ==
    \/ \E m \in Masks : Start("disable", m) \/ Start("enable", m)
    \/ Walk \/ WalkEnd
MaskNext ==
    \E w \in Writers : \/ \E m \in Masks : StoreMask(w, m)
                       \/ MaskLoad(w) \/ MaskApply(w)
LockNext ==
    \E w \in Writers : \/ StoreLoc(w) \/ BklLock(w) \/ BklLocked(w)
                       \/ StoreUnlock(w) \/ BklUnlock(w) \/ BklUnlocked(w)
Next == WalkNext \/ MaskNext \/ LockNext

Spec == Init /\ [][Next]_vars

-----------------------------------------------------------------------------
\* A walk passes every line of its mask to the kernel and no other line: the set
\* bits of the argument, for enable ("interrupts defined by set bits in irqs",
\* acq200_utils.c:95) and for disable alike.  The comment on disable (85) says
\* clear bits; code and enable disagree with it.  With nothing but the sign bit
\* in the mask the walk also passes -1, no line (44).
WalkIsMask ==
    op # "idle" /\ ~ hasNext =>
        visited = IF mask = {W - 1} THEN {W - 1, -1} ELSE mask

\* When no write is under way, a line of the mask is off and a line that is not
\* in it is on again, as far as the attribute goes ("re-enable interrupts that are
\* not masked this time, but were last time", acq200_utils.c:115).  Masked is
\* a set bit (137), against the comment at 114, which says clear bits.  Not when
\* a line is in two masks in a row: it is disabled twice (138).  Not when two
\* writes run at once: both go from the same imask_a, and from what either has
\* copied last (124, 147).
MaskedExactly ==
    \/ "contend" \in env
    \/ \E w \in Writers : writer[w] \in {"mask", "apply"}
    \/ /\ \A i \in imask : mdepth[i] > 0
       /\ "repeat" \in env \/ \A i \in Bits \ imask : mdepth[i] = 0

\* When no write is under way the lock is held exactly if is_locked says so:
\* a lock that is held can be given back by writing 000 (acq200_if.c:352-354).
\* Not when a second LOC gets the lock between the unlock and the clearing of
\* is_locked (acq200_utils.c:161-162).
LockKnown ==
    "contend" \in env \/
    ((\A w \in Writers : writer[w] \notin {"locked", "unlock", "unlocked"}) => (bkl <=> is_locked))
=============================================================================
