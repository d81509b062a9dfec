------------------------------ MODULE RchBridge ------------------------------
(***************************************************************************)
(* The request side of the I2O bridge: read, write and release of a        *)
(* channel or file device (acq200_i2o.c), the pools of return command      *)
(* handlers and of DMA mappings (acq200_bigbuf_alloc.c), the list of       *)
(* outstanding handlers (rch.h), the busy semaphore that open takes        *)
(* (acq200.c), and what the tasklet does with a reply of the card          *)
(* (processCommandMessageReturn and the handlers it calls).                *)
(*                                                                         *)
(* A path is an open file, used by one process.  Every process is a        *)
(* sequence of steps that the steps of other processes and of the tasklet  *)
(* interleave.  On one processor the tasklet handles a reply in one step,  *)
(* as it does when it interrupts a process; with a second processor        *)
(* ("smp") it takes its own steps beside those of the processes.           *)
(***************************************************************************)
EXTENDS Integers, Sequences, FiniteSets

CONSTANTS Paths,          \* the files that can be open
          ABPaths,        \* the paths that may be open on bufA or bufB
          NoPath,
          NHandlers,      \* NHANDLERS
          NMappings,      \* NMAPPINGS, of which the last is MSG_MAPPING
          NoMap,          \* a null kbuf
          ABMap,          \* the AB buffer, which is not of the pool
          IdMod,          \* message ids come round after IdMod sends (0x7f + 1)
          InFrames,       \* message frames of the card's inbound queue
          Environments    \* what may happen in the behaviours that are looked at

\* What calls, the card, signals and other processors may do in a behaviour.
Happenings ==
    {"close",          \* paths are closed again
     "ab",             \* the paths of ABPaths read the AB buffers
     "late",           \* ids may come round while a request is at the card
     "smp",            \* a second processor: what no lock protects interleaves
     "alloc_timeout",  \* the sleep in _alloc times out
     "no_frame",       \* the card has but one inbound frame
     "error_reply",    \* the card answers a read with an error
     "zero_write",     \* processes write zero bytes
     "leaked",         \* such a write has kept a handler and a mapping before
     "read_signal",    \* a signal ends the wait of a read
     "close_signal"}   \* a signal ends the wait of a release

ASSUME SizesAssumption ==
    /\ NHandlers \in Nat \ {0} /\ NMappings \in Nat \ {0, 1}
    /\ IdMod \in Nat \ {0} /\ InFrames \in Nat \ {0}
ASSUME PathsAssumption ==
    ABPaths \subseteq Paths /\ NoPath \notin Paths
ASSUME MapAssumption ==
    /\ NoMap \notin 0 .. NMappings - 1 /\ ABMap \notin 0 .. NMappings - 1
    /\ NoMap # ABMap
ASSUME EnvironmentAssumption == Environments \subseteq SUBSET Happenings

VARIABLES rchRes,    \* reserved entries of the handler pool
          rchCur,    \* cursor of the handler pool
          mapRes,    \* reserved entries of the mapping pool
          mapCur,    \* cursor of the mapping pool
          rch,       \* the return command handlers
          list,      \* m_dpd.rch.list, the oldest handler first
          lastId,    \* m_dpd.i2o_last_id_out, as far as ids show it
          pending,   \* requests sent to the card and not yet answered
          mutex,     \* the path that holds buffer_AB_busy_mutex, or NoPath
          proc,      \* path -> the state of its process
          cpu,       \* the path whose pair of accesses is under way, or NoPath
          inRecycle, \* path -> where its process is in i2o_recycleRch
          bh,        \* the tasklet, when it has a processor of its own
          badDel,    \* a handler was deleted from the list without being there
          env        \* what may happen in this behaviour: chosen once

pools == <<rchRes, rchCur, mapRes, mapCur>>
vars == <<rchRes, rchCur, mapRes, mapCur, rch, list, lastId, pending, mutex, proc, cpu, badDel,
          env, inRecycle, bh>>

Rchs == 0 .. NHandlers - 1
Maps == 0 .. NMappings - 1
MSG_MAPPING == NMappings - 1
Ids == 0 .. IdMod - 1
Kbufs == Maps \cup {NoMap, ABMap}
Ops == {"none", "read", "write", "close"}
NoRch == -1

\* Paths whose open takes buffer_AB_busy_mutex, and the frames of the card.
Exclusive == IF "ab" \in env THEN Paths \ ABPaths ELSE Paths
Frames == IF "no_frame" \in env THEN 1 ELSE InFrames

PC == {"closed", "open", "rch", "rchClaim", "rchSleep", "map", "mapClaim", "mapSleep",
       "noMap", "build", "send", "wait", "check", "copy", "error", "last", "cleanup"}

\* i2o_recycleRch has tested self->path, and goes on to rchRemove or not; or it
\* has followed a null pointer, or one to what is no longer there.
RecyclePC == {"out", "remove", "free", "oops"}
BhPC == {"idle", "walk", "test", "call", "wake", "wakeLast", "recycle", "remove", "free", "oops"}
Functions == {"none", "read", "write", "last"}

CoreOK ==
    /\ rchRes \subseteq Rchs /\ rchCur \in Rchs
    /\ mapRes \subseteq Maps /\ mapCur \in Maps
    /\ rch \in [Rchs -> [handler : Functions, path : Paths \cup {NoPath},
                         id : Ids, valid : {-1, 0, 1}, kbuf : Kbufs, pool : BOOLEAN]]
    /\ list \in Seq(Rchs)
    /\ lastId \in Ids
    /\ pending \in Seq([id : Ids, op : Ops, rch : Rchs, path : Paths, kbuf : Kbufs])
    /\ mutex \in Paths \cup {NoPath}
    /\ proc \in [Paths -> [pc : PC, op : Ops, rch : Rchs \cup {NoRch}, kbuf : Kbufs,
                           used : BOOLEAN]]
    /\ cpu \in Paths \cup {NoPath}
    /\ badDel \in BOOLEAN /\ env \in Environments
TypeOK ==
    /\ CoreOK
    /\ inRecycle \in [Paths -> [at : RecyclePC, rch : Rchs \cup {NoRch}]]
    /\ bh \in [at : BhPC, rch : Rchs \cup {NoRch}, id : Ids, ok : BOOLEAN, handler : Functions,
               path : Paths \cup {NoPath}]

\* What writes of zero bytes by earlier paths have kept (acq200_i2o.c:564).
Leaked == IF "leaked" \in env THEN {0} ELSE {}

\* The tasklet has no reply to handle.
NoReply == [at |-> "idle", rch |-> NoRch, id |-> 0, ok |-> TRUE, handler |-> "none",
            path |-> NoPath]

\* acq200_pool_create: all handlers zero, MSG_MAPPING reserved for messages.
Init ==
    /\ env \in Environments
    /\ rchRes = Leaked /\ rchCur = 0
    /\ mapRes = Leaked \cup {MSG_MAPPING} /\ mapCur = 0
    /\ rch = [r \in Rchs |-> [handler |-> "none", path |-> NoPath, id |-> 0, valid |-> 0,
                              kbuf |-> NoMap, pool |-> FALSE]]
    /\ list = <<>> /\ lastId = 0 /\ pending = <<>>
    /\ mutex = NoPath
    /\ proc = [p \in Paths |-> [pc |-> "closed", op |-> "none", rch |-> NoRch,
                                kbuf |-> NoMap, used |-> FALSE]]
    /\ cpu = NoPath /\ badDel = FALSE
    /\ inRecycle = [p \in Paths |-> [at |-> "out", rch |-> NoRch]]
    /\ bh = NoReply

-----------------------------------------------------------------------------
(***************************************************************************)
(* The pools and the list.                                                 *)
(***************************************************************************)

Listed == {list[k] : k \in DOMAIN list}

\* list_del: the list without the first occurrence of r.
ListDel(l, r) ==
    LET k == CHOOSE j \in DOMAIN l : l[j] = r /\ \A i \in 1 .. j - 1 : l[i] # r
    IN  IF \E j \in DOMAIN l : l[j] = r
        THEN [i \in 1 .. Len(l) - 1 |-> IF i < k THEN l[i] ELSE l[i + 1]]
        ELSE l

\* How many INCRs take the scan of _alloc from its cursor to entry i.
ScanDist(cur, i, n) == IF i > cur THEN i - cur ELSE i + n - cur

\* The entry the scan stops at: the first free one after the cursor.
NextFree(res, cur, n) ==
    LET free == (0 .. n - 1) \ res
    IN  CHOOSE i \in free : \A j \in free : ScanDist(cur, i, n) <= ScanDist(cur, j, n)

\* rchRemove(r), with the handlers in state h.
rchRemove_KeepListed(h, r) ==
    /\ rch' = [h EXCEPT ![r].path = NoPath, ![r].handler = "none"]
    /\ UNCHANGED <<list, badDel>>
rchRemove(h, r) ==
    /\ list' = ListDel(list, r)
    /\ badDel' = (badDel \/ r \notin Listed)
    /\ rch' = [h EXCEPT ![r].path = NoPath, ![r].handler = "none"]

\* acq200_pool_free_mapping, if there is a mapping of the pool, and
\* acq200_pool_free_rch.
PoolFree_KeepMap(h, r) == rchRes' = rchRes \ {r} /\ UNCHANGED <<mapRes, rchCur, mapCur>>
PoolFree(h, r) ==
    /\ mapRes' = IF h[r].pool THEN mapRes \ {h[r].kbuf} ELSE mapRes
    /\ rchRes' = rchRes \ {r}
    /\ UNCHANGED <<rchCur, mapCur>>

\* self->device is null until buildRch has set it, and path, kbuf and flags.
NoDevice(r) == rch[r].kbuf = NoMap /\ ~ rch[r].pool

\* i2o_recycleRch(r), with the handlers in state h, when nothing comes between
\* its steps: in the tasklet, on the processor of the processes.
Recycle(h, r) ==
    /\ IF h[r].path # NoPath THEN rchRemove(h, r) ELSE rch' = h /\ UNCHANGED <<list, badDel>>
    /\ PoolFree(h, r)

\* A process runs, unless another one is between two accesses that nothing
\* but the scheduling keeps together.
Recycling(p) == inRecycle[p].at \in {"remove", "free"}
Runs(p) ==
    /\ cpu \in {NoPath, p}
    /\ "smp" \in env \/ \A o \in Paths \ {p} : ~ Recycling(o)
HoldCpu(p) == cpu' = IF "smp" \in env THEN NoPath ELSE p
FreeCpu == cpu' = NoPath

Goto(p, l) == proc' = [proc EXCEPT ![p].pc = l]
At(p, l) == proc[p].pc = l /\ inRecycle[p].at = "out" /\ Runs(p)

-----------------------------------------------------------------------------
(***************************************************************************)
(* System calls.                                                           *)
(***************************************************************************)

\* acq200_open: a new path; the paths of Exclusive wait for the semaphore.
Open(p) ==
    /\ At(p, "closed")
    /\ p \in Exclusive => mutex = NoPath
    /\ mutex' = IF p \in Exclusive THEN p ELSE mutex
    /\ proc' = [proc EXCEPT ![p] = [pc |-> "open", op |-> "none", rch |-> NoRch,
                                    kbuf |-> NoMap, used |-> FALSE]]
    /\ UNCHANGED <<pools, rch, list, lastId, pending, cpu, badDel>>

\* The entries of acq200_bridge_read_generic, acq200_bridge_write_generic and
\* acq200_bridge_release_generic.  A release of a path that never built a
\* message (last_direction_hack is LDH_NONE) goes straight to the cleanup.
Call(p, op) ==
    /\ At(p, "open")
    /\ op = "close" => "close" \in env
    /\ proc' = [proc EXCEPT ![p].op = op,
                            ![p].pc = IF op = "close" /\ ~ proc[p].used THEN "cleanup" ELSE "rch"]
    /\ UNCHANGED <<pools, rch, list, lastId, pending, mutex, cpu, badDel>>

\* _alloc, on the handler pool: the scan stops at a free entry ...
RchScan(p) ==
    /\ At(p, "rch")
    /\ rchRes # Rchs
    /\ proc' = [proc EXCEPT ![p].pc = "rchClaim",
                            ![p].rch = NextFree(rchRes, rchCur, NHandlers)]
    /\ HoldCpu(p)
    /\ UNCHANGED <<pools, rch, list, lastId, pending, mutex, badDel>>

\* ... and the entry is reserved.
RchClaim_NoReserve(p) ==
    /\ At(p, "rchClaim")
    /\ rchCur' = proc[p].rch
    /\ Goto(p, IF proc[p].op = "close" \/ (proc[p].op = "read" /\ p \notin Exclusive)
               THEN "build" ELSE "map")
    /\ FreeCpu
    /\ UNCHANGED <<rchRes, mapRes, mapCur, rch, list, lastId, pending, mutex, badDel>>
RchClaim(p) ==
    /\ At(p, "rchClaim")
    /\ rchCur' = proc[p].rch
    /\ rchRes' = rchRes \cup {proc[p].rch}
    /\ Goto(p, IF proc[p].op = "close" \/ (proc[p].op = "read" /\ p \notin Exclusive)
               THEN "build" ELSE "map")
    /\ FreeCpu
    /\ UNCHANGED <<mapRes, mapCur, rch, list, lastId, pending, mutex, badDel>>

\* The scan came back to the cursor: interruptible_sleep_on_timeout.
RchSleep(p) ==
    /\ At(p, "rch")
    /\ rchRes = Rchs
    /\ Goto(p, "rchSleep")
    /\ UNCHANGED <<pools, rch, list, lastId, pending, mutex, cpu, badDel>>

RchWake(p) ==
    /\ At(p, "rchSleep")
    /\ rchRes # Rchs
    /\ Goto(p, "rch")
    /\ UNCHANGED <<pools, rch, list, lastId, pending, mutex, cpu, badDel>>

\* _alloc returns 0: -ETIMEDOUT, but release tries again.
RchTimeout(p) ==
    /\ At(p, "rchSleep") /\ "alloc_timeout" \in env
    /\ Goto(p, IF proc[p].op = "close" THEN "rch" ELSE "open")
    /\ UNCHANGED <<pools, rch, list, lastId, pending, mutex, cpu, badDel>>

MapScan(p) ==
    /\ At(p, "map")
    /\ mapRes # Maps
    /\ proc' = [proc EXCEPT ![p].pc = "mapClaim",
                            ![p].kbuf = NextFree(mapRes, mapCur, NMappings)]
    /\ HoldCpu(p)
    /\ UNCHANGED <<pools, rch, list, lastId, pending, mutex, badDel>>

MapClaim(p) ==
    /\ At(p, "mapClaim")
    /\ mapCur' = proc[p].kbuf
    /\ mapRes' = mapRes \cup {proc[p].kbuf}
    /\ Goto(p, "build")
    /\ FreeCpu
    /\ UNCHANGED <<rchRes, rchCur, rch, list, lastId, pending, mutex, badDel>>

MapSleep(p) ==
    /\ At(p, "map")
    /\ mapRes = Maps
    /\ Goto(p, "mapSleep")
    /\ UNCHANGED <<pools, rch, list, lastId, pending, mutex, cpu, badDel>>

MapWake(p) ==
    /\ At(p, "mapSleep")
    /\ mapRes # Maps
    /\ Goto(p, "map")
    /\ UNCHANGED <<pools, rch, list, lastId, pending, mutex, cpu, badDel>>

MapTimeout(p) ==
    /\ At(p, "mapSleep") /\ "alloc_timeout" \in env
    /\ Goto(p, "noMap")
    /\ UNCHANGED <<pools, rch, list, lastId, pending, mutex, cpu, badDel>>

\* count == 0 in a write: return -ENOMEM.
WriteEmpty(p) ==
    /\ At(p, "build") /\ "zero_write" \in env
    /\ proc[p].op = "write"
    /\ proc' = [proc EXCEPT ![p].pc = "open", ![p].rch = NoRch, ![p].kbuf = NoMap]
    /\ UNCHANGED <<pools, rch, list, lastId, pending, mutex, cpu, badDel>>

\* Unless it is late, a message is answered, and a handler that has its answer
\* is recycled, long before the id comes round again, 128 messages later.  With
\* a second processor an answer can be stored for a read that a signal has just
\* ended, and nobody recycles it before the release.
IdFree(id) ==
    \/ "late" \in env
    \/ /\ \A k \in DOMAIN pending : pending[k].id # id
       /\ \/ "smp" \in env
          \/ \A k \in DOMAIN list : rch[list[k]].valid # 0 => rch[list[k]].id # id

\* acq200_bridge_readAB reads with the mapping of an AB buffer.
ReadsAB(p) == proc[p].op = "read" /\ p \notin Exclusive

\* build_hrd_message, buildRch and rchAppend.
Built(p) ==
    LET op == proc[p].op
    IN  [handler |-> IF op = "close" THEN "last" ELSE op,
         path |-> p,
         id |-> (lastId + 1) % IdMod,
         valid |-> 0,
         kbuf |-> IF op = "close" THEN NoMap ELSE IF ReadsAB(p) THEN ABMap ELSE proc[p].kbuf,
         pool |-> ~ ReadsAB(p)]
rchAppend(r) == Append(list, r)
Build(p) ==
    /\ At(p, "build")
    /\ IdFree((lastId + 1) % IdMod)
    /\ rch' = [rch EXCEPT ![proc[p].rch] = Built(p)]
    /\ list' = rchAppend(proc[p].rch)
    /\ proc' = [proc EXCEPT ![p].pc = "send", ![p].used = TRUE]
    /\ HoldCpu(p)
    /\ UNCHANGED <<pools, lastId, pending, mutex, badDel>>

\* What the caller does after acq200_sendI2O_kbuf, whose result it ignores: a
\* write returns, a read and a release wait.
AfterSend(p) ==
    /\ proc' = [proc EXCEPT ![p] =
                  IF @.op = "write" THEN [@ EXCEPT !.pc = "open", !.rch = NoRch, !.kbuf = NoMap]
                                    ELSE [@ EXCEPT !.pc = "wait"]]
    /\ FreeCpu

\* acq200_sendI2O_kbuf.
Send_IdKept(p) ==
    /\ At(p, "send")
    /\ Len(pending) < Frames
    /\ pending' = Append(pending, [id |-> (lastId + 1) % IdMod, op |-> proc[p].op,
                                   rch |-> proc[p].rch, path |-> p,
                                   kbuf |-> rch[proc[p].rch].kbuf])
    /\ AfterSend(p)
    /\ UNCHANGED <<pools, rch, list, lastId, mutex, badDel>>
Send(p) ==
    /\ At(p, "send")
    /\ Len(pending) < Frames
    /\ lastId' = (lastId + 1) % IdMod
    /\ pending' = Append(pending, [id |-> lastId', op |-> proc[p].op, rch |-> proc[p].rch,
                                   path |-> p, kbuf |-> rch[proc[p].rch].kbuf])
    /\ AfterSend(p)
    /\ UNCHANGED <<pools, rch, list, mutex, badDel>>

\* PCI_I2O_INVALID_MFA: no inbound frame is free, nothing is sent.
SendNoFrame(p) ==
    /\ At(p, "send")
    /\ Len(pending) >= Frames
    /\ AfterSend(p)
    /\ UNCHANGED <<pools, rch, list, lastId, pending, mutex, badDel>>

\* wait_event_interruptible: the condition became true, or a signal came.
Wait(p) ==
    /\ At(p, "wait")
    /\ \/ rch[proc[p].rch].valid # 0
       \/ "read_signal" \in env /\ proc[p].op = "read"
       \/ "close_signal" \in env /\ proc[p].op = "close"
    /\ Goto(p, IF proc[p].op = "close" THEN "last" ELSE "check")
    /\ UNCHANGED <<pools, rch, list, lastId, pending, mutex, cpu, badDel>>

\* rchRemoveIfNotValid and the switch on its result.
Check_RecycleOnSignal(p) ==
    LET v == rch[proc[p].rch].valid
    IN  /\ At(p, "check")
        /\ IF v = 0 THEN Recycle(rch, proc[p].rch) ELSE UNCHANGED <<pools, rch, list, badDel>>
        /\ proc' = [proc EXCEPT ![p] =
                      IF v = 0 THEN [@ EXCEPT !.pc = "open", !.rch = NoRch, !.kbuf = NoMap]
                      ELSE [@ EXCEPT !.pc = IF v = 1 THEN "copy" ELSE "error"]]
        /\ UNCHANGED <<lastId, pending, mutex, cpu>>
Check(p) ==
    LET r == proc[p].rch
        v == rch[r].valid
    IN  /\ At(p, "check")
        /\ rch' = IF v = 1 THEN rch ELSE [rch EXCEPT ![r].handler = "none"]
        /\ list' = IF v < 0 THEN ListDel(list, r) ELSE list
        /\ badDel' = (badDel \/ (v < 0 /\ r \notin Listed))
        /\ proc' = [proc EXCEPT ![p] =
                      IF v = 0 THEN [@ EXCEPT !.pc = "open", !.rch = NoRch, !.kbuf = NoMap]
                      ELSE [@ EXCEPT !.pc = IF v = 1 THEN "copy" ELSE "error"]]
        /\ UNCHANGED <<pools, lastId, pending, mutex, cpu>>

\* acq200_bridge_release_message after a wait that a signal ended.
CloseLast(p) ==
    /\ At(p, "last")
    /\ rch[proc[p].rch].valid # 1
    /\ proc' = [proc EXCEPT ![p].pc = "cleanup", ![p].rch = NoRch]
    /\ UNCHANGED <<pools, rch, list, lastId, pending, mutex, cpu, badDel>>

\* The handlers of the path that _cleanup_on_bridge_release finds on the list.
Trapped(p) == {k \in DOMAIN list : rch[list[k]].path = p}

\* The process recycles handler r where it is: it got no mapping, it has copied to
\* the user or returns -EFAULT, its release was answered, or the cleanup of the
\* release found r.
Recycles(p, r) ==
    \/ (At(p, "noMap") \/ At(p, "copy") \/ At(p, "error")) /\ r = proc[p].rch
    \/ At(p, "last") /\ r = proc[p].rch /\ rch[r].valid = 1
    \/ At(p, "cleanup") /\ \E k \in Trapped(p) : r = list[k] /\ \A j \in Trapped(p) : k <= j

\* i2o_recycleRch: the test of self->path, without the lock ...
RecycleTest(p) ==
    /\ \E r \in Rchs :
          /\ Recycles(p, r)
          /\ inRecycle' = [inRecycle EXCEPT ![p] =
                             [at |-> IF rch[r].path # NoPath THEN "remove" ELSE "free", rch |-> r]]
    /\ UNCHANGED <<pools, rch, list, lastId, pending, mutex, proc, cpu, badDel>>

\* ... then what follows.  From list_del on the handler is in nobody's sight and
\* still reserved, so the frees come in one step with it.  A handler that was
\* never built has no device to give it back to: the process gets no further.
RecycleRest(p) ==
    LET r == inRecycle[p].rch
    IN  /\ Recycling(p) /\ Runs(p) /\ ~ NoDevice(r)
        /\ IF inRecycle[p].at = "remove" THEN rchRemove(rch, r) ELSE UNCHANGED <<rch, list, badDel>>
        /\ PoolFree(rch, r)
        /\ proc' = [proc EXCEPT ![p].pc = IF @ \in {"last", "cleanup"} THEN "cleanup" ELSE "open",
                                ![p].rch = NoRch, ![p].kbuf = NoMap]
        /\ inRecycle' = [inRecycle EXCEPT ![p] = [at |-> "out", rch |-> NoRch]]
        /\ UNCHANGED <<lastId, pending, mutex, cpu>>
RecycleOops(p) ==
    /\ Recycling(p) /\ Runs(p) /\ NoDevice(inRecycle[p].rch)
    /\ inRecycle' = [inRecycle EXCEPT ![p].at = "oops"]
    /\ UNCHANGED <<pools, rch, list, lastId, pending, mutex, proc, cpu, badDel>>

\* acq200_release: the semaphore is given back and the path freed.
Release(p) ==
    /\ At(p, "cleanup")
    /\ Trapped(p) = {}
    /\ mutex' = IF mutex = p THEN NoPath ELSE mutex
    /\ proc' = [proc EXCEPT ![p].pc = "closed", ![p].op = "none", ![p].used = FALSE]
    /\ UNCHANGED <<pools, rch, list, lastId, pending, cpu, badDel>>

-----------------------------------------------------------------------------
(***************************************************************************)
(* A reply of the card, and processCommandMessageReturn in the tasklet.    *)
(* The card answers the requests of one path in their order.               *)
(***************************************************************************)

Match(id) == {k \in DOMAIN list : rch[list[k]].id = id}

rchSetSamples(r, ok) == [rch EXCEPT ![r].valid = IF ok THEN 1 ELSE -1]

\* i2o_handleLastMessage, for the message of a release.
HandleLast(r) == Recycle([rch EXCEPT ![r].valid = 1], r)

\* The handlers: a read stores the result for the process that waits, and the
\* others, or no handler at all, give the handler back.
Handle_NoValid(r, ok) ==
    IF rch[r].handler = "read" THEN UNCHANGED <<pools, rch, list, badDel>> ELSE Recycle(rch, r)
Handle(r, ok) ==
    CASE rch[r].handler = "read" ->
           IF rch[r].path # NoPath
           THEN rch' = rchSetSamples(r, ok) /\ UNCHANGED <<pools, list, badDel>>
           ELSE Recycle(rchSetSamples(r, ok), r)
      [] rch[r].handler = "last" -> HandleLast(r)
      [] OTHER -> Recycle(rch, r)

\* The card has answered request k.
Answer(k, ok) ==
    /\ k \in DOMAIN pending
    /\ \A j \in 1 .. k - 1 : pending[j].path # pending[k].path
    /\ ok \/ "error_reply" \in env
    /\ pending' = [i \in 1 .. Len(pending) - 1 |->
                     IF i < k THEN pending[i] ELSE pending[i + 1]]

Reply(k, ok) ==
    /\ Answer(k, ok)
    /\ LET m == Match(pending[k].id)
       IN  IF m = {}
           THEN UNCHANGED <<pools, rch, list, badDel>>
           ELSE Handle(list[CHOOSE i \in m : \A j \in m : i <= j], ok)
    /\ UNCHANGED <<lastId, mutex, proc, cpu>>

CardReply ==
    /\ "smp" \notin env
    /\ \E k \in 1 .. InFrames, ok \in BOOLEAN : Reply(k, ok)
    /\ UNCHANGED <<env, inRecycle, bh>>

-----------------------------------------------------------------------------
(***************************************************************************)
(* The tasklet on a processor of its own.  Of the handler's fields only    *)
(* those that rch.h accesses are read and written under the lock.          *)
(***************************************************************************)

bhOthers == <<pools, rch, list, lastId, pending, mutex, proc, cpu, badDel>>

\* The next reply: its id is looked for from the head of the list on.
BhTake(k, ok) ==
    /\ bh.at = "idle" /\ Answer(k, ok)
    /\ bh' = IF list = <<>> THEN bh
             ELSE [bh EXCEPT !.at = "walk", !.rch = list[1], !.id = pending[k].id, !.ok = ok]
    /\ UNCHANGED <<pools, rch, list, lastId, mutex, proc, cpu, badDel>>

\* list_for_each_entry: compare the id, or follow list.next, which list_del has
\* poisoned when the handler is no longer on the list.
BhWalk ==
    LET r == bh.rch
        at == {k \in DOMAIN list : list[k] = r}
    IN  /\ bh.at = "walk"
        /\ bh' = IF rch[r].id = bh.id THEN [bh EXCEPT !.at = "test"]
                 ELSE IF at = {} THEN [bh EXCEPT !.at = "oops"]
                 ELSE IF Len(list) \in at THEN NoReply
                 ELSE [bh EXCEPT !.rch = list[(CHOOSE k \in at : TRUE) + 1]]
        /\ UNCHANGED bhOthers

\* if (rch->handler)
BhTest ==
    /\ bh.at = "test"
    /\ bh' = [bh EXCEPT !.at = IF rch[bh.rch].handler = "none" THEN "recycle" ELSE "call",
                        !.handler = rch[bh.rch].handler]
    /\ UNCHANGED bhOthers

\* rch->handler(rch, message), of the value tested or of the one that is there
\* now.  A read's answer is stored and its path looked at under the lock.
BhCall(h) ==
    LET r == bh.rch
    IN  /\ bh.at = "call" /\ h \in {bh.handler, rch[r].handler}
        /\ rch' = CASE h = "read" -> rchSetSamples(r, bh.ok)
                    [] h = "last" -> [rch EXCEPT ![r].valid = 1]
                    [] OTHER -> rch
        /\ bh' = [bh EXCEPT !.path = rch[r].path,
                            !.at = CASE h = "none" -> "oops"
                                     [] h = "last" -> "wakeLast"
                                     [] h = "read" /\ rch[r].path # NoPath -> "wake"
                                     [] OTHER -> "recycle"]
        /\ UNCHANGED <<pools, list, lastId, pending, mutex, proc, cpu, badDel>>

\* wake_up_interruptible, on the path found before, which must still be open, ...
BhWake ==
    /\ bh.at = "wake"
    /\ bh' = IF proc[bh.path].pc = "closed" THEN [bh EXCEPT !.at = "oops"] ELSE NoReply
    /\ UNCHANGED bhOthers

\* ... and on self->path.
BhWakeLast ==
    /\ bh.at = "wakeLast"
    /\ bh' = [bh EXCEPT !.at = IF rch[bh.rch].path = NoPath THEN "oops" ELSE "recycle"]
    /\ UNCHANGED bhOthers

\* i2o_recycleRch, in the two steps it has in a process.
BhRecycle ==
    /\ bh.at = "recycle"
    /\ bh' = [bh EXCEPT !.at = IF rch[bh.rch].path # NoPath THEN "remove" ELSE "free"]
    /\ UNCHANGED bhOthers
BhRest ==
    /\ bh.at \in {"remove", "free"}
    /\ IF bh.at = "remove" THEN rchRemove(rch, bh.rch) ELSE UNCHANGED <<rch, list, badDel>>
    /\ PoolFree(rch, bh.rch)
    /\ bh' = NoReply
    /\ UNCHANGED <<lastId, pending, mutex, proc, cpu>>

Tasklet ==
    /\ "smp" \in env
    /\ \/ \E k \in 1 .. InFrames, ok \in BOOLEAN : BhTake(k, ok)
       \/ BhWalk \/ BhTest \/ BhWake \/ BhWakeLast \/ BhRecycle \/ BhRest
       \/ \E h \in Functions : BhCall(h)
    /\ UNCHANGED <<env, inRecycle>>

-----------------------------------------------------------------------------
Alloc(p) ==
    \/ RchScan(p) \/ RchClaim(p) \/ RchSleep(p) \/ RchWake(p) \/ RchTimeout(p)
    \/ MapScan(p) \/ MapClaim(p) \/ MapSleep(p) \/ MapWake(p) \/ MapTimeout(p)

\* The steps a system call takes once it was made.
Step(p) ==
    /\ \/ Alloc(p) \/ Build(p) \/ Send(p) \/ SendNoFrame(p) \/ Wait(p) \/ Check(p)
       \/ CloseLast(p) \/ Release(p)
    /\ UNCHANGED inRecycle
RecycleStep(p) == RecycleTest(p) \/ RecycleRest(p) \/ RecycleOops(p)
Progress(p) == (Step(p) \/ RecycleStep(p)) /\ UNCHANGED <<env, bh>>

\* The steps that a process takes or not.
Choice(p) ==
    /\ \/ Open(p)
       \/ \E op \in {"read", "write", "close"} : Call(p, op)
       \/ WriteEmpty(p)
    /\ UNCHANGED <<env, inRecycle, bh>>

Next == (\E p \in Paths : Choice(p) \/ Progress(p)) \/ CardReply \/ Tasklet

Spec == Init /\ [][Next]_vars

\* Processes that can run do run, and the card answers what it was sent.
FairSpec ==
    Spec /\ WF_vars(CardReply) /\ WF_vars(Tasklet) /\ \A p \in Paths : WF_vars(Progress(p))

-----------------------------------------------------------------------------
(***************************************************************************)
(* Correctness.                                                            *)
(***************************************************************************)

\* Some of these may happen in this behaviour.
Troubles(S) == env \cap S # {}

Working(p) == proc[p].pc \notin {"open", "closed"}

\* A process or the tasklet has followed a null or a stale pointer: in
\* acq200_pool_free_rch with the null device of a handler that was never built
\* (acq200_i2o.c:477, 557), or, with a second processor, in the tasklet.  What
\* the kernel does then is not of this model.
Oopsed == bh.at = "oops" \/ \E p \in Paths : inRecycle[p].at = "oops"

\* The tasklet has a processor of its own while these happen.  A release recycles
\* the handler of its message (831-832) beside i2o_handleLastMessage (452-454); a
\* read that a signal ended clears its handler function (rch.h:52) beside the
\* tasklet, which tests it, calls it and stores the answer.
Races(S) == "smp" \in env /\ Troubles(S)

\* The processes that hold a handler or a mapping of the pool.
HasRch(p) == proc[p].rch # NoRch /\ proc[p].pc # "rchClaim"
HasMap(p) == proc[p].kbuf \in Maps /\ proc[p].pc # "mapClaim"

\* While the card can still write to a mapping, or read from it, the mapping
\* is reserved and no other request uses it (acq200_i2o.c:519: after a signal
\* the buffer is left to the tasklet; 786-804: release frees what is left).
\* Not when a mapping was not to be had (477: the mapping of the handler's last
\* use is freed) or when a release did not wait for the card.
DmaSafe ==
    Troubles({"alloc_timeout", "close_signal"}) \/
    \A k \in DOMAIN pending :
        LET m == pending[k].kbuf
        IN  m \in Maps =>
              /\ m \in mapRes
              /\ \A j \in DOMAIN pending : j # k => pending[j].kbuf # m
              /\ \A p \in Paths : HasMap(p) /\ proc[p].kbuf = m => proc[p].rch = pending[k].rch

\* A handler serves one read or write at a time, and from the append to the
\* recycle its path is the path of that request ("active path",
\* acq200.h:108).  Not in the race of a release with the tasklet, which gives
\* back a handler that the next call may have.
ActivePath ==
    Races({"close"}) \/
    \A p \in Paths : HasRch(p) /\ proc[p].op # "close" =>
        /\ proc[p].rch \in rchRes
        /\ proc[p].pc \in {"send", "wait", "check", "copy"} => rch[proc[p].rch].path = p
        /\ \A o \in Paths \ {p} :
              HasRch(o) /\ proc[o].op # "close" => proc[o].rch # proc[p].rch

\* The list holds each handler once, only handlers that are reserved, and only
\* handlers whose path is still open: the tasklet wakes path->return_waitq
\* through them (acq200_i2o.c:271), and acq200_release frees the path.  Nobody
\* deletes a handler that is not on it, although self->path is tested without
\* the lock (238) that list_del takes (rch.h:29).  Not when the card reports
\* errors (rch.h:50, 32), when a release goes to its cleanup without the answer
\* of the card, which may come between the test and list_del, or in the race of
\* a release with the tasklet on a second processor.
ListSound ==
    Races({"close"}) \/
    /\ Troubles({"error_reply", "close_signal"}) \/ ~ badDel
    /\ \A i, j \in DOMAIN list : list[i] = list[j] => i = j
    /\ Listed \subseteq rchRes
    /\ \A r \in Listed : rch[r].path # NoPath /\ proc[rch[r].path].pc # "closed"

\* No handler is deleted twice from the list (rch.h:27-56, LIST_POISON).
NoDoubleDelete == ~ badDel

\* A reply finds, by its id, the handler of the request it answers, or none
\* (acq200_i2o.c:149, 180, 320: the id is computed twice and compared), unless
\* releases were interrupted and their requests stay at the card, or an answer
\* has stayed with the handler of an interrupted read.
ReplyFindsRequest ==
    Troubles({"close_signal"}) \/ Races({"read_signal"}) \/
    \A k \in DOMAIN pending : \A r \in Listed :
        rch[r].id = pending[k].id =>
            r = pending[k].rch /\ rch[r].path = pending[k].path

\* Every reserved entry of the pools has somebody who will give it back: a
\* process, or a handler on the list that release will find ("this to free any
\* trapped rch", acq200_i2o.c:834).  Not after a write of zero bytes (564), once
\* a process has oopsed with its handler, or in the race of a release with the
\* tasklet.
NoLeak ==
    Troubles({"zero_write", "leaked"}) \/ Oopsed \/ Races({"close"}) \/
    /\ \A r \in rchRes : r \in Listed \/ \E p \in Paths : HasRch(p) /\ proc[p].rch = r
    /\ \A m \in mapRes \ {MSG_MAPPING} :
          \/ \E r \in Listed : rch[r].kbuf = m /\ rch[r].pool
          \/ \E p \in Paths : HasMap(p) /\ proc[p].kbuf = m

\* Every system call returns: a read gets its answer, a write gets its
\* buffers, and a release ends (acq200_i2o.c:506-511, 824-829).  Not when the
\* card had no frame, as the result of acq200_sendI2O_kbuf is ignored (505, 824),
\* not when AB requests or empty writes have used up the handlers, and not after
\* an oops: a call that gets no mapping for a handler never used before ends in
\* one (477, 557).  Nor when a release races with the tasklet, which can
\* take the handler of a message that is not answered yet, or when the answer of
\* an interrupted read stays on the list until its id comes round.
CallsReturn ==
    \A p \in Paths :
        Working(p) ~> \/ ~ Working(p) \/ Oopsed \/ Races({"close", "read_signal"})
                      \/ Troubles({"no_frame", "ab", "zero_write"})
=============================================================================
