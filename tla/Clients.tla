------------------------------- MODULE Clients -------------------------------
(***************************************************************************)
(* Who may use the card: open, ioctl, mmap and release of its devices      *)
(* (acq200.c, acq200_mmap.c), with the choice of file operations by minor  *)
(* (acq200_minors.h), buffer_AB_busy_mutex, the AB buffers and the count   *)
(* of AB clients, which decides when the backstop thread of I2oInbound     *)
(* runs.                                                                   *)
(*                                                                         *)
(* AB paths take the semaphore for each ioctl.  The bridge paths and the   *)
(* paths of no special kind hold it from open to release; the paths of     *)
(* registers, host buffer and llhost buffer do without.                    *)
(***************************************************************************)
EXTENDS Integers, FiniteSets

CONSTANTS Paths,
          Settings, \* the minors of the paths and what may happen, as records
          MaxSkew   \* bound on how far interrupted calls may put the counts out

Happenings ==
    {"fault",    \* COPY_FROM_USER fails in acq200_ioctlAB
     "signal",   \* a signal ends the wait for a semaphore
     "together"} \* AB paths are opened at once for the first time

ASSUME PathsAssumption == IsFiniteSet(Paths) /\ MaxSkew \in Nat
ASSUME SettingsAssumption ==
    Settings \subseteq [minor : [Paths -> 0 .. 255], env : SUBSET Happenings]

VARIABLES minor,    \* path -> its minor: chosen once
          pc,       \* path -> the place of its process
          busy,     \* the count of buffer_AB_busy_mutex
          has,      \* the paths with has_AB_busy_mutex
          probing,  \* show_buffer_AB_busy_mutex is between trylock and up
          cmutex,   \* the count of clients.mutex
          count,    \* clients.count
          threads,  \* backstop threads that run
          buf,      \* device->AB: the buffers A and B, by number, or 0
          given,    \* buffers that were allocated
          held,     \* path -> its bufferMappings
          mapped,   \* path -> the memory that is mapped to its process
          env       \* what may happen in this behaviour: chosen once

sem == <<busy, has, probing>>
clients == <<cmutex, count, threads>>
buffers == <<buf, given, held, mapped>>
rigid == <<minor, env>>
vars == <<pc, sem, clients, buffers, rigid>>

PC == {"closed", "openBusy", "allocA", "allocB", "copy", "openDown", "openCount", "openStart",
       "open", "ioctl", "action", "relDown", "relTest", "relStop", "relDec", "release"}

AB == 0 .. 1
Buffers == 0 .. 2 * Cardinality(Paths)
NoBuffers == [i \in AB |-> 0]
Unmapped == <<"none", 0>>
Memory == {"none", "AB", "host", "llhost", "registers"} \X Buffers

TypeOK ==
    /\ pc \in [Paths -> PC]
    /\ busy \in {0, 1} /\ has \subseteq Paths /\ probing \in BOOLEAN
    /\ cmutex \in Nat /\ count \in Int /\ threads \in Nat
    /\ buf \in [AB -> Buffers] /\ given \in Buffers
    /\ held \in [Paths -> [AB -> Buffers]] /\ mapped \in [Paths -> Memory]
    /\ [minor |-> minor, env |-> env] \in Settings

Init ==
    /\ \E s \in Settings : minor = s.minor /\ env = s.env
    /\ pc = [p \in Paths |-> "closed"]
    /\ busy = 1 /\ has = {} /\ probing = FALSE
    /\ cmutex = 1 /\ count = 0 /\ threads = 0
    /\ buf = NoBuffers /\ given = 0
    /\ held = [p \in Paths |-> NoBuffers] /\ mapped = [p \in Paths |-> Unmapped]

At(p, l) == pc[p] = l
Goto(p, l) == pc' = [pc EXCEPT ![p] = l]

-----------------------------------------------------------------------------
(***************************************************************************)
(* acq200_minors.h: which device a minor is, and its file operations.      *)
(***************************************************************************)
Special(m) == m \in 192 .. 223      \* _SPECIAL, with SPECIAL_FLAGS m % 32
Fops(m) ==
    CASE Special(m) /\ m % 32 = 1 -> "mbox"       \* DEVRAW
      [] Special(m) /\ m % 32 = 3 -> "bigdump"    \* BIGDUMPDEV, with acq200_fops
      [] Special(m) /\ m % 32 = 11 -> "llhost"    \* LLHOSTDEV
      [] m \in 97 .. 127 -> "AB"
      [] m \in (0 .. 96) \cup (128 .. 143) \cup {227, 228, 229, 237} -> "bridge"
      [] OTHER -> "host"
IsAB(p) == Fops(minor[p]) = "AB"
TakesBusy(p) == Fops(minor[p]) \in {"bridge", "host"}

-----------------------------------------------------------------------------
(***************************************************************************)
(* acq200_open and acq200_bridge_openAB.                                   *)
(***************************************************************************)

Bounded ==
    count >= - MaxSkew /\ cmutex <= 1 + MaxSkew /\ threads <= 1 + MaxSkew

\* Others are between the test for the AB buffers and their allocation.
Allocating == \E p \in Paths : pc[p] \in {"allocA", "allocB"}

\* acq200_createPath; for AB paths also the test if the buffers are there.
Open(p) ==
    /\ At(p, "closed") /\ Bounded
    /\ IsAB(p) /\ Allocating => "together" \in env
    /\ Goto(p, IF TakesBusy(p) THEN "openBusy"
               ELSE IF ~ IsAB(p) THEN "open"
               ELSE IF buf[0] = 0 THEN "allocA" ELSE "copy")
    /\ UNCHANGED <<sem, clients, buffers, rigid>>

\* return_open_take_busy.
OpenBusy_NotNoted(p) ==
    /\ At(p, "openBusy") /\ busy > 0
    /\ busy' = busy - 1
    /\ Goto(p, "open")
    /\ UNCHANGED <<has, probing, clients, buffers, rigid>>
OpenBusy(p) ==
    /\ At(p, "openBusy") /\ busy > 0
    /\ busy' = busy - 1 /\ has' = has \cup {p}
    /\ Goto(p, "open")
    /\ UNCHANGED <<probing, clients, buffers, rigid>>

\* -ERESTARTSYS: the open has failed, release is not called and the path is
\* not freed.
OpenBusySignal(p) ==
    /\ At(p, "openBusy") /\ busy = 0 /\ "signal" \in env
    /\ Goto(p, "closed")
    /\ UNCHANGED <<sem, clients, buffers, rigid>>

\* The buffers are allocated one after the other, without a lock.
Alloc(p, i, from, to) ==
    /\ At(p, from)
    /\ buf' = [buf EXCEPT ![i] = given + 1] /\ given' = given + 1
    /\ Goto(p, to)
    /\ UNCHANGED <<sem, clients, held, mapped, rigid>>
AllocA(p) == Alloc(p, 0, "allocA", "allocB")
AllocB(p) == Alloc(p, 1, "allocB", "copy")

\* copyDmaBuf2IoMapping, twice.
CopyBuffers_BothA(p) ==
    /\ At(p, "copy")
    /\ held' = [held EXCEPT ![p] = [i \in AB |-> buf[0]]]
    /\ Goto(p, "openDown")
    /\ UNCHANGED <<sem, clients, buf, given, mapped, rigid>>
CopyBuffers(p) ==
    /\ At(p, "copy")
    /\ held' = [held EXCEPT ![p] = buf]
    /\ Goto(p, "openDown")
    /\ UNCHANGED <<sem, clients, buf, given, mapped, rigid>>

\* onOpen, whose result acq200_bridge_openAB ignores.
OpenDown(p) ==
    /\ At(p, "openDown") /\ cmutex > 0
    /\ cmutex' = cmutex - 1
    /\ Goto(p, "openCount")
    /\ UNCHANGED <<sem, count, threads, buffers, rigid>>

OpenDownSignal(p) ==
    /\ At(p, "openDown") /\ cmutex = 0 /\ "signal" \in env
    /\ Goto(p, "open")
    /\ UNCHANGED <<sem, clients, buffers, rigid>>

OpenCount(p) ==
    /\ At(p, "openCount")
    /\ count' = count + 1
    /\ cmutex' = IF count' = 1 THEN cmutex ELSE cmutex + 1
    /\ Goto(p, IF count' = 1 THEN "openStart" ELSE "open")
    /\ UNCHANGED <<sem, threads, buffers, rigid>>

\* acq200_onFirstClientOpenAB.
OpenStart(p) ==
    /\ At(p, "openStart")
    /\ threads' = threads + 1
    /\ cmutex' = cmutex + 1
    /\ Goto(p, "open")
    /\ UNCHANGED <<sem, count, buffers, rigid>>

-----------------------------------------------------------------------------
(***************************************************************************)
(* acq200_ioctlAB.                                                         *)
(***************************************************************************)
Ioctl(p) ==
    /\ At(p, "open") /\ IsAB(p)
    /\ Goto(p, "ioctl")
    /\ UNCHANGED <<sem, clients, buffers, rigid>>

IoctlDown(p) ==
    /\ At(p, "ioctl") /\ busy > 0
    /\ busy' = busy - 1 /\ has' = has \cup {p}
    /\ Goto(p, "action")
    /\ UNCHANGED <<probing, clients, buffers, rigid>>

IoctlSignal(p) ==
    /\ At(p, "ioctl") /\ busy = 0 /\ "signal" \in env
    /\ Goto(p, "open")
    /\ UNCHANGED <<sem, clients, buffers, rigid>>

\* COPY_FROM_USER returns -EFAULT.
IoctlFault(p) ==
    /\ At(p, "action") /\ "fault" \in env
    /\ Goto(p, "open")
    /\ UNCHANGED <<sem, clients, buffers, rigid>>

\* acq200_bufferABaction has returned.
IoctlDone(p) ==
    /\ At(p, "action")
    /\ busy' = busy + 1 /\ has' = has \ {p}
    /\ Goto(p, "open")
    /\ UNCHANGED <<probing, clients, buffers, rigid>>

-----------------------------------------------------------------------------
(***************************************************************************)
(* The mmap operations of the devices that have one: acq200_mmapAB takes   *)
(* the buffer by the lowest bit of the minor.  A request for more than the *)
(* buffer has is refused.                                                  *)
(***************************************************************************)
Target(p) ==
    CASE Fops(minor[p]) = "AB" -> <<"AB", buf[minor[p] % 2]>>
      [] Fops(minor[p]) = "mbox" -> <<"registers", 0>>
      [] Fops(minor[p]) = "llhost" -> <<"llhost", 0>>
      [] Fops(minor[p]) \in {"host", "bigdump"} -> <<"host", 0>>
      [] OTHER -> Unmapped

Mmap(p) ==
    /\ At(p, "open") /\ Target(p) # Unmapped
    /\ mapped' = [mapped EXCEPT ![p] = Target(p)]
    /\ UNCHANGED <<pc, sem, clients, buf, given, held, rigid>>

-----------------------------------------------------------------------------
(***************************************************************************)
(* acq200_bridge_releaseAB, onRelease and acq200_release.                  *)
(***************************************************************************)
\* The last use of the file has gone, mappings included.
Close(p) ==
    /\ At(p, "open")
    /\ Goto(p, IF IsAB(p) THEN "relDown" ELSE "release")
    /\ mapped' = [mapped EXCEPT ![p] = Unmapped]
    /\ UNCHANGED <<sem, clients, buf, given, held, rigid>>

RelDown(p) ==
    /\ At(p, "relDown") /\ cmutex > 0
    /\ cmutex' = cmutex - 1
    /\ Goto(p, "relTest")
    /\ UNCHANGED <<sem, count, threads, buffers, rigid>>

\* "possible corrupt mutex on interruption": it goes on without it.
RelDownSignal(p) ==
    /\ At(p, "relDown") /\ cmutex = 0 /\ "signal" \in env
    /\ Goto(p, "relTest")
    /\ UNCHANGED <<sem, clients, buffers, rigid>>

RelTest_AnyClient(p) ==
    /\ At(p, "relTest")
    /\ Goto(p, IF threads > 0 THEN "relStop" ELSE "relDec")
    /\ UNCHANGED <<sem, clients, buffers, rigid>>
RelTest(p) ==
    /\ At(p, "relTest")
    /\ Goto(p, IF count = 1 THEN "relStop" ELSE "relDec")
    /\ UNCHANGED <<sem, clients, buffers, rigid>>

\* acq200_onLastClientReleaseAB: kthread_stop, which waits for the thread.  The
\* process that stops a thread twice does not come back.
RelStop(p) ==
    /\ At(p, "relStop") /\ threads > 0
    /\ threads' = threads - 1
    /\ Goto(p, "relDec")
    /\ UNCHANGED <<sem, cmutex, count, buffers, rigid>>

RelDec_KeepMutex(p) ==
    /\ At(p, "relDec")
    /\ count' = count - 1
    /\ Goto(p, "release")
    /\ UNCHANGED <<sem, cmutex, threads, buffers, rigid>>
RelDec(p) ==
    /\ At(p, "relDec")
    /\ count' = count - 1
    /\ cmutex' = cmutex + 1
    /\ Goto(p, "release")
    /\ UNCHANGED <<sem, threads, buffers, rigid>>

\* acq200_release, which frees the path.
Release_AlwaysUp(p) ==
    /\ At(p, "release")
    /\ busy' = busy + 1
    /\ has' = has \ {p} /\ held' = [held EXCEPT ![p] = NoBuffers]
    /\ Goto(p, "closed")
    /\ UNCHANGED <<probing, clients, buf, given, mapped, rigid>>
Release(p) ==
    /\ At(p, "release")
    /\ busy' = IF p \in has THEN busy + 1 ELSE busy
    /\ has' = has \ {p} /\ held' = [held EXCEPT ![p] = NoBuffers]
    /\ Goto(p, "closed")
    /\ UNCHANGED <<probing, clients, buf, given, mapped, rigid>>

-----------------------------------------------------------------------------
\* show_buffer_AB_busy_mutex: down_trylock, and up if it got the semaphore.
Probe ==
    /\ ~ probing /\ busy > 0
    /\ busy' = busy - 1 /\ probing' = TRUE
    /\ UNCHANGED <<pc, has, clients, buffers, rigid>>

ProbeUp ==
    /\ probing
    /\ busy' = busy + 1 /\ probing' = FALSE
    /\ UNCHANGED <<pc, has, clients, buffers, rigid>>

-----------------------------------------------------------------------------
Opening(p) == OpenBusy(p) \/ AllocA(p) \/ AllocB(p) \/ CopyBuffers(p) \/ OpenDown(p)
              \/ OpenCount(p) \/ OpenStart(p)
Working(p) == IoctlDown(p) \/ IoctlDone(p)
Closing(p) == RelDown(p) \/ RelTest(p) \/ RelStop(p) \/ RelDec(p) \/ Release(p)
Disturb(p) == OpenBusySignal(p) \/ OpenDownSignal(p) \/ IoctlSignal(p) \/ IoctlFault(p)
              \/ RelDownSignal(p)

Next ==
    \/ \E p \in Paths :
         Open(p) \/ Ioctl(p) \/ Mmap(p) \/ Close(p) \/ Opening(p) \/ Working(p) \/ Closing(p) \/ Disturb(p)
    \/ Probe \/ ProbeUp

Spec == Init /\ [][Next]_vars

\* System calls that can go on do; the semaphores serve those who wait in
\* turn.  Nothing makes a program close a device.
FairSpec ==
    /\ Spec /\ WF_vars(ProbeUp)
    /\ \A p \in Paths : /\ WF_vars(Opening(p) \/ Working(p) \/ Closing(p))
                        /\ SF_vars(OpenDown(p)) /\ SF_vars(RelDown(p))

-----------------------------------------------------------------------------
ABPaths == {p \in Paths : IsAB(p)}

\* The AB paths that onOpen has dealt with and onRelease has not.
Clients == {p \in ABPaths : pc[p] \in {"open", "ioctl", "action", "relDown"}}

\* The busy semaphore is with one path, or with the reader of the attribute,
\* or free: nobody gives back what it does not hold, and nobody waits for what
\* it holds itself (acq200.c:1028-1037, 1130-1136, 1150-1153).  The latter not
\* after a copy from the user that failed (1033).
BusyBalanced ==
    /\ busy + Cardinality(has) + (IF probing THEN 1 ELSE 0) = 1
    /\ "fault" \in env \/ \A p \in Paths : pc[p] \in {"ioctl", "openBusy"} => p \notin has

\* As long as a client has bufA or bufB open the backstop thread runs, which
\* is what gets frames back when interrupts are lost, and the last client that
\* goes leaves no thread behind (acq200.c:935-986).  Not when an open or a
\* release was interrupted at clients.mutex (958, 975).
BackstopWhileOpen ==
    "signal" \in env \/
    /\ Clients # {} => threads = 1
    /\ (\A p \in ABPaths :
           pc[p] \in {"closed", "allocA", "allocB", "copy", "openDown", "release"}) =>
          threads = 0 /\ count = 0 /\ cmutex = 1

\* What a client has mapped is the memory its requests name: the buffer A or B
\* that the card fills for this path (acq200_i2o.c:701, acq200_mmap.c:175-185),
\* and there is one.  Not when two paths allocated the buffers at once
\* (acq200.c:995-1002).
MappedIsFilled ==
    "together" \in env \/
    \A p \in ABPaths :
        /\ mapped[p] # Unmapped => mapped[p] = <<"AB", held[p][minor[p] % 2]>>
        /\ pc[p] \in {"open", "ioctl", "action"} =>
              \A i \in AB : held[p][i] # 0 /\ held[p][i] = buf[i]

\* One path at a time uses the card's messages: an AB path from the down to the
\* up of its ioctl, a bridge path or one of no special kind from open to release
\* (acq200.c:1028-1037, 1130-1136, 1150-1153), also after signals and failed
\* copies.  The requests of the bridge rely on it.
InUse(p) == At(p, "action") \/ (TakesBusy(p) /\ pc[p] \in {"open", "release"})
ExclusiveUse == \A p, q \in Paths : InUse(p) /\ InUse(q) => p = q

\* An open and a release of bufA or bufB come to their end, whatever the
\* others do (acq200.c:953-986), if they are not interrupted.
OpensAndClosesEnd ==
    \A p \in Paths : /\ At(p, "openDown") ~> At(p, "open") \/ "signal" \in env
                     /\ At(p, "relDown") ~> At(p, "closed") \/ "signal" \in env
=============================================================================
