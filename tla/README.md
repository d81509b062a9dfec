# Verification of the acq200 host driver

TLA+ models of the Linux driver for D-TACQ ACQ196/ACQ216 cards and of its
clients `htstream` and `acqcmd`.  Line numbers refer to the files in `src/`.

## 1. Inventory

The card and the host talk in two ways: through four *mailbox* registers
(commands and queries, polled), and through *I2O message frames* (requests of
the host, replies of the card with data that the card writes by DMA).

| Part | State | Operations | Interacts with |
|---|---|---|---|
| stream buffer (`streambuf.h`) | ring of words, `iput`, `iget`, `iputback` | put, get, put back | filled by interrupt handler and backstop thread, emptied by the tasklet |
| inbound messages (`acq200.c:833-929`, `acq200_i2o.c:279-445, 709-737`) | card's outbound queue, interrupt mask, bad read count, tasklet | interrupt, backstop poll, consume, bottom half | stream buffer; hands each message to the handlers below |
| bridge requests (`acq200_i2o.c:110-345, 449-620, 790-840`, `rch.h`, `acq200_bigbuf_alloc.c`) | pools of handlers and DMA mappings, list of handlers, last id | read, write, release, reply | inbound messages; processes |
| swinging buffers (`acq200_i2o.c:622-790`) and `htstream.c` | two requests, `ab_next`, the client's flags | the AB ioctl, the client's loop | the same handlers and ids |
| htstream's files (`htstream.c:140-215`) | open file, position, file number | open the next file, write a block | the client's loop |
| mailbox (`acq200.c:440-470, 600-830`) | registers, semaphore, deferred command | write, poll, read back, release | all processes, sysfs, acqcmd |
| clients, minors, mmap (`acq200.c:933-1161`, `acq200_minors.h`, `acq200_mmap.c:136-212`) | `buffer_AB_busy_mutex`, AB buffers, `clients.count`, backstop thread, paths | open, ioctl, mmap, release, attribute | decides when the backstop polls; buffers of the AB requests |
| device table, probe, remove (`acq200.c:316-348, 417-436, 482-542, 1164-1358`, `acq200_mmap.c:47-108`, `acqX00.hotplug`) | `devices[]`, majors, interrupt handlers, register regions, attributes, nodes | load, probe, remove, unload, lookups, hotplug | everything that begins with a device |
| interrupt masks and lock (`acq200_utils.c`, `acq200_if.c:338-369`) | iterator, nesting depth of lines, `imask_a`, `bkl` | ioctls, attribute `imask` | kernel |
| heartbeat (`acq200_core.c:51-99`) | the card's counter, `heartbeat_detected` | attribute | mailbox registers |
| acqcmd (`acqcmd.c`) | the text last read, what a round has found | poll, command, stdin, alarm | control daemon, or the bridge |
| other attributes, utilities, protocol constants | none of their own | display | |

What is hard here is not the amount of code but who runs when: interrupt
handler, tasklet, backstop thread and several processes share a ring, two pools,
a list and an id counter, mostly without a lock; calls can be interrupted by a
signal at each wait; replies can come late, with an error, or never.  A card
comes and goes under all of them, and the table that leads to it never forgets.  The list
`hazards` of `PROJECT.json` has each such place with its line and the
properties about it.

## 2. Modules

A definition named `X_Y` is `X` with the plausible mistake `Y`.  No
specification uses it; substituting it for `X` must break the property it is
listed with under `mutants` in `PROJECT.json`.

**StreamBuf** (`streambuf.h`).  `genericIntBufPut` takes no lock, so it is three
steps: the test, which loads the index, the store of the word and the store of the
new index.  `genericIntBufGet` tests for empty outside its lock: two steps.
`Overlap` says whether two producers may be inside a put at once.
**BoundedFifo** is what the ring promises: a queue of bounded length whose last
word can be put back.

**I2oInbound** composes the ring (`INSTANCE StreamBuf`) with interrupt handler,
backstop thread and tasklet.  A frame is with the card, on the outbound queue,
in a producer's hand, in the ring or with the tasklet.  An interrupt need not
come: `IsrEnter` has no fairness.  `Glitches` allows the handler
to see the status bit with an empty queue, which leads to the bad read trap
(`acq200.c:856-867`) and to the masked queue.

In the modules below a CONSTANT `Environments` is a set of sets of *happenings*:
what programs, signals, the card and other processors may do in a behaviour
(time out, answer with an error, write zero bytes, ...).  `Init` picks one of
them for the variable `env`, which never changes.  So one run looks at calm
and at rough behaviours, and a property that the code keeps only in calm ones
says so: `Troubles({...}) \/ ...`, with a comment that names the line at which
the happening breaks it.  Section 4 lists those places.

**RchBridge** has one process per path.  Each wait and each call that can be
preempted begins a step; critical sections under `rch.lock` are one step.  The
card holds requests, and answers those of one path in their order.  Pairs of
accesses that only scheduling keeps together (scan and claim of a pool entry;
the id when a handler is built and when its message is sent) are separate steps
that exclude other processes unless `"smp"` is in `env`.  `i2o_recycleRch` is two
steps: the test of `self->path`, which is outside the lock, and what follows
(`inRecycle`); the frees are one step with `list_del`, from which on nobody sees
the handler.  On one processor the tasklet interrupts a process between any two of its
steps and handles a reply whole; with `"smp"` it runs beside the processes, and
taking a reply, each step of the walk, the test of `rch->handler`, its call, the
wake-up and the two halves of the recycle are steps of its own (`bh`).  A process or the
tasklet that follows a null pointer or one to what is gone stops there
(`"oops"`): so does a process that recycles a handler which was never built,
whose `device` is null.  Paths in `Exclusive`
hold `buffer_AB_busy_mutex` from open to release, so at most one of them is in
a call; with `"ab"` the paths of `ABPaths` use the same pools and ids beside it.

**BufferAB** is the AB ioctl of one path with the loop of `htstream`.  The card
fills buffers in the order of the requests, with consecutive blocks.  With
`"slow"` the card may fill both buffers while the client works, with
`"timeout"` an ioctl may time out once data flows, with `"error"` it may fail
otherwise, which htstream does not count.

**HtFiles** is `fileOpen` and `fileWork` as a library of actions: which block
lands in which file.  **HtStream** composes it with BufferAB: where the loop of
htstream calls `doWork`, the block goes to the files (or `fileOpen` ends the
program, with `ACQ200_ONESHOT`).

**Mailbox**: `using_interrupt` is only ever assigned zero, so the wait is
`acq200_poll_response`.  Parameters and the command word are written in separate
steps, in the order of the code.  A register holds the number of the call that
wrote it, `deferred` the number of the call whose command a path has deferred;
`told` are all the calls whose program was told so.  With `"again"` a program defers
a second command on the same path, which overwrites the first.

**Clients**: all that open, ioctl, mmap and release of one card share: the two
counting semaphores, the AB buffers, the client count and the backstop
thread.  `Fops` is the chain of tests on the minor in
`acq200_open`; it decides which semaphore a path takes and what it can map.  The
AB buffers are allocated on the first open in two steps, without a lock
(`"together"` lets two paths do so at once); a path copies them, but
`acq200_mmapAB` looks at the device again.  `"signal"` interrupts waits, `"fault"`
makes the copy from the user fail.

**DeviceTable**: one action per step of `acq200_init_module`, `acq200_probe`,
`acq200_remove` and `acq200_exit_module` after which others can see something
new.  `mem` is the memory of devices, so that freed memory may be given out
again; `devices` is the table of addresses, which only an unload empties.  The
others, who reach a card by a node, an attribute, a path or an interrupt, look a
device up as the code does: from the front, reading each entry on the way.  An
entry that was freed still holds its last card, class and major, unless its memory
was given out again, and may match before the device that is there (`Stale`);
`register_chrdev` gives a major that is free, so a card probed after another has gone gets
the other's (`"again"`).  The hotplug script may lag behind: a card may be probed while
the script still has nodes to remove, also those of the last load of the module (`"late"`).  A
step that reads freed memory, runs into an assertion or uses what is not set
up yet is noted in `bad`, and the behaviour ends.  The driver core probes and
removes one card at a time.

**IrqMask**: the mask iterator with its signed shift, the `imask` attribute
over lines whose disabling nests, where a write copies the mask, loads it and
the active one, and applies the difference, in steps that two writers can
interleave (`"contend"`), and the lock `bkl` that writes of `LOC` and `000`
take and give back.  **Heartbeat**: the two or three readings of a counter that
comes round.  **CardDriver** puts the last three together: the attributes of a
card that is there, and the table that decides when it is.  They share no
state, so a behaviour is about one of them (`group`).

**Acqcmd**: connection, the loop of `do_poll` line by line, `process_command` and
`process_stdin`, over the socket of the control daemon (non-blocking in a poll) or a
device node (opened again for each round).  A line of stdin that is continued is
written to the device's stream and goes out with the next one, or at the end of the
input (`part`).  A read of the device may fail within an answer (`"readfail"`).
Lines on their way know whether they answer the last command.  `reply` is kept when `fgets` fails, as in the code.

The `MC*` modules name the environments of the runs.

## 3. Runs

| Run | Expected | Shows |
|---|---|---|
| `streambuf` | holds | with one producer at a time the ring refines the FIFO; a put-back never meets a put; a put is refused only when full; the invariant of the proofs |
| `i2o_inbound` | holds | no frame is lost or doubled; none waits in the ring without the tasklet being due; the composition uses the ring as StreamBuf specifies |
| `i2o_inbound_live` | holds | each posted frame comes back, with interrupts lost or masked, thanks to the backstop |
| `i2o_inbound_overlap` | violation of `MfaConserved` | an interrupt inside the backstop's `streamPut`, which takes no lock, loses a frame |
| `rch_bridge` | holds | undisturbed, with signals and error replies, with allocation timeouts, missing frames, empty writes, pools that have lost entries, AB use and the tasklet on a second processor: a mapping the card may write to is reserved and has one owner; a handler serves one request; the list holds reserved handlers of open paths, each once; a reply finds the handler of its request; nothing leaks; every call returns or has oopsed |
| `rch_error_reply` | violation of `NoDoubleDelete` | after an error reply the handler is deleted from the list twice |
| `htstream` | holds | every block once (in order, when the client keeps up), no buffer refilled while it is read, the files hold the newest blocks without a gap (all of them with one shot), the end is reached |
| `buffer_ab_order` | violation of `FilledInTurn` | both buffers full with B next: the next two blocks change places |
| `mailbox` | holds | with answers in time everybody gets its own answer, the card sees a command only with its own parameters and deferred commands reach it, of several of one path the last; with a dead card calls return |
| `clients` | holds | for every kind of minor: the busy semaphore is balanced and nobody waits for itself; the backstop runs exactly while there are AB clients; what a client has mapped is the buffer its requests name; one path at a time uses the card's messages, also after signals and failed copies; opens and releases end |
| `card_driver` | holds | freed devices are not used, lookups and nodes lead to the right card although freed entries are compared too, an unload leaves nothing, nothing is used before it is set up; a walk passes its mask to the kernel, the lines off are those of the last mask, a lock that is held can be given back; the heartbeat is the card's rate |
| `acqcmd` | holds | a poll's exit code tells a state the card was in since the last question; no answer is taken for another's; the program ends when its condition is met, or with the alarm |

Each violation run shows a place where the code does not do what a comment or an
interface of the repository says; `findings` in `PROJECT.json` quotes the line.

`Overlap = FALSE` in `streambuf` and `i2o_inbound` is an assumption about
scheduling, not a fact of the code: it is what the code needs, and
`i2o_inbound_overlap` shows what happens without it.

### Bounds

A ring of 4 slots holds 2 words beside the reserved ones: full, empty and wrapped
are all reached with 3 frames.  Two paths with 3 handlers and 3 mappings (one of
them `MSG_MAPPING`) make the mappings run out; with `"leaked"` one handler and one
mapping are missing from the start and the handlers run out too.
Ids come round after 4 requests in place of 128, more than the 3 frames that can
be outstanding, as in the code.  With `"late"` they may come round at any time
and no reply goes astray; without it, where requests of different paths overtake
each other, a request is assumed to be answered before its id is used
again.  The environments with `"smp"` are three: reads and writes alone, with reads
that signals end, and with releases on pools that have lost an entry.  7 blocks take
the 4 ids round almost twice, and `MaxWaiting`, 6 requests at the card, lets retries take them
round while the card waits.  Two
processes make one wait for the mailbox while the other holds it; 3 calls let
one be late and another be deferred.  Two AB paths and a third of each other kind
make both the first and the last client race with another; 8 minors stand for the
branches of `Fops`.  Two cards, two loads and a table of 3
entries let a card come back while its old entry is there, the table run full, and
memory be given out again; one open path is enough for a card to go from under
it.  Masks have 4 bits in
place of 32: the iterator treats inner bits alike and the top one specially.  The
heartbeat counter has 3 bits in place of 12: all first values and all rates occur.
acqcmd looks at a card that goes through three states, one of which is the until and
one the while state, with up to two answers on their way.
`NFILES` 2, `MAXFILE` 5 and blocks of 1, 2 and 6 make a block fit, just not fit, and never
fit, and take the numbers of the files round more than once.  `MaxSkew`, `MaxCalls`,
`MaxBlocks`, `MaxWaiting`, `MaxDepth`, `MaxLines` only bound counters.

Deadlock checking is off in five runs, whose behaviours may end: `htstream` and
`buffer_ab_order` (htstream ends after the last block), `acqcmd` (the program
ends), `card_driver` (a behaviour ends at a wrong use, after the last load, or
with a second `LOC` that spins on the lock of the first), and `rch_bridge` (a process
that has oopsed with `buffer_AB_busy_mutex` down stops the others; `CallsReturn` is
about every other way to stop).

### Fairness

Weak fairness on the steps of a process, handler, thread or tasklet that is
inside a call (the kernel schedules runnable tasks), on the card's answers in
`rch_bridge` and `htstream`, which are about a card that works, and on the
backstop's poll (it sleeps with a timeout).  None on the arrival of interrupts
(`IsrEnter`), on the card in `mailbox`, on the calls users make, on signals or
faults.  Where several processes wait for a semaphore, strong fairness on
getting it: the kernel's semaphores serve waiters in order.  In `clients` that is
`clients.mutex`; nothing makes a program give the busy semaphore back.  In `acqcmd`
the program, the daemon once it was asked, and the alarm are fair; the card is not.  `IoctlDone` in
`htstream` is strongly fair: without `"timeout"` an ioctl times out only before
the first block, and the client asks again until the block is there.

## 4. Where the code breaks a property

The conditions in the properties are not decoration.  Each of these is reached
by TLC when the condition is taken out of the property and the happening is in
`env`:

| Line | Happening | What happens | Property |
|---|---|---|---|
| `acq200_i2o.c:564` | `"zero_write"` | a write of zero bytes returns with handler and mapping reserved and not on the list; release does not find them | `NoLeak` |
| `acq200_i2o.c:477, 557` | `"alloc_timeout"` | with a handler and no mapping, the mapping of the handler's last use is freed, perhaps under another request | `DmaSafe` |
| `acq200_i2o.c:477, 557`, `acq200_bigbuf_alloc.c:127, 257` | `"alloc_timeout"` | a handler that was never built has no device: `acq200_pool_free_rch` follows a null pointer, and the process never gives the handler back | `CallsReturn`, and `NoLeak` in meaning: `Oopsed` |
| `acq200_i2o.c:238, 452-454, 831-832` | `"smp"` with `"close"` | `i2o_handleLastMessage` sets `valid` and wakes before it recycles; the release recycles too, both find `path` set, and `list_del` is done twice, with no error reply; or the handler is given back after the next call has got it | `ListSound`, `ActivePath`, `CallsReturn`; `NoLeak` with two handlers |
| `acq200_i2o.c:453` | `"smp"` with `"close"` | the release has recycled the handler when the tasklet wakes `self->path`, which is null | `CallsReturn`, by `Oopsed` |
| `acq200_i2o.c:315` | `"smp"` with `"close"` | the tasklet goes on from a handler that was deleted from the list meanwhile | `CallsReturn`, by `Oopsed` |
| `acq200_i2o.c:321-326`, `rch.h:52` | `"smp"` with `"read_signal"` | `rch->handler` is tested, cleared by the read that a signal ended, and called | `CallsReturn`, by `Oopsed` |
| `acq200_i2o.c:326`, `rch.h:52` | `"smp"` with `"read_signal"` | an answer is stored for a read that has gone; its handler stays listed until the release, and takes the reply of another request when its id comes round | `ReplyFindsRequest`, `CallsReturn` |
| `acq200_i2o.c:238` | `"close_signal"` | the cleanup of an interrupted release has tested `path` when the tasklet recycles the same handler: `list_del` twice, on one processor | `ListSound` |
| `acq200_i2o.c:454, 832` | `"close"` with `"ab"` | the handler of a close is recycled by the tasklet and again by release; another path may have it by then | `ActivePath`, for closes |
| `acq200_i2o.c:505, 824` | `"no_frame"` | the result of `acq200_sendI2O_kbuf` is ignored and an answer waited for that will not come | `CallsReturn` |
| `acq200_i2o.c:505` | `"no_frame"`, or fewer frames than handlers | a write whose message was not sent stays on the list with the id of the next message, whose reply it takes | `ReplyFindsRequest` |
| `acq200_i2o.c:154, 180` | `"smp"` with `"ab"` | two handlers are built with one id | `ReplyFindsRequest` |
| `acq200_bigbuf_alloc.c:187-199` | `"smp"` with `"ab"` | two processes find the same free entry and both reserve it | `ActivePath` |
| `acq200_i2o.c:154` | `"late"` with `"ab"` | an id comes round to a handler while the request of the other path that has it is at the card | `ReplyFindsRequest` |
| `acq200_i2o.c:824` | `"late"` with `"close_signal"` | the late answer to a request of an interrupted release finds the handler of a new request with the same id, and gives it back | `ActivePath` |
| `acq200_i2o.c:824` | `"close_signal"` | an interrupted release frees mappings of requests that are still at the card | `DmaSafe` |
| `htstream.c:242` | `"timeout"` | the retry repeats the recycle flags: requests under way are dropped with their blocks | `EachBlockOnce` |
| `htstream.c:246-251` | `"error"` | other errors than timeouts are not counted: the retries take the ids round while the card holds earlier requests, and need not end | `StableWhileRead`, `EachBlockOnce`, `ReachesEnd` |
| `htstream.c:310` | `"timeout"`, `IdMod < 2 * MaxTO` | so do timeouts, if `ACQ200_MAXTO` is set above 64 | `StableWhileRead` |
| `acq200.c:453` | `"timeout"` | a late acknowledgement is taken for the next command's | `AnswerIsMine` |
| `acq200.c:681, 447` | `"forever"` | a timeout of 0, `MBC_FLAGS_TO_FOREVER`, ends at the next tick | `AnswerIsMine` |
| `acq200.c:1156` | `"signal"` | an interrupted release drops the deferred command | `DeferredIsSent` |
| `acq200.c:713` | `"again"` | a second deferred command overwrites the first, of which the program was told that it is deferred | `DeferredIsSent`, `told` |
| `acq200.c:958, 975, 1006` | `"signal"` | an interrupted open of an AB path succeeds without being counted, its release is counted | `BackstopWhileOpen` |
| `acq200.c:1033` | `"fault"` | a failed copy returns with the busy semaphore down; the path then waits for itself | `BusyBalanced` |
| `acq200_utils.c:138` | `"repeat"` | a line in two masks in a row is disabled twice and enabled once | `MaskedExactly` |
| `acq200_utils.c:124, 147` | `"contend"` | two writes go from the same `imask_a`: a line is disabled that no mask has, or enabled that one has | `MaskedExactly` |
| `acq200_utils.c:161-162` | `"contend"` | `is_locked` is cleared after the lock was given back and taken again by another `LOC` | `LockKnown` |
| `acq200_core.c:70-85` | `"fast"`, `"reset"` | a counter that goes round by more than half its range, or starts again, is taken for another rate | `HeartbeatIsRate` |
| `acq200.c:995-1002` | `"together"` | two first opens of AB paths allocate the buffers twice; the first path maps the later ones and names the earlier ones to the card | `MappedIsFilled` |
| `acq200.c:322-348, 417-436` | `"hotplug"`, two entries | once a device was freed each lookup of a later entry reads it | `NoStaleUse` without the clause on `idx` |
| `acq200.c:326-331, 340-345, 427` | `"again"` | a freed entry, earlier in the table, still holds the card or the major that a card probed since has: the lookup returns the freed device | `NoStaleUse`, `FindsOwn` |
| `acq200.c:1271-1278`, `acqX00.hotplug` | `"late"` | a card is probed again before the script has removed its old nodes, which may name another card's major by then | `FindsOwn` |
| `acq200.c:1288` | `"interrupts"` | `using_interrupt` is zero, the handler is never freed | `NoStaleUse`, `CleanUnload` |
| `acq200.c:1301` | `"held"` | nothing keeps a device while a path is open: the tables of file operations have no owner | `NoStaleUse`, `FindsOwn` |
| `acq200.c:1299` | `"eager"` | an open between the removal of the attributes and the end of the remove gets a device that is then freed | `NoStaleUse`, `FindsOwn` |
| `acq200.c:1183` | `"eager"` | an open between `register_chrdev` and the assignment of the major finds no device: `assert(0)` | `ReadyWhenUsed` |
| `acq200.c:1253` | `"eager"` | `imask` can be written before `bkl.lock` is initialised | `ReadyWhenUsed` |
| `acq200.c:1176-1236` | `"fail"` | a probe that fails leaves table entry, major, interrupt, region and attributes | `CleanUnload` |
| `acq200_mmap.c:64-72`, `acq200.c:502` | `"fail"`, then a new probe | the region is still taken, the result of `acq200_map_pci_memory` is ignored and a null pointer used for the registers | `ReadyWhenUsed` |
| `acq200.c:1355` | `"nocard"` | an unload before any card has come leaves the driver registered | `CleanUnload` |
| `acqX00.hotplug:10-16` | `"oldnodes"` | when a card goes the script cannot read its slot any more, and the nodes called by the slot stay, with the old major | `FindsOwn` |
| `acqcmd.c:398-422` | `"late"`, `"readfail"`, `"hangup"` | after an `fgets` that failed the text of an earlier line, or of the stack, is looked at | `ResultIsSeen` |
| `acqcmd.c:492-506` | `"readfail"` | a read of the device that fails within an answer ends it: the next command of stdin goes out with the rest unread | `InStep`, for stdin |
| `acqcmd.c:422` | `"late"` | the old `EOF` ends the round, and the answer is read in the next one | `InStep` |

Two comments do not say what the code does.  "disable interrupts defined by clear bits
in irqs" stands at `acq200_intsDisable` (`acq200_utils.c:85`) and at `acq200_intsMask`
(`acq200_utils.c:114`).  The first walks the *set* bits of its argument
(`acq200_utils.c:89-90`), just as `acq200_intsEnable`, whose comment says set bits
(`acq200_utils.c:95`); the second disables a line whose bit in the new mask is set
(`acq200_utils.c:137-138`).  `WalkIsMask` and `MaskedExactly` are about the code, and
what the driver needs: a line in the mask is off.  Read as the comments have it both fail
at once, as soon as a mask has a set bit.

`WalkIsMask` states what the walk does with the sign bit alone in the mask, an
extra `-1` (`acq200_utils.c:44`).  With `"hotplug"` the table runs full after
`MAXDEV` probes, whatever was removed (`acq200.c:489`).  Four more were met by reading and need no model:
the result of a mailbox action is overwritten by that of `copy_to_user`
(`acq200.c:717-719`), an open that is interrupted at the busy semaphore does not free
its path (`acq200.c:1131`), `BP_MB_A3 | BP_MB_A4` are used where the `BP_CI_` bits are
meant (`acq200.c:786`), and one file more than `ACQ200_NFILES` is used
(`htstream.c:176`; `Numbers` in HtFiles is `0 .. NFILES`).

## 5. Proofs

TLAPS checks the theorems of the `*Proofs` modules.  They hold for every value
of the constants that the named assumptions admit: every number of processes,
paths, cards, frames, blocks and calls, every size of ring, mask and counter, and
every set of environments (RchBridge: every set of regular ones, see below).  Each ends in an induction: an invariant holds at the
start, every action of the module keeps it (one lemma or step per action), and
the property follows.  Where a property has a condition on the environment,
so has the part of the invariant that it needs, and apart from RchBridge nothing is
assumed of the environment elsewhere.

| Module | Theorems | Property of a run |
|---|---|---|
| StreamBufProofs | `TypeCorrect`, `RingSafe`, `PutBackSafe`, `UnlockedTestSafe`, `RefusalSafe`, `ImplementsFifo` | `RingInv`, `PutBackSlotKept`, `TakesQueuedWord`, `RefusedOnlyWhenFull`, `FifoSpec` |
| I2oInboundProofs | `UseSafe`, `UsesRing`, `FramesConserved`, `WakeupKept` | `RingUse`, `MfaConserved`, `NoLostWakeup` |
| RchBridgeProofs | `RchTypes`, `MappingsSafeFromDma`, `HandlerHasActivePath`, `ListStaysSound`, `RepliesFindTheirRequest`, `NothingLeaks` | `DmaSafe`, `ActivePath`, `ListSound`, `ReplyFindsRequest`, `NoLeak` |
| BufferABProofs | `StableSafe`, `OnceSafe`, `TurnSafe` | `StableWhileRead`, `EachBlockOnce`, `InTurnForQuickClient` |
| MailboxProofs | `MailTyped`, `MailExclusive`, `AnswerBelongs`, `ArgsBelong`, `DeferredSent` | `AnswerIsMine`, `ArgsTogether`, `DeferredIsSent` |
| ClientsProofs | `ClientsTyped`, `BusySafe`, `UseExcludes`, `BackstopSafe`, `MappingSafe` | `BusyBalanced`, `ExclusiveUse`, `BackstopWhileOpen`, `MappedIsFilled` |
| CardDriverProofs | `HeartbeatSafe`, `WalkSafe`, `MaskSafe`, `LockSafe`, `StaleSafe`, `FindSafe`, `CleanSafe`, `ReadySafe`, `DriverComposes`, `DriverSafe` | `HeartbeatIsRate`, `WalkIsMask`, `MaskedExactly`, `LockKnown`, `NoStaleUse`, `FindsOwn`, `CleanUnload`, `ReadyWhenUsed` |
| AcqcmdProofs | `AnswersInStep`, `ResultSeen` | `InStep`, `ResultIsSeen` |

**StreamBuf** (`NAssumption`: the ring has a power of two of slots, at least 2).
`PutBackSlotKept` is not inductive: the test for full and the store of the index
are different steps, and the consumer moves `iget` and `iputback` between them.
`RingInv` adds what a producer knows after its test (`Claim`: its index is still
`iput`, the ring is still not full, after the store the slot has its word) and
that one producer at a time is inside.  The consumer can only make room, so the
test stays true; for the same reason the test for empty outside the lock stays
true, because producers only add.  The refinement maps the queue to the
words from `iget` to `iput` and the held word to those from `iputback` to
`iget`; the put takes effect at the store of the index.  Distances round the
ring are handled by cases on wrap-around instead of modulo arithmetic.  `TypeCorrect`
holds even when puts overlap; the others need `~ Overlap`.

**I2oInbound** (`RingAssumption` repeats what StreamBuf asks of N).  `UseInv`
says who is where in the calls of the ring, from which `UsesRing` follows: every
behaviour of the handlers is one of the ring's specification, whether or not
puts overlap.  So `RingInv` may be used, as an instance of StreamBufProofs, and
the put appends to, and the get takes from, the contents of the ring.
`MfaConserved` counts the copies of a frame as a sum over the places it can
be at; each action moves one frame from one place to the next, and `MfaInv`
adds that the ring holds frames only.  `NoLostWakeup` follows a producer from
the put to the scheduling of the tasklet, and the tasklet to its last look at
the ring.

**RchBridge** (`SizesAssumption`, `PathsAssumption`, `MapAssumption`).  None of
the five properties is inductive, because handlers change hands: a process builds
one and appends it, the tasklet recycles it or stores a result in it, a reader that a
signal ended leaves it behind, the cleanup of a release collects what is left.
`IInv` has one part per relation:

* `Places` and `Holds`: what the place of a process says about its call, and about
  the handler and the mapping it holds.  Up to `build` the handler is reserved, has
  no path and is nobody else's; from then on it is listed with the call's handler
  function, path and buffer, until the tasklet has answered a release (`Answered`:
  the handler is free again while the release still waits) or an error was read;
* `Turns`: who has the processor between two accesses, and who has
  `buffer_AB_busy_mutex`.  Without AB use only one path is open, so most steps have
  no rival but the tasklet;
* `Handlers`: the list is exactly the handlers with a path, all reserved and of
  open paths; a stored answer is that of a read whose reader is still there;
* `Mappings`: a handler's mapping is reserved and no other handler's (not after a
  failed allocation, as `DmaSafe` says);
* `Requests`: a request at the card still has the handler it was built with; ids at
  the card differ, are consecutive when they may come round, and are used up in order,
  so that the answer to a release is the last of its path;
* `Sent`: when every message finds a frame, no handler that is still on the list has
  the id of somebody else's request.

`Recycled` adds what a process knows between the test of `self->path` and what
follows, while the tasklet may interrupt it: which handler it recycles and from
where, that a reader's handler is still on the list (the tasklet recycles only
what has no reader), and that a handler the cleanup has tested is either still there or
was given back by the tasklet after a release that a signal ended.

There is one lemma per action.  The steps that recycle (those of the processes, most
replies) share `FreeKeeps`, which says what giving one
handler back needs from the other processes.  That there are fewer requests than
handlers while one is being built is a pigeonhole argument (`HandlerLeft`); it
bounds the ids and, with a frame for each handler, the frames.  `NoLeak` follows from
`AllOwned`, which is inductive relative to `IInv`: it also follows entries whose mapping
is shared after a failed allocation, and a process that has oopsed still holds its
handler.

The theorems assume `RegularEnvironments`: there is one processor (no `"smp"`), in an
environment with `"ab"` there is no `"close"` or `"late"`, and in one with `"late"` no `"close_signal"`
and at most as many handlers as ids (the code has 16 and 128).  So they cover all
environments of the run but those with `"smp"`, and any other regular combination of
happenings, for any number of paths, handlers and mappings.  `RepliesFindTheirRequest` also assumes a
frame for every handler, and no `"no_frame"` where releases are not interrupted.  Each of
these is needed: for each TLC finds one of the properties violated without it
(section 4).  With `"smp"` the properties hold in the run where they do not name
the race; that is model-checked only.

**BufferAB** (`BoundsAssumption`).  The properties compare buffers with
blocks, and the driver only knows ids that come round.  `AbInv` numbers the requests in
the order in which they were sent: there are a number `s` of requests
served and a last request `g[b]` for each buffer such that ids, memory, handlers
and queue are what these say.  A reply is for the handler
that has its id only while no two live requests are `IdMod` apart; a client that
accepts `MaxTO` timeouts in a row sends up to twice as many requests before it
gives up, so `StableSafe` says nothing when `IdsComeRound`: with errors, which htstream
does not count, or with timeouts and `IdMod < 2 * MaxTO`.  The bound is tight: with 5 ids and 3
timeouts TLC finds the buffers refilled.  The code has 128 ids and 60
timeouts (`htstream.c:82`), within the bound; the variable `ACQ200_MAXTO` can raise them
past 64 (`htstream.c:310`), outside it.

**Mailbox**.  `MailInv` follows a command through the registers: who holds the
semaphore, that a process which has not yet written its command finds the last one
acknowledged, and that from then on command and parameters are its own.  For
`DeferredSent` it follows the number of the deferred command from the ioctl, over
deferrals that overwrite it, to the release that sends it; without `"again"` what a
program was told is that one call.
That part holds when no caller gives up before the card has answered
(`Patient`); the types, mutual exclusion and the count of calls always do.

**Clients**.  `ClientsInv` accounts for the semaphores by cardinalities: a busy
semaphore is free, with one path, or with the reader of the attribute, and who
uses the card's messages is among those that have it, after faults and
signals too (`UseExcludes`); the
client count is the number of paths that have been counted.  `BackstopWhileOpen`
needs also where the thread is while somebody is between `down` and `up`
of `clients.mutex`; `MappedIsFilled` that all paths hold the buffers of the device,
once these are allocated.

**CardDriver**.  Heartbeat (`HbWidthAssumption`: a counter of at least one
bit): after a wrap the second reading is in the lower half, so the third cannot
wrap.  The walk over a mask: the bits from the cursor up are those that were
passed, and the highest bit below is what `getNext` finds.  The lock: at each place of a
writer it is known whether the lock is held and what `is_locked` says.

The mask: between the steps of a write the writer's copies are the
mask and the active mask, when no other writer is there.

The table of cards has the largest invariant, `TableInv`, because its
properties are about what *others* find.  A bound card has exactly one device that is
there, in the table, with class, major and registers (`BoundInv`); no two
devices have one major, and a major that is registered has a device, except
while a probe is between the two (`MemInv`); as long as no probe follows a failed one,
every device that is there is in the table with its registers mapped
(`CalmInv`); without failures everything belongs to a card that is bound or under
way (`CleanInv`); nodes and paths lead to their own card (`NodesInv`, `PathsInv`).  These make `DtInv`.
`StaleInv` is about the memory of devices that have gone: unless a card is probed when
another has gone (`"again"`), no freed entry of the table has the card or the major of a device that
is there.  `LagInv`: as long as every card of the table is there, the hotplug script
has no nodes to remove.
A lookup searches from the front: so it finds the only device with its key, and in a
table of one entry it cannot read freed memory and miss a device that is there.
That is the clause on `idx` in `NoStaleUse`.

`DriverComposes` shows that a behaviour of CardDriver is one of each of its
parts, so `DriverSafe` takes the eight properties over to it.

**Acqcmd** (`TextAssumption`: the name of a state is no other text).  `CmdInv`
says what is on the wire at each place: at most one answer while a
command is under way, and nothing when the next one is sent (unless a read of the
device has failed, `OutOfStep`); and that what a poll
has found comes from one state that the card was in since the question.

Only model-checked:

* liveness (`PostedIsReturned`, `CallsReturn`, `CallReturns`, `OpensAndClosesEnd`,
  `ReachesEnd`, `EndsInTime`): fairness and `ENABLED` are out of the prover's reach;
* `NewestKept` of HtStream: the reference for the contents of the files is a recursive
  definition, about which the prover cannot do induction.

## 6. Not modelled

* Attributes that only show a field, debug output, timing statistics: no state of
  their own.  Their lookups of the device are `Show` in DeviceTable.
* `acq32busprot.h`, `acq32ioctl.h`, `local.h`, `acq200_debug.h`: definitions.  They
  are a quarter of the lines of the repository.
* `hw.c`, `int-disable-test.c`: stand-alone tests of a few register accesses;
  `acq200_hostdrv.mod.c`: generated.
* The spinning of `rch.lock` (`rch.h:12`): critical sections are one step, so a
  softirq that spins on a lock of its own processor is not seen.
* `kbuf->len == 0` in a read (`acq200_i2o.c:486-489`): a mapping of the pool never
  has length zero (`acq200_bigbuf_alloc.c:99`), an AB buffer only when the module parameter
  `user_max_buf` is set to zero.  The walk of the list in
  `_cleanup_on_bridge_release` is one step for each handler found.
* The length of time: sleeps and timeouts end when the model lets them.
* `LAPIC` in `store_imask`, which calls a stub; `acqcmd-hold`; short writes and the
  pattern search of htstream; sizes of buffers and of mmap requests.
* How the buffers of a device are freed: `acq200_device_free` passes virtual
  addresses to `__free_pages` (`acq200.c:529, 537`), which takes pages.
* `StatBuf` and `AppBuf` are declared in `streambuf.h` and never used.

## 7. Plan

Done: all modules of section 2, and the proofs of section 5, in the order
StreamBuf, I2oInbound, Mailbox, Clients, CardDriver (heartbeat and masks), Acqcmd,
BufferAB, CardDriver (table), RchBridge.  Every invariant of a passing run is proved,
but for `NewestKept`.

Worth adding: an abstract specification of the bridge (each read returns a reply
to its own request, once), implemented by RchBridge without faults; one of the
swinging buffers, a stream of blocks.
