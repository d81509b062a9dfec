----------------------------- MODULE DeviceTable -----------------------------
(***************************************************************************)
(* The life of a card in the driver (acq200.c): load and unload of the     *)
(* module, probe and remove, the table devices[] with its three lookups,   *)
(* and what the rest of the system sees of a card meanwhile: the character *)
(* device and its nodes, the attributes, the interrupt handler, the        *)
(* register mapping (acq200_mmap.c) and open paths.                        *)
(*                                                                         *)
(* The table never forgets an entry, and a lookup compares what the memory *)
(* of an entry still holds.  A use of freed memory or of something not yet *)
(* set up is noted in bad, and the behaviour ends there.                   *)
(* The driver core probes and removes one card at a time.                  *)
(***************************************************************************)
EXTENDS Naturals, Sequences, FiniteSets, FiniteSetsExt

CONSTANTS Cards, NoCard,
          MAXDEV,     \* entries of the table
          MaxLoads,   \* bound on loads of the module
          MaxPaths,   \* bound on open paths
          DtEnvironments  \* what may happen in the behaviours that are looked at

DtHappenings ==
    {"interrupts",  \* acq200_use_interrupts is set and the cards have a line
     "fail",        \* a step of a probe fails
     "hotplug",     \* cards come and go while the module is loaded
     "again",       \* a card is probed when another has gone
     "late",        \* the module is loaded again before the hotplug script
                    \* has removed the nodes of its last life
     "held",        \* a card goes while a path is open on it
     "eager",       \* nodes and attributes are used during a probe or a remove
     "oldnodes",    \* cards are known by slot: when one goes its nodes stay
     "nocard"}      \* the module is unloaded before any card has come

ASSUME DtBoundAssumption ==
    MAXDEV \in Nat \ {0} /\ MaxLoads \in Nat /\ MaxPaths \in Nat /\ NoCard \notin Cards
ASSUME DtEnvironmentAssumption == DtEnvironments \subseteq SUBSET DtHappenings

Addrs == 1 .. MAXDEV * MaxLoads
Majors == 1 .. MAXDEV * MaxLoads

VARIABLES loaded,   \* the code of the module is there
          driver,   \* acq200_driver and the class are registered
          unloading,\* pci_unregister_driver is under way
          loads,    \* loads of the module so far
          devices,  \* the table; idx is its length
          mem,      \* address -> struct Acq200Device
          bind,     \* card -> what the driver core thinks of it
          bound,    \* card -> the device of its probe that succeeded, or 0
          task,     \* the probe or remove under way
          chrdev,   \* majors that are registered
          irqs,     \* devices whose handler is registered
          region,   \* cards whose register region is requested
          attrs,    \* card -> the attributes it has
          hot,      \* uevents that wait for the hotplug script
          nodes,    \* card -> major of its nodes in /dev, or 0
          paths,    \* open paths: the card meant and the device found
          bad,      \* uses of what is not there
          dtenv       \* what may happen in this behaviour: chosen once

module == <<loaded, driver, unloading, loads>>
kernel == <<chrdev, irqs, region, attrs>>
user == <<hot, nodes, paths>>
dtvars == <<module, devices, mem, bind, bound, task, kernel, user, bad, dtenv>>

Freed == [live |-> FALSE, card |-> NoCard, major |-> 0, csr |-> FALSE, class |-> FALSE,
          bkl |-> FALSE]
Idle == [pc |-> "idle", card |-> NoCard, dev |-> 0, major |-> 0, rc |-> "ok"]

DtInit ==
    /\ loaded = FALSE /\ driver = FALSE /\ unloading = FALSE /\ loads = 0
    /\ devices = <<>> /\ mem = [a \in Addrs |-> Freed]
    /\ dtenv \in DtEnvironments
    /\ bind \in [Cards -> {"absent", "no"}]
    /\ "nocard" \in dtenv \/ \E c \in Cards : bind[c] = "no"
    /\ bound = [c \in Cards |-> 0] /\ task = Idle
    /\ chrdev = {} /\ irqs = {} /\ region = {} /\ attrs = [c \in Cards |-> {}]
    /\ hot = {} /\ nodes = [c \in Cards |-> 0] /\ paths = {} /\ bad = {}

idx == Len(devices)
Happens(h) == h \in dtenv

\* During a probe or a remove nobody uses a card, unless they are eager.
Quiet == Happens("eager") \/ task = Idle

-----------------------------------------------------------------------------
(***************************************************************************)
(* The lookups: devices[] is searched from the front, and every entry on   *)
(* the way is read.  The memory of an entry that was freed holds what it   *)
(* held, or something else by now: it may match with its old contents.     *)
(***************************************************************************)
HasCard(r, c) == r.card = c                   \* acq200_lookupDevice
HasClass(r, c) == r.card = c /\ r.class       \* acq200_lookupDeviceFromClass
HasMajor(r, m) == r.major = m                 \* acq200_lookup_device

Has(r, by, key) ==
    \/ by = "card" /\ HasCard(r, key)
    \/ by = "class" /\ HasClass(r, key)
    \/ by = "major" /\ HasMajor(r, key)

Hits(by, key) ==
    {i \in 1 .. idx : mem[devices[i]].live /\ Has(mem[devices[i]], by, key)}
Stale(by, key) ==
    {i \in 1 .. idx : /\ ~ mem[devices[i]].live /\ Has(mem[devices[i]], by, key)
                      /\ \A h \in Hits(by, key) : i < h}
\* What a lookup may return; 0 when it finds nothing.
Lookups(by, key) ==
    {devices[i] : i \in Stale(by, key)}
    \cup {IF Hits(by, key) = {} THEN 0 ELSE devices[Min(Hits(by, key))]}
\* A lookup reads an entry that was freed.
ReadsFreed(by, key) ==
    \E i \in 1 .. idx : ~ mem[devices[i]].live /\ \A h \in Hits(by, key) : i < h

-----------------------------------------------------------------------------
(***************************************************************************)
(* acq200_init_module.  Unless it is late, the hotplug script has done its *)
(* work when somebody loads the module again.                              *)
(***************************************************************************)
Load ==
    /\ ~ loaded /\ ~ driver /\ loads < MaxLoads
    /\ Happens("late") \/ \A c \in Cards : <<"remove", c>> \notin hot
    /\ loaded' = TRUE /\ driver' = TRUE /\ loads' = loads + 1
    /\ UNCHANGED <<unloading, devices, mem, bind, bound, task, kernel, user, bad, dtenv>>

Plug(c) ==
    /\ Happens("hotplug") /\ bind[c] = "absent" /\ ~ unloading
    /\ bind' = [bind EXCEPT ![c] = "no"]
    /\ UNCHANGED <<module, devices, mem, bound, task, kernel, user, bad, dtenv>>

\* A card on which the probe failed is pulled: there is no acq200_remove.
Pull(c) ==
    /\ Happens("hotplug") /\ bind[c] = "failed" /\ ~ unloading
    /\ bind' = [bind EXCEPT ![c] = "absent"]
    /\ attrs' = [attrs EXCEPT ![c] = @ \ {"dev", "pool"}]
    /\ UNCHANGED <<module, devices, mem, bound, task, chrdev, irqs, region, user, bad, dtenv>>

-----------------------------------------------------------------------------
(***************************************************************************)
(* acq200_probe: acq200_device_create, then acq200_device_init.            *)
(***************************************************************************)
Probing == loaded /\ driver /\ ~ unloading
Probe(l) == task.pc = l
Started(l, c, a) == [pc |-> l, card |-> c, dev |-> a, major |-> 0, rc |-> "ok"]
Then(l) == task' = [task EXCEPT !.pc = l]

\* kmalloc returns memory that was freed, or new memory.
Free ==
    LET free == {a \in Addrs : ~ mem[a].live}
        old == {devices[i] : i \in 1 .. idx}
    IN  (free \cap old) \cup {a \in free \ old : \A b \in free \ old : a <= b}

\* acq200_map_pci_memory: request_mem_region refuses a region that is taken.
\* acq200_unmap_pci_memory releases it by its address, whoever requested it.
CanMap(c) == c \notin region
Unmap(c) == region' = region \ {c}

NewDevice(c) == [live |-> TRUE, card |-> c, major |-> 0, csr |-> CanMap(c), class |-> FALSE,
                 bkl |-> FALSE]

\* Every card of the table is there.
AllThere == \A i \in 1 .. idx : mem[devices[i]].live

\* The device is in the table before it is set up.  When the region is taken
\* there is no register mapping; the result of acq200_map_pci_memory is ignored.
ProbeCreate(c) ==
    /\ Probing /\ task = Idle /\ bind[c] = "no" /\ idx < MAXDEV
    /\ Happens("again") \/ AllThere
    /\ \E a \in Free :
         /\ devices' = Append(devices, a)
         /\ mem' = [mem EXCEPT ![a] = NewDevice(c)]
         /\ task' = Started("enable", c, a)
    /\ region' = region \cup {c}
    /\ attrs' = [attrs EXCEPT ![c] = @ \cup {"pool"}]
    /\ UNCHANGED <<module, bind, bound, chrdev, irqs, user, bad, dtenv>>

\* assert(idx < MAXDEV).
ProbeTableFull(c) ==
    /\ Probing /\ task = Idle /\ bind[c] = "no" /\ idx = MAXDEV
    /\ Happens("again") \/ AllThere
    /\ bad' = {"MAXDEV"}
    /\ UNCHANGED <<module, devices, mem, bind, bound, task, kernel, user, dtenv>>

\* A card comes when the code has gone and the driver is still registered.
ProbeGone(c) ==
    /\ driver /\ ~ loaded /\ bind[c] = "no"
    /\ bad' = {"gone"}
    /\ UNCHANGED <<module, devices, mem, bind, bound, task, kernel, user, dtenv>>

\* A probe that fails returns and leaves everything it has done.
ProbeFails ==
    /\ Happens("fail") /\ task.pc \in {"enable", "chrdev", "irq", "setup"}
    /\ task.pc = "setup" => mem[task.dev].csr
    /\ task' = Idle /\ bind' = [bind EXCEPT ![task.card] = "failed"]
    /\ UNCHANGED <<module, devices, mem, bound, kernel, user, bad, dtenv>>

ProbeEnable ==
    /\ Probe("enable") /\ Then("chrdev")
    /\ UNCHANGED <<module, devices, mem, bind, bound, kernel, user, bad, dtenv>>

\* register_chrdev gives the highest major that is free ...
ProbeChrdev ==
    /\ Probe("chrdev")
    /\ \E m \in Majors \ chrdev :
         /\ \A k \in Majors \ chrdev : k <= m
         /\ chrdev' = chrdev \cup {m} /\ task' = [task EXCEPT !.pc = "major", !.major = m]
    /\ UNCHANGED <<module, devices, mem, bind, bound, irqs, region, attrs, user, bad, dtenv>>

\* ... and the device learns it.
ProbeMajor_Zero ==
    /\ Probe("major")
    /\ Then(IF Happens("interrupts") THEN "irq" ELSE "setup")
    /\ UNCHANGED <<module, devices, mem, bind, bound, kernel, user, bad, dtenv>>
ProbeMajor ==
    /\ Probe("major")
    /\ mem' = [mem EXCEPT ![task.dev].major = task.major]
    /\ Then(IF Happens("interrupts") THEN "irq" ELSE "setup")
    /\ UNCHANGED <<module, devices, bind, bound, kernel, user, bad, dtenv>>

ProbeIrq ==
    /\ Probe("irq") /\ Then("setup")
    /\ irqs' = irqs \cup {task.dev}
    /\ UNCHANGED <<module, devices, mem, bind, bound, chrdev, region, attrs, user, bad, dtenv>>

\* BP_FC_SET_HOST_DMABUF, the first use of the registers.
ProbeSetup ==
    /\ Probe("setup")
    /\ IF mem[task.dev].csr THEN Then("channels") /\ UNCHANGED bad
                            ELSE bad' = {"csr"} /\ UNCHANGED task
    /\ UNCHANGED <<module, devices, mem, bind, bound, kernel, user, dtenv>>

\* acq200_getAvailableChannels: its result is returned, but first ...
ProbeChannels ==
    /\ Probe("channels")
    /\ \E rc \in IF Happens("fail") THEN {"ok", "fail"} ELSE {"ok"} :
         task' = [task EXCEPT !.pc = "publish", !.rc = rc]
    /\ UNCHANGED <<module, devices, mem, bind, bound, kernel, user, bad, dtenv>>

\* acq200_create_sysfs_device; acq200_remove_sysfs_device with the class's.
CreateFiles(c) == attrs' = [attrs EXCEPT ![c] = @ \cup {"dev"}]
RemoveFiles(c) == attrs' = [attrs EXCEPT ![c] = @ \ {"dev", "class"}]

\* ... the attributes, and the class device with its uevent,
ProbePublish ==
    /\ Probe("publish") /\ Then("class")
    /\ CreateFiles(task.card)
    /\ mem' = [mem EXCEPT ![task.dev].class = TRUE]
    /\ hot' = hot \cup {<<"add", task.card>>}
    /\ UNCHANGED <<module, devices, bind, bound, chrdev, irqs, region, nodes, paths, bad, dtenv>>

\* acq200_create_sysfs_class,
ProbeClass ==
    /\ Probe("class") /\ Then("bkl")
    /\ attrs' = [attrs EXCEPT ![task.card] = @ \cup {"class"}]
    /\ UNCHANGED <<module, devices, mem, bind, bound, chrdev, irqs, region, user, bad, dtenv>>

\* spin_lock_init.
ProbeEnd_NoLock ==
    /\ Probe("bkl") /\ task' = Idle
    /\ bind' = [bind EXCEPT ![task.card] = IF task.rc = "ok" THEN "bound" ELSE "failed"]
    /\ bound' = [bound EXCEPT ![task.card] = IF task.rc = "ok" THEN task.dev ELSE 0]
    /\ UNCHANGED <<module, devices, mem, kernel, user, bad, dtenv>>
ProbeEnd ==
    /\ Probe("bkl") /\ task' = Idle
    /\ mem' = [mem EXCEPT ![task.dev].bkl = TRUE]
    /\ bind' = [bind EXCEPT ![task.card] = IF task.rc = "ok" THEN "bound" ELSE "failed"]
    /\ bound' = [bound EXCEPT ![task.card] = IF task.rc = "ok" THEN task.dev ELSE 0]
    /\ UNCHANGED <<module, devices, kernel, user, bad, dtenv>>

-----------------------------------------------------------------------------
(***************************************************************************)
(* acq200_remove.  using_interrupt is zero: there is no free_irq.          *)
(***************************************************************************)
MayGo(c) == Happens("held") \/ \A p \in paths : p.dev # bound[c]

MayRemove(c) ==
    /\ task = Idle /\ bind[c] = "bound" /\ MayGo(c)
    /\ unloading \/ (Probing /\ Happens("hotplug"))

Remove(c) ==
    /\ MayRemove(c)
    /\ \E dev \in Lookups("card", c) :
         IF mem[dev].live THEN task' = Started("attrs", c, dev) /\ UNCHANGED bad
                          ELSE bad' = {"remove"} /\ UNCHANGED task
    /\ UNCHANGED <<module, devices, mem, bind, bound, kernel, user, dtenv>>

RemoveAttrs ==
    /\ Probe("attrs") /\ Then("unregister")
    /\ RemoveFiles(task.card)
    /\ hot' = hot \cup {<<"remove", task.card>>}
    /\ UNCHANGED <<module, devices, mem, bind, bound, chrdev, irqs, region, nodes, paths,
                   bad, dtenv>>

RemoveChrdev_Keeps ==
    /\ Probe("unregister") /\ Then("free")
    /\ UNCHANGED <<module, devices, mem, bind, bound, kernel, user, bad, dtenv>>
RemoveChrdev ==
    /\ Probe("unregister") /\ Then("free")
    /\ chrdev' = chrdev \ {mem[task.dev].major}
    /\ UNCHANGED <<module, devices, mem, bind, bound, irqs, region, attrs, user, bad, dtenv>>

\* acq200_device_free: the pool, the mapping, the buffers, the device.
Gone == IF unloading THEN "no" ELSE "absent"
RemoveFree_KeepsRegion ==
    /\ Probe("free") /\ task' = Idle
    /\ attrs' = [attrs EXCEPT ![task.card] = @ \ {"pool"}]
    /\ mem' = [mem EXCEPT ![task.dev].live = FALSE]
    /\ bind' = [bind EXCEPT ![task.card] = Gone]
    /\ bound' = [bound EXCEPT ![task.card] = 0]
    /\ UNCHANGED <<module, devices, chrdev, irqs, region, user, bad, dtenv>>
RemoveFree ==
    /\ Probe("free") /\ task' = Idle
    /\ attrs' = [attrs EXCEPT ![task.card] = @ \ {"pool"}]
    /\ Unmap(task.card)
    /\ mem' = [mem EXCEPT ![task.dev].live = FALSE]
    /\ bind' = [bind EXCEPT ![task.card] = Gone]
    /\ bound' = [bound EXCEPT ![task.card] = 0]
    /\ UNCHANGED <<module, devices, chrdev, irqs, user, bad, dtenv>>

-----------------------------------------------------------------------------
(***************************************************************************)
(* acq200_exit_module.  Nothing keeps it from running with a device open:  *)
(* the tables of file operations have no owner.                            *)
(***************************************************************************)
Unload ==
    /\ loaded /\ ~ unloading /\ task = Idle /\ (Happens("held") \/ paths = {})
    /\ IF idx = 0 THEN loaded' = FALSE /\ UNCHANGED unloading
                  ELSE unloading' = TRUE /\ UNCHANGED loaded
    /\ idx = 0 => Happens("nocard")
    /\ UNCHANGED <<driver, loads, devices, mem, bind, bound, task, kernel, user, bad, dtenv>>

\* The table goes with the module, and with it what freed memory held.
UnloadEnd ==
    /\ unloading /\ task = Idle /\ \A c \in Cards : bind[c] # "bound"
    /\ Happens("held") \/ paths = {}
    /\ loaded' = FALSE /\ driver' = FALSE /\ unloading' = FALSE
    /\ devices' = <<>>
    /\ mem' = [a \in Addrs |-> IF mem[a].live THEN mem[a] ELSE Freed]
    /\ bind' = [c \in Cards |-> IF bind[c] = "failed" THEN "no" ELSE bind[c]]
    /\ UNCHANGED <<loads, bound, task, kernel, user, bad, dtenv>>

-----------------------------------------------------------------------------
(***************************************************************************)
(* The others: the hotplug script, users of nodes and attributes, the      *)
(* interrupt line.                                                         *)
(***************************************************************************)
\* show_dev: the major of the device, if the attribute is there.
MajorsOf(c) ==
    IF "class" \notin attrs[c] THEN {0}
    ELSE {IF dev = 0 THEN 0 ELSE mem[dev].major : dev \in Lookups("class", c)}

\* The script reads the major from the attribute dev and makes the nodes; it
\* does not replace nodes that are there.  When a card goes it cannot read the
\* slot any more and removes the nodes called by the number of the device.
HotAdd(c) ==
    /\ <<"add", c>> \in hot /\ Quiet /\ hot' = hot \ {<<"add", c>>}
    /\ \E m \in MajorsOf(c) : nodes' = [nodes EXCEPT ![c] = IF @ # 0 THEN @ ELSE m]
    /\ UNCHANGED <<module, devices, mem, bind, bound, task, kernel, paths, bad, dtenv>>

HotRemove(c) ==
    /\ <<"remove", c>> \in hot /\ Quiet /\ hot' = hot \ {<<"remove", c>>}
    /\ nodes' = [nodes EXCEPT ![c] = IF Happens("oldnodes") THEN @ ELSE 0]
    /\ UNCHANGED <<module, devices, mem, bind, bound, task, kernel, paths, bad, dtenv>>

\* acq200_open: assert(0) when no device has the major.
MayOpen(c) == Quiet /\ nodes[c] \in chrdev /\ Cardinality(paths) < MaxPaths

Open(c) ==
    /\ MayOpen(c)
    /\ \E dev \in Lookups("major", nodes[c]) :
         LET wrong == IF ~ loaded THEN {"gone"} ELSE IF dev = 0 THEN {"assert"} ELSE {}
         IN  /\ bad' = wrong
             /\ paths' = IF wrong = {} THEN paths \cup {[card |-> c, dev |-> dev]} ELSE paths
    /\ UNCHANGED <<module, devices, mem, bind, bound, task, kernel, hot, nodes, dtenv>>

\* Read, write, ioctl, mmap or a mapping that is there: all go to path->device.
Use(p) ==
    /\ ~ (loaded /\ mem[p.dev].live)
    /\ bad' = {"path"}
    /\ UNCHANGED <<module, devices, mem, bind, bound, task, kernel, user, dtenv>>

Close(p) ==
    /\ loaded /\ mem[p.dev].live
    /\ paths' = paths \ {p}
    /\ UNCHANGED <<module, devices, mem, bind, bound, task, kernel, hot, nodes, bad, dtenv>>

\* A show function finds its device by acq200_lookupDevice.
MayShow(c) == "dev" \in attrs[c] /\ Quiet

Show(c) ==
    /\ MayShow(c)
    /\ \/ ~ loaded /\ bad' = {"gone"}
       \/ /\ loaded /\ \E dev \in Lookups("card", c) : dev # 0 /\ ~ mem[dev].live
          /\ bad' = {"attr"}
    /\ UNCHANGED <<module, devices, mem, bind, bound, task, kernel, user, dtenv>>

\* store_imask with LOC takes bkl.lock.
TakeLock(c) ==
    /\ loaded /\ "class" \in attrs[c] /\ Quiet
    /\ \E dev \in Lookups("class", c) :
         /\ dev # 0 /\ ~ (mem[dev].live /\ mem[dev].bkl)
         /\ bad' = {IF mem[dev].live THEN "bkl" ELSE "attr"}
    /\ UNCHANGED <<module, devices, mem, bind, bound, task, kernel, user, dtenv>>

\* The line is shared: the handler may be called at any time.
Interrupt(a) ==
    /\ ~ (loaded /\ mem[a].live /\ mem[a].csr)
    /\ bad' = {IF ~ loaded THEN "gone" ELSE IF mem[a].live THEN "csr" ELSE "irq"}
    /\ UNCHANGED <<module, devices, mem, bind, bound, task, kernel, user, dtenv>>

-----------------------------------------------------------------------------
DriverCore ==
    \/ Load \/ Unload \/ UnloadEnd
    \/ \E c \in Cards : Plug(c) \/ Pull(c) \/ ProbeCreate(c) \/ ProbeTableFull(c) \/ ProbeGone(c)
                          \/ Remove(c)
    \/ ProbeFails \/ ProbeEnable \/ ProbeChrdev \/ ProbeMajor \/ ProbeIrq \/ ProbeSetup
    \/ ProbeChannels \/ ProbePublish \/ ProbeClass \/ ProbeEnd
    \/ RemoveAttrs \/ RemoveChrdev \/ RemoveFree

Others ==
    \/ \E c \in Cards : HotAdd(c) \/ HotRemove(c) \/ Open(c) \/ Show(c) \/ TakeLock(c)
    \/ \E p \in paths : Use(p) \/ Close(p)
    \/ \E a \in irqs : Interrupt(a)

DtNext == bad = {} /\ (DriverCore \/ Others)

DtSpec == DtInit /\ [][DtNext]_dtvars

-----------------------------------------------------------------------------
\* Some of these may happen in this behaviour.
Troubles(S) == dtenv \cap S # {}

\* A probe may come after one that failed.
AfterFailure == "fail" \in dtenv /\ (loads > 1 \/ "hotplug" \in dtenv)

\* A lookup that may happen now reads an entry of the table that was freed.
LooksAtFreed ==
    loaded /\ \E c \in Cards :
        \/ MayOpen(c) /\ ReadsFreed("major", nodes[c])
        \/ (MayShow(c) \/ MayRemove(c)) /\ ReadsFreed("card", c)

\* A device that was freed is not used through the table, an attribute, an
\* interrupt or a path, nor removed again (acq200.c:322-348, 417-436, 1281-1303);
\* and its entry is not even read when it is the only one.  Not with interrupts,
\* whose handler is never removed; not when a card goes from under a path or is
\* opened while it goes; not by the attributes that a failed probe has left; and
\* not when a card is probed after one has gone: it gets the major of the other
\* one, whose entry comes first in the table and may match.
NoStaleUse ==
    \/ Troubles({"interrupts", "held", "eager", "again"}) \/ AfterFailure
    \/ bad \cap {"attr", "remove", "irq", "path"} = {} /\ (idx <= 1 => ~ LooksAtFreed)

\* Each lookup finds the device of the card that was probed last, and nothing
\* else, by card, by class and by major, whatever probes have failed before, and
\* a path opened by the nodes of a card is on that card, also when the table
\* names cards that have gone and that their memory still tells of
\* (acq200.c:322-348, 417-436).  Not when a card goes from under a path or is
\* opened while it goes, nor by nodes that a card has left; and not when a card
\* is probed after one has gone.
FindsOwn ==
    \/ Troubles({"held", "eager", "oldnodes", "again", "late"})
    \/ /\ \A c \in Cards : bound[c] # 0 =>
             /\ Lookups("card", c) = {bound[c]} /\ Lookups("class", c) = {bound[c]}
             /\ Lookups("major", mem[bound[c]].major) = {bound[c]}
       /\ \A p \in paths : mem[p.dev].card = p.card

\* When the module has gone nothing of it is left: driver, character devices,
\* interrupt handlers, register regions ("unmap remote regs are on device
\* unload", acq200_mmap.c:104), attributes and memory.  Not when a probe failed,
\* when there were interrupts, or when no card ever came (acq200.c:1355).
CleanUnload ==
    \/ Troubles({"fail", "interrupts", "nocard"}) \/ loaded
    \/ /\ ~ driver /\ "gone" \notin bad /\ chrdev = {} /\ irqs = {} /\ region = {}
       /\ \A c \in Cards : attrs[c] = {}
       /\ \A a \in Addrs : ~ mem[a].live

\* What can be reached has been set up: a registered major has its device, the
\* registers are mapped before they are used, and bkl.lock is initialised before
\* it is taken, also when a probe has failed half way (acq200.c:1183-1254).  Not
\* when nodes and attributes are used during a probe or a remove, nor when a card
\* is probed again after a failed probe: its region is still taken.
ReadyWhenUsed ==
    \/ "eager" \in dtenv \/ AfterFailure
    \/ bad \cap {"assert", "csr", "bkl"} = {}
=============================================================================
