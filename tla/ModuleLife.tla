----------------------------- MODULE ModuleLife -----------------------------
(***************************************************************************)
(* The life of the driver module: insmod runs aclsoc_init and              *)
(* aclsoc_probe, rmmod runs aclsoc_exit and aclsoc_remove.  What the probe *)
(* acquires step by step is the set "held"; a failed step undoes some of   *)
(* the earlier ones and aclsoc_init ignores the failure.  Three results    *)
(* are not looked at: the table's and the two regions'.  The device node   *)
(* is live before the regions are mapped and the interrupt is requested,   *)
(* so a process can open it in between.                                    *)
(*                                                                         *)
(* An access through a pointer that is NULL, or to memory that was freed,  *)
(* is taken to fault: the kernel ends the process that makes it where it   *)
(* stands.                                                                 *)
(***************************************************************************)
EXTENDS Naturals, FiniteSets

CONSTANTS
    Procs,          \* processes that can open the device
    RegionSize,     \* sizes of the two regions: [Bars -> Nat]
    MayFail         \* the steps of the probe that can fail

Bars == {0, 2}
Steps == {"dev", "buffer", "region", "class", "cdev", "node", "map2", "map0",
          "irq"}

ASSUME LifeAssumption ==
    /\ RegionSize \in [Bars -> Nat \ {0}]
    /\ MayFail \subseteq Steps \cup {"table"}

VARIABLES
    life,       \* the step that insmod or rmmod is about to take; "out" and
                \* "live" between them; "stuck" when insmod has died, "oops"
                \* when rmmod has
    aclsoc,     \* the static pointer is not NULL
    held,       \* what the module holds of the kernel
    size,       \* mapped_region_size
    users       \* processes whose file counts as a reference to the module

lifeVars == <<life, aclsoc, held, size, users>>

\* What can be held: memory, names, mapped regions, the interrupt.
Things == {"dev", "addr_map", "buffer", "region", "class", "cdev", "node",
           "map2", "map0", "irq"}
Unloading == {"unhook", "unname", "unmap", "free"}

LifeTypeOK ==
    /\ life \in Steps \cup Unloading \cup {"out", "live", "stuck", "oops"}
    /\ aclsoc \in BOOLEAN
    /\ held \subseteq Things
    /\ size \in [Bars -> Nat]
    /\ users \subseteq Procs

LifeInit ==
    /\ life = "out" /\ aclsoc = FALSE /\ held = {} /\ users = {}
    /\ size = [b \in Bars |-> 0]

\* The region a bar number stands for is mapped.
Mapped(b) == (IF b = 0 THEN "map0" ELSE "map2") \in held

----------------------------------------------------------------------------
(* insmod *)

Insmod == life = "out" /\ life' = "dev" /\ UNCHANGED <<aclsoc, held, size, users>>

\* A step of the probe succeeds: it adds to what is held.
Acquire(step, things, next) ==
    /\ life = step /\ life' = next
    /\ held' = held \cup things

\* A step of the probe fails: what the error labels undo is given back, the
\* pointer is left as it is, and aclsoc_init returns 0 all the same.
Fail(step, undone) ==
    /\ life = step /\ step \in MayFail /\ life' = "live"
    /\ held' = held \ undone
    /\ UNCHANGED <<aclsoc, size, users>>

\* kzalloc of the device: its result is the static pointer.
AllocDev ==
    Acquire("dev", {"dev"}, "buffer") /\ aclsoc' = TRUE /\ UNCHANGED <<size, users>>

AllocDevFails == Fail("dev", {})

\* What kzalloc of the table can give.
Tables == {{"addr_map"}} \cup (IF "table" \in MayFail THEN {{}} ELSE {})

\* The table and the bounce buffer.  Only the buffer is checked.
AllocBuffer ==
    /\ \E table \in Tables : Acquire("buffer", table \cup {"buffer"}, "region")
    /\ UNCHANGED <<aclsoc, size, users>>

\* The table is not given back.
AllocBufferFails ==
    /\ life = "buffer" /\ "buffer" \in MayFail /\ life' = "live"
    /\ \E table \in Tables : held' = (held \cup table) \ {"dev"}
    /\ UNCHANGED <<aclsoc, size, users>>

\* init_chrdev: device number, class, character device, node.
AddName ==
    /\ \/ Acquire("region", {"region"}, "class")
       \/ Acquire("class", {"class"}, "cdev")
       \/ Acquire("cdev", {"cdev"}, "node")
       \/ Acquire("node", {"node"}, "map2")
    /\ UNCHANGED <<aclsoc, size, users>>

\* fail_class gives back a device number that was never set (devno is -1).
AddNameFails ==
    \/ Fail("region", {"buffer", "dev"})
    \/ Fail("class", {"buffer", "dev"})
    \/ Fail("cdev", {"class", "region", "buffer", "dev"})
    \/ Fail("node", {"cdev", "class", "region", "buffer", "dev"})

\* ioremap, control region first; a failure is not looked at and the size is
\* stored all the same.
MapRegion(b, step, next) ==
    /\ \E mapped \in {{step}, {}} :
           (mapped = {} => step \in MayFail) /\ Acquire(step, mapped, next)
    /\ size' = [size EXCEPT ![b] = RegionSize[b]]
    /\ UNCHANGED <<aclsoc, users>>

MapRegions == MapRegion(2, "map2", "map0") \/ MapRegion(0, "map0", "irq")

\* init_irq: request_irq fails if somebody has called LOAD in the meantime.
\* The device is unmasked last.
HookIrq ==
    /\ "irq" \notin held
    /\ Acquire("irq", {"irq"}, IF Mapped(2) THEN "live" ELSE "stuck")
    /\ UNCHANGED <<aclsoc, size, users>>

HookIrqFails ==
    /\ life = "irq" /\ ("irq" \in held \/ "irq" \in MayFail)
    /\ life' = "live"
    /\ UNCHANGED <<aclsoc, held, size, users>>

Probe ==
    \/ AllocDev \/ AllocDevFails \/ AllocBuffer \/ AllocBufferFails
    \/ AddName \/ AddNameFails \/ MapRegions \/ HookIrq \/ HookIrqFails

----------------------------------------------------------------------------
(* rmmod, refused by the kernel while a file refers to the module *)

\* Mutant of Rmmod: the file operations do not name their owner.
RmmodAnyTime ==
    /\ life = "live"
    /\ life' = IF ~aclsoc THEN "out"
               ELSE IF "dev" \in held THEN "unhook" ELSE "oops"
    /\ UNCHANGED <<aclsoc, held, size, users>>

\* aclsoc_remove reads the device through the pointer: if a failed probe has
\* freed it, it reads memory that is not its own.
Rmmod ==
    /\ life = "live" /\ users = {}
    /\ life' = IF ~aclsoc THEN "out"
               ELSE IF "dev" \in held THEN "unhook" ELSE "oops"
    /\ UNCHANGED <<aclsoc, held, size, users>>

Release(step, things, next) ==
    /\ life = step /\ life' = next
    /\ held' = held \ things
    /\ UNCHANGED users

\* release_irq masks the device first.
Unhook ==
    /\ \/ Mapped(2) /\ Release("unhook", {"irq"}, "unname")
       \/ ~Mapped(2) /\ Release("unhook", {}, "oops")
    /\ UNCHANGED <<aclsoc, size>>

Unname ==
    /\ Release("unname", {"node", "class", "cdev", "region"}, "unmap")
    /\ UNCHANGED <<aclsoc, size>>

\* Mutant of Unmap: the second iounmap is forgotten.
UnmapOne == Release("unmap", {"map0"}, "free") /\ UNCHANGED <<aclsoc, size>>

Unmap == Release("unmap", {"map0", "map2"}, "free") /\ UNCHANGED <<aclsoc, size>>

\* The sizes go with the device; the next one is zeroed.
FreeAll ==
    /\ "addr_map" \in held
    /\ Release("free", {"buffer", "addr_map", "dev"}, "out")
    /\ aclsoc' = FALSE
    /\ size' = [b \in Bars |-> 0]

\* free_contiguous_memory reads a table that is not there.
FreeNoTable ==
    /\ "addr_map" \notin held
    /\ Release("free", {"buffer"}, "oops") /\ UNCHANGED <<aclsoc, size>>

Remove == Rmmod \/ Unhook \/ Unname \/ Unmap \/ FreeAll \/ FreeNoTable

LifeNext == Insmod \/ Probe \/ Remove

----------------------------------------------------------------------------
(* References of files, for the calls in RwPath *)

\* The kernel finds the device by its node and takes a reference to the
\* module, which it refuses once rmmod has begun.  When insmod has died, the
\* module can be used and rmmod is refused.
CanOpen == "node" \in held /\ life \notin Unloading \cup {"oops"}

=============================================================================
