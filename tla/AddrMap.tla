------------------------------ MODULE AddrMap ------------------------------
(***************************************************************************)
(* The table of DMA buffers of the Linux driver (aclsoc->addr_map).        *)
(*                                                                         *)
(* A process asks for physically contiguous memory with mmap() on the      *)
(* device.  aclsoc_mmap finds a free slot of the table, allocates a        *)
(* buffer, maps it and fills the slot; the slot's reference count follows  *)
(* the VMAs that map the buffer (fork and a split of a VMA add one,        *)
(* munmap removes one) and the last one frees the buffer.  The host turns  *)
(* the virtual address it got into the physical one with the command       *)
(* GET_PHYS_PTR_FROM_VIRT, which searches the same table.                  *)
(*                                                                         *)
(* None of the mapping calls takes the device's semaphore: the kernel      *)
(* serialises the calls of one address space (mmap_sem), and calls of      *)
(* different processes interleave at every step below.  Spec has every     *)
(* such interleaving; SerialSpec has only those in which mapping calls of  *)
(* different processes do not overlap, which is how the device is used     *)
(* when one host process at a time owns it.                                *)
(***************************************************************************)
EXTENDS Integers, FiniteSets

CONSTANTS
    Procs,          \* address spaces that have the device open
    Addrs,          \* page-aligned user virtual addresses
    NoAddr,         \* the value 0 of vm_start: the slot is free
    Bufs,           \* DMA buffers that dma_alloc_coherent can return
    NoBuf,          \* the value 0 of dma_handle
    NSlots,         \* MAX_ADDR_MAP_ENTRIES
    LookupLimit,    \* the literal 128 of the lookup loop
    MayMap,         \* the addresses each process can get from mmap()
    Sharing         \* do processes fork, split and move mappings?

ASSUME SlotsAssumption == NSlots \in Nat \ {0} /\ LookupLimit \in 1..NSlots
ASSUME ValuesAssumption == NoAddr \notin Addrs /\ NoBuf \notin Bufs
ASSUME MayMapAssumption == MayMap \in [Procs -> SUBSET Addrs]
ASSUME SharingAssumption == Sharing \in BOOLEAN

VARIABLES
    start,      \* addr_map[s].vm_start
    handle,     \* addr_map[s].dma_handle (and cpu_addr: the same buffer)
    ref,        \* addr_map[s].ref
    live,       \* buffers that are allocated in the kernel
    vmas,       \* VMAs of the device, with the buffer their pages map
    pc,         \* where a process is in its call
    arg,        \* the virtual address its call is about
    idx,        \* its loop index, then the slot it works on
    got,        \* the buffer its call holds
    ret,        \* the result of its lookup: "fault" is bytes left uncopied
    loaded,     \* is the module loaded?
    lost        \* the buffers that RemapFail dropped; for the properties only

table == <<start, handle, ref>>
vars == <<start, handle, ref, live, vmas, pc, arg, idx, got, ret, loaded, lost>>

Slots == 1..NSlots
VMA == [proc : Procs, addr : Addrs, slot : Slots, buf : Bufs]

MapPcs == {"scan", "alloc", "remap", "fill", "release", "wipe", "clear"}
LookupPcs == {"lookup", "copy", "answer"}
Results == {"ok", "fault"}

\* The VMAs whose vm_private_data is slot s, those of process p, and p's at a.
On(s) == {v \in vmas : v.slot = s}
VmasOf(p) == {v \in vmas : v.proc = p}
At(p, a) == {v \in VmasOf(p) : v.addr = a}

TypeOK ==
    /\ start \in [Slots -> Addrs \cup {NoAddr}]
    /\ handle \in [Slots -> Bufs \cup {NoBuf}]
    /\ ref \in [Slots -> Int]
    /\ live \in SUBSET Bufs
    /\ vmas \in SUBSET VMA
    /\ pc \in [Procs -> {"idle"} \cup MapPcs \cup LookupPcs]
    /\ arg \in [Procs -> Addrs \cup {NoAddr}]
    /\ idx \in [Procs -> 1..(NSlots + 1)]
    /\ got \in [Procs -> Bufs \cup {NoBuf}]
    /\ ret \in [Procs -> Results]
    /\ loaded \in BOOLEAN
    /\ lost \in SUBSET Bufs

\* kzalloc gives a table of zeroes.
Init ==
    /\ start = [s \in Slots |-> NoAddr]
    /\ handle = [s \in Slots |-> NoBuf]
    /\ ref = [s \in Slots |-> 0]
    /\ live = {}
    /\ vmas = {}
    /\ pc = [p \in Procs |-> "idle"]
    /\ arg = [p \in Procs |-> NoAddr]
    /\ idx = [p \in Procs |-> 1]
    /\ got = [p \in Procs |-> NoBuf]
    /\ ret = [p \in Procs |-> "ok"]
    /\ loaded = TRUE
    /\ lost = {}

Goto(p, l) == pc' = [pc EXCEPT ![p] = l]

\* A finished call leaves no locals behind.
Return(p) ==
    /\ Goto(p, "idle")
    /\ arg' = [arg EXCEPT ![p] = NoAddr]
    /\ idx' = [idx EXCEPT ![p] = 1]
    /\ got' = [got EXCEPT ![p] = NoBuf]
    /\ ret' = [ret EXCEPT ![p] = "ok"]

----------------------------------------------------------------------------
(* mmap(): aclsoc_mmap                                                     *)

\* The kernel picks a range of the process that nothing maps yet.
MmapCall(p) == \E a \in MayMap[p] :
    /\ pc[p] = "idle" /\ loaded
    /\ At(p, a) = {}
    /\ Goto(p, "scan")
    /\ arg' = [arg EXCEPT ![p] = a]
    /\ idx' = [idx EXCEPT ![p] = 1]
    /\ UNCHANGED <<table, live, vmas, got, ret, loaded, lost>>

ScanTaken(p) ==
    /\ pc[p] = "scan" /\ idx[p] \in Slots
    /\ start[idx[p]] # NoAddr
    /\ idx' = [idx EXCEPT ![p] = @ + 1]
    /\ UNCHANGED <<table, live, vmas, pc, arg, got, ret, loaded, lost>>

\* Mutant of ScanFree: takes the slot without looking at its vm_start.
ScanFreeUnchecked(p) ==
    /\ pc[p] = "scan" /\ idx[p] \in Slots
    /\ Goto(p, "alloc")
    /\ UNCHANGED <<table, live, vmas, arg, idx, got, ret, loaded, lost>>

ScanFree(p) ==
    /\ pc[p] = "scan" /\ idx[p] \in Slots
    /\ start[idx[p]] = NoAddr
    /\ Goto(p, "alloc")
    /\ UNCHANGED <<table, live, vmas, arg, idx, got, ret, loaded, lost>>

\* "Out of addr_map buffers!": -ENOMEM
ScanFull(p) ==
    /\ pc[p] = "scan" /\ idx[p] = NSlots + 1
    /\ Return(p)
    /\ UNCHANGED <<table, live, vmas, loaded, lost>>

\* dma_alloc_coherent may sleep: the chosen slot is not reserved meanwhile.
Alloc(p) == \E b \in Bufs \ live :
    /\ pc[p] = "alloc"
    /\ live' = live \cup {b}
    /\ got' = [got EXCEPT ![p] = b]
    /\ Goto(p, "remap")
    /\ UNCHANGED <<table, vmas, arg, idx, ret, loaded, lost>>

AllocFail(p) ==
    /\ pc[p] = "alloc"
    /\ Return(p)
    /\ UNCHANGED <<table, live, vmas, loaded, lost>>

\* -EAGAIN: the buffer is neither freed nor recorded.
RemapFail(p) ==
    /\ pc[p] = "remap"
    /\ lost' = lost \cup {got[p]}
    /\ Return(p)
    /\ UNCHANGED <<table, live, vmas, loaded>>

\* The slot becomes visible to the other scans with its vm_start ...
FillStart(p) ==
    /\ pc[p] = "remap"
    /\ start' = [start EXCEPT ![idx[p]] = arg[p]]
    /\ Goto(p, "fill")
    /\ UNCHANGED <<handle, ref, live, vmas, arg, idx, got, ret, loaded, lost>>

\* ... and the rest of it, kref_init and the VMA's fields follow.
FillRest(p) ==
    /\ pc[p] = "fill"
    /\ handle' = [handle EXCEPT ![idx[p]] = got[p]]
    /\ ref' = [ref EXCEPT ![idx[p]] = 1]
    /\ vmas' = vmas \cup {[proc |-> p, addr |-> arg[p],
                           slot |-> idx[p], buf |-> got[p]]}
    /\ Return(p)
    /\ UNCHANGED <<start, live, loaded, lost>>

----------------------------------------------------------------------------
(* aclsoc_vma_open: a copy of a VMA counts one more reference              *)

\* A split (or a move, which opens the new VMA before it closes the old one)
\* gives a process a second VMA of the same slot at another address.
Split(p) == \E v \in VmasOf(p), a \in Addrs :
    /\ Sharing
    /\ pc[p] = "idle"
    /\ At(p, a) = {}
    /\ vmas' = vmas \cup {[v EXCEPT !.addr = a]}
    /\ ref' = [ref EXCEPT ![v.slot] = @ + 1]
    /\ UNCHANGED <<start, handle, live, pc, arg, idx, got, ret, loaded, lost>>

\* The copies that the child c of p gets.
Inherited(p, c) == {[v EXCEPT !.proc = c] : v \in VmasOf(p)}

\* Mutant of Fork: vm_ops has no open, so that the copies are not counted.
ForkUncounted(p) == \E c \in Procs \ {p} :
    /\ Sharing
    /\ pc[p] = "idle" /\ pc[c] = "idle"
    /\ VmasOf(p) # {} /\ VmasOf(c) = {}
    /\ vmas' = vmas \cup Inherited(p, c)
    /\ UNCHANGED <<table, live, pc, arg, idx, got, ret, loaded, lost>>

\* fork() opens a copy of every VMA of the parent in the new process.
Fork(p) == \E c \in Procs \ {p} :
    /\ Sharing
    /\ pc[p] = "idle" /\ pc[c] = "idle"
    /\ VmasOf(p) # {} /\ VmasOf(c) = {}
    /\ vmas' = vmas \cup Inherited(p, c)
    /\ ref' = [s \in Slots |-> ref[s] + Cardinality(On(s) \cap VmasOf(p))]
    /\ UNCHANGED <<start, handle, live, pc, arg, idx, got, ret, loaded, lost>>

----------------------------------------------------------------------------
(* munmap() or exit: aclsoc_vma_close, and free_map_info at the last one   *)

\* Mutant of Munmap: frees at every close instead of the last one.
MunmapFreesAlways(p) == \E v \in VmasOf(p) :
    /\ pc[p] = "idle"
    /\ vmas' = vmas \ {v}
    /\ ref' = [ref EXCEPT ![v.slot] = @ - 1]
    /\ Goto(p, "release")
    /\ idx' = [idx EXCEPT ![p] = v.slot]
    /\ UNCHANGED <<start, handle, live, arg, got, ret, loaded, lost>>

\* Mutant of Munmap: drops the reference and never releases.
MunmapNeverFrees(p) == \E v \in VmasOf(p) :
    /\ pc[p] = "idle"
    /\ vmas' = vmas \ {v}
    /\ ref' = [ref EXCEPT ![v.slot] = @ - 1]
    /\ UNCHANGED <<start, handle, live, pc, arg, idx, got, ret, loaded, lost>>

\* kref_put: atomic decrement, release when it reaches 0.
Munmap(p) == \E v \in VmasOf(p) :
    /\ pc[p] = "idle"
    /\ vmas' = vmas \ {v}
    /\ ref' = [ref EXCEPT ![v.slot] = @ - 1]
    /\ \/ /\ ref[v.slot] = 1
          /\ Goto(p, "release")
          /\ idx' = [idx EXCEPT ![p] = v.slot]
       \/ /\ ref[v.slot] # 1
          /\ UNCHANGED <<pc, idx>>
    /\ UNCHANGED <<start, handle, live, arg, got, ret, loaded, lost>>

\* Mutant of ReleaseFree: wipes the element without dma_free_coherent.
ReleaseWithoutFree(p) ==
    /\ pc[p] = "release"
    /\ Goto(p, "wipe")
    /\ UNCHANGED <<table, live, vmas, arg, idx, got, ret, loaded, lost>>

\* free_map_info: nothing to free when another call has wiped the slot.
ReleaseFree(p) ==
    /\ pc[p] = "release"
    /\ IF start[idx[p]] = NoAddr
         THEN Return(p) /\ UNCHANGED live
         ELSE /\ live' = live \ {handle[idx[p]]}
              /\ Goto(p, "wipe")
              /\ UNCHANGED <<arg, idx, got, ret>>
    /\ UNCHANGED <<table, vmas, loaded, lost>>

\* memset from the start of the element: vm_start first, ...
WipeStart(p) ==
    /\ pc[p] = "wipe"
    /\ start' = [start EXCEPT ![idx[p]] = NoAddr]
    /\ Goto(p, "clear")
    /\ UNCHANGED <<handle, ref, live, vmas, arg, idx, got, ret, loaded, lost>>

\* ... then the handle and the count.
WipeRest(p) ==
    /\ pc[p] = "clear"
    /\ handle' = [handle EXCEPT ![idx[p]] = NoBuf]
    /\ ref' = [ref EXCEPT ![idx[p]] = 0]
    /\ Return(p)
    /\ UNCHANGED <<start, live, vmas, loaded, lost>>

----------------------------------------------------------------------------
(* The command GET_PHYS_PTR_FROM_VIRT, under the device's semaphore        *)

\* Mutant of LookupCall: starts below the first slot.
LookupCallFromZero(p) == \E a \in Addrs \cup {NoAddr}, r \in Results :
    /\ pc[p] = "idle"
    /\ \A q \in Procs : pc[q] \notin LookupPcs
    /\ r = "ok" => At(p, a) # {}
    /\ Goto(p, "lookup")
    /\ arg' = [arg EXCEPT ![p] = a]
    /\ idx' = [idx EXCEPT ![p] = 0]
    /\ ret' = [ret EXCEPT ![p] = r]
    /\ UNCHANGED <<table, live, vmas, got, loaded, lost>>

\* A process asks about the start of a mapping of its own.  When the address
\* cannot be read, the search goes on with whatever is on the stack.
LookupCall(p) == \E a \in Addrs \cup {NoAddr}, r \in Results :
    /\ pc[p] = "idle"
    /\ \A q \in Procs : pc[q] \notin LookupPcs
    /\ r = "ok" => At(p, a) # {}
    /\ Goto(p, "lookup")
    /\ arg' = [arg EXCEPT ![p] = a]
    /\ idx' = [idx EXCEPT ![p] = 1]
    /\ ret' = [ret EXCEPT ![p] = r]
    /\ UNCHANGED <<table, live, vmas, got, loaded, lost>>

LookupNext(p) ==
    /\ pc[p] = "lookup" /\ idx[p] <= LookupLimit
    /\ start[idx[p]] \notin {NoAddr, arg[p]}
    /\ idx' = [idx EXCEPT ![p] = @ + 1]
    /\ UNCHANGED <<table, live, vmas, pc, arg, got, ret, loaded, lost>>

LookupHit(p) ==
    /\ pc[p] = "lookup" /\ idx[p] <= LookupLimit
    /\ start[idx[p]] = arg[p] /\ arg[p] # NoAddr
    /\ Goto(p, "copy")
    /\ UNCHANGED <<table, live, vmas, arg, idx, got, ret, loaded, lost>>

\* Mutant of LookupMiss: the loop stops one slot early.
LookupMissEarly(p) ==
    /\ pc[p] = "lookup"
    /\ idx[p] < LookupLimit => start[idx[p]] = NoAddr
    /\ Goto(p, "answer")
    /\ UNCHANGED <<table, live, vmas, arg, idx, got, ret, loaded, lost>>

\* The loop ends at the first free slot, as if the table had no holes, and at
\* its limit; the result stays what it was.
LookupMiss(p) ==
    /\ pc[p] = "lookup"
    /\ idx[p] <= LookupLimit => start[idx[p]] = NoAddr
    /\ Goto(p, "answer")
    /\ UNCHANGED <<table, live, vmas, arg, idx, got, ret, loaded, lost>>

\* Mutant of LookupCopy: the loop goes on after a match.
LookupCopyGoesOn(p) ==
    /\ pc[p] = "copy"
    /\ got' = [got EXCEPT ![p] = handle[idx[p]]]
    /\ idx' = [idx EXCEPT ![p] = @ + 1]
    /\ Goto(p, "lookup")
    /\ UNCHANGED <<table, live, vmas, arg, ret, loaded, lost>>

\* The result of the search takes the place of that of the reading.
LookupCopy(p) ==
    /\ pc[p] = "copy"
    /\ \/ /\ got' = [got EXCEPT ![p] = handle[idx[p]]]
          /\ ret' = [ret EXCEPT ![p] = "ok"]
       \/ /\ ret' = [ret EXCEPT ![p] = "fault"]    \* copy_to_user fails
          /\ UNCHANGED got
    /\ Goto(p, "answer")
    /\ UNCHANGED <<table, live, vmas, arg, idx, loaded, lost>>

LookupReturn(p) ==
    /\ pc[p] = "answer"
    /\ Return(p)
    /\ UNCHANGED <<table, live, vmas, loaded, lost>>

----------------------------------------------------------------------------
(* rmmod and insmod.  Every VMA holds the open file, hence the module.     *)

Filled == {s \in Slots : start[s] # NoAddr}

Unload ==
    /\ loaded /\ vmas = {}
    /\ \A p \in Procs : pc[p] = "idle"
    /\ live' = live \ {handle[s] : s \in Filled}
    /\ start' = [s \in Slots |-> NoAddr]
    /\ handle' = [s \in Slots |-> NoBuf]
    /\ ref' = [s \in Slots |-> 0]
    /\ loaded' = FALSE
    /\ UNCHANGED <<vmas, pc, arg, idx, got, ret, lost>>

Load ==
    /\ ~loaded
    /\ loaded' = TRUE
    /\ UNCHANGED <<table, live, vmas, pc, arg, idx, got, ret, lost>>

----------------------------------------------------------------------------
Start(p) == MmapCall(p) \/ Split(p) \/ Fork(p) \/ Munmap(p) \/ LookupCall(p)

\* The steps of a call that has started: the kernel runs them to its return.
Mapping(p) ==
    \/ ScanTaken(p) \/ ScanFree(p) \/ ScanFull(p)
    \/ Alloc(p) \/ AllocFail(p)
    \/ RemapFail(p) \/ FillStart(p) \/ FillRest(p)

Releasing(p) == ReleaseFree(p) \/ WipeStart(p) \/ WipeRest(p)

Lookup(p) ==
    LookupNext(p) \/ LookupHit(p) \/ LookupMiss(p) \/ LookupCopy(p)
        \/ LookupReturn(p)

Continue(p) == Mapping(p) \/ Releasing(p) \/ Lookup(p)

Next == (\E p \in Procs : Start(p) \/ Continue(p)) \/ Unload \/ Load

Spec == Init /\ [][Next]_vars

\* At most one process is inside aclsoc_mmap or free_map_info.
Serial == \A p, q \in Procs : pc[p] \in MapPcs /\ pc[q] \in MapPcs => p = q

SerialNext == Next /\ Serial'
SerialSpec == Init /\ [][SerialNext]_vars

Fairness == \A p \in Procs : WF_vars(Continue(p) /\ Serial')
FairSpec == SerialSpec /\ Fairness

----------------------------------------------------------------------------
(* Properties.  Those of the first group hold of SerialSpec.               *)

\* The reference count of a slot is the number of VMAs that point to it, at
\* every step of every call (aclsoc_vma_open, aclsoc_vma_close, kref_init).
RefCounts == \A s \in Slots : ref[s] = Cardinality(On(s))

\* Memory that some process can still touch is never handed back to the
\* kernel: no munmap, exit, failed mmap or rmmod frees a buffer with a VMA.
MappedIsAllocated == \A v \in vmas : v.buf \in live

\* The slot that a VMA points to describes the buffer the VMA maps, so that
\* the last munmap frees that one and a lookup returns that one.
SlotDescribesItsVmas ==
    \A v \in vmas : start[v.slot] # NoAddr /\ handle[v.slot] = v.buf

\* A buffer is mapped through one slot only: separate mmap() calls never
\* give two callers the same physical memory.
NoAliasing == \A v, w \in vmas : v.buf = w.buf => v.slot = w.slot

\* A remap that fails is the only way to lose a buffer: when no mapping call is
\* in progress, every other buffer that is allocated has a VMA, whatever was
\* forked, split, closed or cut short before (free_map_info at the last close).
\* What the remap has lost stays lost, although rmmod means to free "all DMA
\* buffers [...] just in case the user forgot some" (aclsoc.c:449).
NoOrphans ==
    (\A p \in Procs : pc[p] \notin MapPcs) =>
        live = {v.buf : v \in vmas} \cup lost

\* The slot of v still carries the address that its process knows it by; a
\* mapping that was split off or moved has another.
Recorded(v) == start[v.slot] = v.addr

\* A lookup that answers the buffer of another mapping has met its address in a
\* slot before its own: it never runs past the recorded slot of the mapping it
\* was asked about, and what it takes from that slot is that mapping's buffer,
\* whatever is mapped, copied and wiped while it runs (aclsoc_exec_cmd, lines
\* 100 to 105, without a lock against aclsoc_mmap and free_map_info).
OwnSlotAnswers ==
    \A p \in Procs : pc[p] = "answer" /\ got[p] # NoBuf =>
        \A v \in At(p, arg[p]) : Recorded(v) => v.buf = got[p] \/ idx[p] < v.slot

\* A lookup gives up for three reasons only: the slot of its mapping does not
\* carry the address, it lies beyond the limit of the loop (128 of the 204
\* slots), or a slot below it is free at that moment.
MissIsExplained ==
    [][\A p \in Procs : pc[p] = "lookup" /\ pc'[p] = "answer" =>
          \A v \in At(p, arg[p]) :
              \/ ~Recorded(v)
              \/ v.slot > LookupLimit
              \/ \E s \in Slots : s < v.slot /\ start[s] = NoAddr]_vars

----------------------------------------------------------------------------
(* The refinement: the buffers and who maps them, without the table.       *)

UsersOf(b) == {<<v.proc, v.addr>> : v \in {w \in vmas : w.buf = b}}

PhaseOf(b) ==
    IF b \notin live THEN "free"
    ELSE IF UsersOf(b) # {} THEN "mapped"
    ELSE IF \E s \in Filled : handle[s] = b THEN "dying"
    ELSE "fresh"

SB == INSTANCE SharedBuffers WITH
        Users <- Procs \X Addrs,
        phase <- [b \in Bufs |-> PhaseOf(b)],
        users <- [b \in Bufs |-> UsersOf(b)]

\* The table of reference counts implements the promise of SharedBuffers.
ImplementsSharedBuffers == SB!Spec

\* A buffer whose last mapping has gone goes back to the kernel.
DetachedIsFreed == \A b \in Bufs : PhaseOf(b) = "dying" ~> b \notin live

=============================================================================
