# Verification of the OpenCL board package for Cyclone V SoC

TLA+ models of the Linux driver (`src/c5soc/driver`), of the FPGA interface
(`src/c5soc/c5soc/iface/ip`), of the programs that come with them and of the C++
wrapper of the OpenCL API (`cl.hpp`); TLC configurations that check them on
small instances; TLAPS proofs for every value of the constants.

## 1. Inventory

Two ARM cores run Linux, the driver module `aclsoc` and host programs.  The
FPGA beside them holds the interface design (the IPs of `iface/ip`) and the
OpenCL kernels.  Host and driver talk over a character device; the driver and
the FPGA over two bridges (control registers, data window) and one interrupt;
host and FPGA share DMA buffers, physically contiguous memory that the driver
allocates.  A host is written against the OpenCL runtime, a prebuilt library,
in C or through the wrapper.

| Component | State it keeps | Operations | What makes it hard |
|---|---|---|---|
| DMA buffer table (`aclsoc.c`, `aclsoc_cmd.c`) | `addr_map`: start, handle, reference count of each slot | mmap, VMA open (fork, split, move), VMA close, `GET_PHYS_PTR_FROM_VIRT`, unload | no lock between processes; allocation sleeps between the scan and the store; last user frees; lookup while slots change |
| Kernel-done interrupt (`aclsoc_irq`, `init_irq`, `release_irq`, `irq_ena.v`) | enable register, handler registration, `user_task`, `signal_info` | handler, SET_SIGNAL_PAYLOAD, ENABLE_KERNEL_IRQ, SAVE, LOAD, open, close | the handler runs beside the calls and takes no lock; mask and unmask are on different cores; signals can fail; hosts can die |
| Read and write (`aclsoc_fileio.c`) | semaphore, bounce buffer | request copy, dispatch by bar, bounds check, small and chunked copies, open, close | one buffer for all callers; faults half-way; signals to sleepers; edge sizes |
| Module load and unload (`aclsoc.c`) | the static pointer, what has been acquired | probe with nine steps that can fail, remove | the node is live before the regions are mapped; failures are ignored by `aclsoc_init` |
| Reprogramming tool (`reprogram.c`) | its place in the protocol, the file | file to image, save, bridges down, program, bridges up, load | must work from whatever a host left behind; failures go unnoticed for a while |
| Host programs (runtime and HAL are prebuilt) | their place in the protocol | open, payload, enable, launch, signal handler, close | any of them can be killed |
| Tester (`user.c`), diagnostic (`diagnostic.c`) | what they wrote; the objects they created | write and read back; create, use, release | other programs; any call can fail |
| OpenCL wrapper (`cl.hpp`) | one handle per wrapper object, `cl::vector`, functors | copy, assign, destroy, query, create, enqueue, functor call | reference counts by hand; arguments that belong to a shared kernel object |
| Memory router (`mem_splitter`, `mem_router_reorder`, `acl_iface_ll_fifo`, `acl_iface_address_to_bankaddress`, `mem_org_mode`) | bank-select FIFO, one data FIFO and credit counter per bank, acknowledge counters, mode | every clock | banks answer in any order and together; credits; mode switched under way |
| Snoop adapter, software reset, PLL reconfiguration | FIFO margin, counter, state machines | every clock | margins and handshakes of parts that are not in the sources |
| SGDMA dispatcher, read and write master | descriptor queues, control register, interrupt mask; of each master its command, counter, FIFO, stop and reset flags | every clock; host accesses to descriptors, control and status | two masters that go on at their own pace; stop and reset in the middle of a transfer; registered requests on a bus that cannot be held up |
| Memory window, PCIe bridge, status IPs, scripts, OpenCL headers, `c5soc_sharedonly` | little or none | | the last holds identical copies of the IPs |

The driver and its tools are in the tree twice: the copies under
`src/sd_card/.../board/c5soc/driver` are identical to those in `src/c5soc/driver`,
and the models stand for both.

What makes each component correct:

- *Table*: a count is the number of VMAs on its slot; what is mapped is
  allocated, described by its slot and mapped by nobody else; what nobody maps
  goes back; a lookup takes nothing but its own buffer from the slot of its mapping, and
  misses it only for reasons that can be named.
- *Interrupt*: a signal is for the kernel of its receiver; the line is never up
  without a handler nor masked without somebody who will unmask it; registers
  are touched only behind open bridges; every kernel is dealt with.
- *Read and write*: what a call reports is what it has done; nothing outside the
  region is touched; transfers do not mix in the bounce buffer; every call
  returns; a call finds the device it was made on; rmmod gives everything back.
  Where the code does not keep this, the properties say how far it does.
- *Tool*: it leaves the handler and the bridges in place, whatever fails, and
  reports success only of a configured FPGA.
- *Wrapper*: the count of an object is the number of handles to it; no wrapper
  holds a dead handle; the damage of `cl::vector` stays with its elements.
- *Router*: each word comes back once, in the order of the requests, from the
  place of its address; no FIFO overflows; nobody is stalled for ever.
- *SGDMA*: every word that is written is the next one of its own transfer; no
  returning word meets a full FIFO; an interrupt is that of its own transfer; every
  transfer, stop and reset comes to its end, and a reset takes what was under way
  with it.

`PROJECT.json` lists every component with its status, and under "hazards" the
places in the code where these can go wrong.

## 2. Modules

| Module | Models | Notes |
|---|---|---|
| `AddrMap` | `aclsoc_mmap`, `aclsoc_vma_open`/`_close`, `free_map_info`, `free_contiguous_memory`, GET_PHYS | one action per step that another process can see |
| `SharedBuffers` | nothing: the promise of mmap() | `AddrMap` is shown to implement it |
| `KernelIrq` | `irq_ena.v`, `aclsoc_irq`, open, close, interrupt commands | actions used by `HostSession` |
| `ImageFile` | the way from the tool's argument to an image | used by `HostSession` |
| `HostSession` | hosts, `reprogram_with_rbf`, kills, exits, failing transfers | composes the programs with `KernelIrq` |
| `ModuleLife` | `aclsoc_init`, `aclsoc_probe`, `aclsoc_exit`, `aclsoc_remove` | used by `RwPath` |
| `RwPath` | `aclsoc_open`, `_close`, `_read`, `_write`, `aclsoc_rw` and the copies | composes the calls with `ModuleLife` |
| `Tester` | `user.c` on `RwPath`, beside any other program | |
| `ClRuntime` | nothing in the tree: the contract of the OpenCL objects | external |
| `ClHandles` | the wrapper objects of `cl.hpp`, `cl::vector` | operators on the places that hold a handle |
| `ClPrograms` | programs on the wrapper, functors in threads, `diagnostic.c` | composes the programs with `ClHandles` |
| `LlFifo` | `acl_iface_ll_fifo.v` | operators on a FIFO's registers |
| `MemRouter` | `mem_splitter.sv`, `mem_router_reorder.sv`, bank addresses, `mem_org_mode.v` | one action per clock |
| `InOrderMemory` | nothing: the promise of one memory port | `MemRouter` is shown to implement it |
| `Descriptors` | descriptors and words of the SGDMA | used by the next four |
| `ReadMaster` | `read_master.v`, `read_burst_control.v`, `MM_to_ST_Adapter.v` | one operator per register or condition |
| `WriteMaster` | `write_master.v`, `ST_to_MM_Adapter.v` | the same |
| `Dispatcher` | `dispatcher.v`, `descriptor_buffers.v`, `fifo_with_byteenables.v`, `csr_block.v` | the same |
| `Sgdma` | the three blocks between two memories and a host | composes them, one action per clock |
| `MCAddrMap`, `MCTester`, `MCClPrograms`, `MCMemRouter`, `MCSgdma` | constants for TLC | |
| `AddrMap_proof`, `SharedBuffers_proof`, `HostSession_proof`, `HostSignal_proof`, `Tester_proof`, `ClPrograms_proof`, `MemRouter_proof`, `Sgdma_proof` | theorems | |

### AddrMap

`start`, `handle` and `ref` are the fields of `addr_map`, an empty slot having
`NoAddr` (0) in `start`.  `live` is what `dma_alloc_coherent` has handed out,
`vmas` the kernel's VMAs of the device with their slot (`vm_private_data`) and
the buffer their pages map.  `pc`, `arg`, `idx`, `got` are the place and the
locals of the call a process is in.  The loop of `aclsoc_mmap` is `ScanTaken`,
`ScanFree`, `ScanFull`; then come `Alloc` or `AllocFail`, `RemapFail` or
`FillStart` and `FillRest`: the store of `vm_start` reserves the slot, the rest
follows.  `RemapFail` drops the buffer, as the code does; `lost` remembers which,
for the properties only.  A lookup copies its argument in (`LookupCall`), walks up
to `LookupLimit` slots (`LookupNext`, `LookupMiss`) and copies its answer out
(`LookupCopy`); either copy can fail, and `ret` is what the call returns.  A failed copy
of the argument leaves an arbitrary address, as the code goes on with what was on the
stack.  `Munmap` is `kref_put`; the last one goes on to `ReleaseFree`,
`WipeStart` and `WipeRest` (the `memset`, `vm_start` being the first field).
A move of a mapping is a `Split` followed by a `Munmap`.  The size of a buffer
is abstracted: no step depends on it.

The kernel serialises the calls within one address space, and nothing serialises
those of different ones.  `Spec` has every interleaving.  `SerialSpec` keeps
mapping calls of different processes apart, while lookups still interleave
with them; most of what the table promises holds only of `SerialSpec`, and
`addrmap_overlap` shows what happens otherwise.

### KernelIrq, ImageFile and HostSession

`ena` is `ena_state`, `Line` the output of `irq_ena`.  The handler is three
steps: it is entered, it masks, it sends; the other core can act in between.
`sem` is the device's semaphore.  A call that touches the shared state once is
one step that finds the semaphore free (`Brief`); open, SAVE and LOAD hold it
over several (`Enter`, `Leave`).  SAVE is `mask_irq`, `free_irq` (no new
handler, then wait for a running one) and `mask_irq`.  LOAD with a handler in
place fails in `request_irq` and is reported as a success.  A signal goes to
`inbox` of the task, unless the task is dead or ignores signal 44, as the tool
does; for processes in `MayMiss` `send_sig_info` may instead return an error.
SET_SIGNAL_PAYLOAD stores what it has read or, when the copy fails, whatever the
variable has held (`SetPayload`); a host that gets the error tries again
(`NameFails`).

Hosts are external: the order of their calls is what the exports header, the end
of `aclsoc_irq` ("Unmasking interrupts will be done by the host when it deals
with the current one") and the tester ask for.  `Crash` kills a host between two
calls, `Start` begins a new process in place of one that nothing refers to.
`orderly` records that nobody was killed and no signal failed since the device
was last programmed with no signal pending; only properties read it.

The tool first looks at its file (`ToolUnpack`): `ImageFile` has the three kinds
of files and what can go wrong with each, in the order of the code.  A file of
another kind leaves `ret` without a value ("unset"), an uninitialised variable.
The transfer can fail before it begins or after the FPGA was erased
(`ToolTransferFails`); the tool goes on to the bridges and to LOAD all the same,
as the code does, and finds out from the status of the FPGA manager at the end
(`ToolReport`).  LOAD then writes a register of an FPGA without a design: in the
model the write is lost; on the hardware it may hang or abort, which the sources
do not tell.  Hosts are not started on such an FPGA.

### ModuleLife, RwPath and Tester

`life` is the step insmod or rmmod takes next, `held` what the module holds,
`aclsoc` the static pointer, `size` the sizes of the mapped regions.  Each step
of the probe is one action, its failure another that gives back what the error
labels give back.  `aclsoc_init` ignores a failed probe, so the module counts as
loaded; rmmod then goes on as if it had succeeded, and "oops" is where the kernel
stops it.  Three failures are not even noticed by the probe: the table (`Tables`) and
the two regions (`MapRegion`), whose sizes are stored all the same.  The register that
unmasks the interrupt is then not there: insmod ends in "stuck", rmmod in "oops".  Unregistering an invalid device number (`aclsoc.c:153`) has no effect
in the model.

A call of `RwPath` waits for the semaphore (a FIFO queue, from which a signal
takes a sleeper out), then goes through `pc`: the request copy, the dispatch, the
bounds check, and either one copy of 1, 2 or 4 bytes or chunks through the bounce
buffer, device word by device word.  `frame` is the stack of the call.  The end of
the transfer is added modulo `Width`, as the code adds `size_t`.  A write of two
bytes goes on into the four-byte case (`Written`).  A transfer or a command that goes to a
region that is not mapped (yet), and a lookup or an mmap() without a table, take their
process out in the driver (`Die`), with the semaphore if it has it: nobody gets it any
more.  Data is a record of where it
came from, so "the right data" is checked without values.  `was` and `touch`
are read by properties only.  The tester is a process that writes, reads back and
compares; a program beside it asks for anything in `Asked`.  The tester opens
`/dev/acl` while the driver creates `acl0`: a link is taken as given.

### ClRuntime, ClHandles and ClPrograms

`ClRuntime` is the contract of the runtime: objects with counts and needs, calls
that fail on dead handles, commands in flight that keep what they work on.  The
places that hold a wrapper (`Holders`) are variables, elements of a `cl::vector`,
the two members of a functor, and the raw handles of the diagnostic program.
Every constructor, copy, assignment, destructor and query of the wrapper is an
action that changes `wrapper` and the counts in one step; a functor call is several
(`setArg` by `setArg`, then the launch), between which other threads act, also by setting
an argument of the same kernel: a launch takes what was set last.  A copy of
an iterator is one copy; a temporary is a place that is filled and emptied by the
action that uses it.

`surplus` counts, for each object, the references without a handle (or, when
negative, the handles without a reference): some places of the wrapper lose one
or give one up twice (`cl.hpp:773` an answer written over a handle,
`cl.hpp:2548` the array of `createKernels`, `cl.hpp:476` and `:489`
`cl::vector` with its `pop_back` and `memcpy`).  These are modelled as they are;
`CountsMatchHolders` says that there is no other such place.  `VectorKinds` are the kinds
of objects that the program keeps in a `cl::vector`; with none, it is a program
whose vectors are `std::vector`, the default of `cl.hpp`.

### MemRouter

`Clock(ready, replies, shown)` is a rising edge: the inputs are the banks that do
not wait, those that return a word and the data FIFOs that show their head (an
`scfifo` with output register shows a word some cycles after it was written).
Each register has an operator of its own for its next value.  A word of data is
the place it comes from, so "the right data" is a statement about addresses.
`mode` may change in any cycle.  Writes are modelled beat by beat and without
data; the numbers of banks, words and stripes are powers of two in the hardware.

The divider (`bsp/acl_memory_bank_divider_hw.tcl:108`) instantiates the splitter
only when `NUM_BANKS` is above 1.  The shipped system has one bank: what is shown
of the router is about boards that are derived from this one.

### SGDMA: ReadMaster, WriteMaster, Dispatcher and Sgdma

`Cycle(access, readWaits, writeWaits, returns)` is a rising edge of the clock that
the three blocks share: the inputs are the host's access in this cycle, the
waitrequests of the two memories, and whether the read memory returns a word.  The
registers of the masters are the fields of `rd` and `wr`; those of the dispatcher
are variables.  `head` is the latency of the queue's RAM: what a master is offered
(`Command`) was at the head two cycles ago, and it is valid when the queue has been
occupied all the time (`CommandValid`).  Data is, as in the router, the place it
comes from: its descriptor and its index.

The blocks are modelled with the defaults of the components: memory to memory
(`MODE` 0), whole aligned words, no bursts in the writer, and without the response
port, as `dispatcher.v:142` recommends for every mode but one.  The dispatcher takes
the responses of the masters at once, since its inner port for them is always ready
(`dispatcher.v:363`).  The words that return while the read master flushes go into the FIFO like any
other (`MM_to_ST_Adapter.v:368`).  Two details are left out: the output register of the two
masters' FIFOs (`read_master.v:580`, `write_master.v:600`), which shows a word some cycles
after it was written where the model shows it in the next, and
`BURST_WRAPPING_SUPPORT` (`read_burst_control.v:84`), which shortens the first burst
of a transfer when bursts are enabled.  Neither takes a word or a request away, and
the bound of the FIFO is one of the longest burst.

The host is external.  It makes at most one access in a cycle and fills in a
descriptor again only when nothing of its transfer is left (`InUse`), otherwise a
word could not be attributed.  `Hosts` are the kinds of hosts, `Accesses` what each
of them does, `host` the one that is there.  `wr.finished` is read by properties
only.  No system of the repository instantiates the blocks: what is shown is about
designs that do.

## 3. Runs

| Run | Specification | What it checks | States |
|---|---|---|---|
| `addrmap_serial` | `FairSpec` | types, counts, no use after free, no aliasing, nothing lost but by a failed remap, what a lookup can answer and why it can miss, refinement of `SharedBuffers`, `DetachedIsFreed` | 595,080 |
| `addrmap_overlap` | `Spec` | finds `MappedIsAllocated` violated | |
| `host_session` | `FairSpec` | signals, masking, bridges, handler, the tool and its failures, `KernelIsDealtWith` | 9,560 |
| `host_dead` | `Spec` | finds `NoSignalToDead` violated | |
| `host_lost` | `FairSpec` | finds `LevelStaysHigh` violated | |
| `rw_path` | `Spec` | bounce buffer, outcome of calls, the tester, region, device and module, with every step of the probe failing | 1,077,140 |
| `rw_returns` | `FairSpec` | `CallsReturn` | 435,436 |
| `cl_programs` | `Spec` | counts, dangling handles, the diagnostic program | 138,808 |
| `router_order` | `Spec` | types, both kinds of credits, streams, select FIFO, refinement of `InOrderMemory` | 421,888 |
| `router_progress` | `FairSpec` | `RequestsAreServed` | 25,188 |
| `sgdma` | `FairSpec` | room for reads, own data and interrupt of each transfer, `HostIsServed`, `ResetEndsWrites` | 23,022 |
| `sgdma_reset` | `FairSpec` | finds `ResetEndsAll` violated | |

Bounds, and why they are enough:

- `AddrMap`: two processes, two addresses that both can get, two slots and three
  buffers.  Two processes are what a race needs; equal addresses are what the table
  cannot tell apart; two slots make the table full and a hole below a mapping
  possible; three buffers let one be reused while another is held or lost.  The limit
  of the lookup is the size of the table here (128 of 204 in the code): a miss by the
  limit is left to the theorem, which is about every limit.
- `HostSession`: two hosts (one whose signals can fail), the tool, kills of
  either host; one program has the device open at a time.  The exits and starts
  of processes let the sequence of sessions go on without bound, and no counter
  needs a cap: an inbox never grows, since the interrupt stays masked until its
  signal has been dealt with.
- `Tester`: one tester and one other program.  Two callers are what a shared
  buffer and a semaphore need.  The window has 12 cells from cell 12, the buffer 8:
  the tester's transfer of 12 has a full chunk and a rest, one of 11 a rest that is
  no whole word.  The other program asks for sizes 0, 1, 2, 4, 8 and 11, for the
  last cells of the window and beyond, for memory that ends in the middle, for
  an end that wraps around (`Width` is 64), and for every command.  In `rw_path` every
  step of the probe can fail, the table and the regions included; in `rw_returns` the
  two regions may stay unmapped.
- `ClPrograms`: two variables, two vectors of one kernel (the only kind in a
  `cl::vector`: the others are those that must not be harmed), two threads with a
  functor each, one object of each kind but two buffers; at most 6 handles held
  (`MaxHeld`), 3 references to an object (`MaxOwn`), and one object at a time whose
  count is off (`MaxOff`) by one (`MaxSurplus`).  Without the last two bounds a
  program that goes on leaking has no end; one leak is enough to show whether an
  action keeps the books.  A name is used again when nobody knows it any more.
- `MemRouter`: two banks of four words, bursts of one and two, data FIFOs of
  five entries.  In `router_order` one burst goes to bank 0 in both modes while
  the other requests change banks with the mode; five entries and two-word bursts
  fill the FIFO and the select FIFO.  `router_progress` has one kind of request,
  the longest burst, which is the one that needs most room.  Of the inputs `ready`
  and `shown` only one bank matters in any cycle, so all or none stand for every
  subset; `replies` is any subset.
- `Sgdma`: descriptors of three words for the host that copies, no bursts.  The
  read FIFO has the four words that the code asks for (four bursts, `ReadDepth`),
  the write FIFO one, so two transfers fill both and the reader is one transfer
  ahead of the writer.  Queues of two descriptors are full and empty.  The copying
  host has two descriptors, one with an interrupt, and queues them again without
  end.  The controlling host has one parked descriptor of two words, so that a
  transfer is always under way or about to begin when a stop or a reset comes, in
  any cycle and any number of times.

Each module states its types (`TypeOK`); the runs check those of `AddrMap`,
`HostSession` and `MemRouter`.  Those of the SGDMA and of `ClPrograms` are proved, and of
those of `RwPath` what the other proofs of the path need (`TypeInv`).

Deadlock is checked but in three runs.  In `rw_path` and `rw_returns` the kernel can
stop an insmod or an rmmod ("stuck", "oops") and processes in the driver, and nothing
more happens to the device; in `cl_programs` the diagnostic program ends.

Symmetry: `cl_programs` permutes variables, vectors and threads; it checks no
liveness.

Fairness.  `AddrMap`: a system call that has started is run to its end by the
kernel's scheduler; nobody has to start one.  `HostSession`: an interrupt that is
raised is taken, a kernel that runs ends, and a host in the middle of its
protocol goes on unless it is killed; nobody has to open, launch or finish.
`Tester`: a process inside the driver goes on (`InDriver`); the queue of the
semaphore is first come, first served, as in the kernel.  `MemRouter`: a bank does
not assert waitrequest for ever, returns every word it was asked for, and a data
FIFO shows what it holds (contracts of Avalon and of `scfifo`).  `Sgdma`: the
clock runs on and the host leaves it a cycle without an access now and then
(`Tick`), a memory accepts a request that stays (`Read`, `Write`) and returns what
it was asked for (`Return`).  All fairness is weak.

### What the violated properties say

- `addrmap_overlap`: two mmap() calls at the same time choose one slot
  (`aclsoc.c:410`); the first munmap then frees a buffer that is still mapped.
- `host_dead`: close does not forget `user_task` (`aclsoc_fileio.c:188`); after a
  kill the handler signals a task that is gone.
- `host_lost`: the handler masks before it sends (`aclsoc.c:210`); when the signal
  fails, the level that the comment counts on is gated off.
- `sgdma_reset`: the reset ends when the write master has taken it, unless the read
  master flushes by then (`dispatcher.v:385`); a read master whose request waits on the
  bus does not flush (`read_master.v:425`) and reads on, although the reset is said to
  clear "all the registers for the entire SGDMA" (`csr_block.v:49`).  `ResetEndsWrites` is
  what does hold: the transfer of the write master is gone.

Seen on the way, in the models but without a run of their own:

- A failed `remap_pfn_range` loses the buffer for good (`aclsoc.c:434`), although rmmod
  means to free "all DMA buffers [...] just in case the user forgot some"
  (`aclsoc.c:449`).  `NoOrphans` says that this is the only way to lose one.
- The lookup compares addresses and not processes (`aclsoc_cmd.c:101`): with equal
  addresses it answers the buffer of the other process.  It also stops at the first free
  slot, and at entry 128 of 204, and the command still returns 0.  `OwnSlotAnswers` and
  `MissIsExplained` say that it goes wrong in no other way.
- The table comes from a `kzalloc` that nobody looks at (`aclsoc.c:476`): without it the
  first mmap() or lookup, and rmmod, read through NULL.
- The node is live before the control region is mapped (`aclsoc.c:483`): an ENABLE, LOAD
  or SAVE in between writes through NULL with the semaphore held, and so does a
  transfer after a failed `ioremap` of the data region, since the check compares with a
  size that is stored all the same (`aclsoc.c:500`).
- The end of a transfer is an unsigned sum (`aclsoc_fileio.c:77`): one that wraps around
  passes the check.  A write of two bytes has no break before the case of four
  (`aclsoc_fileio.c:271`) and overwrites its two neighbours, also behind the region.
  `InRegion` and `OutcomeMatchesData` hold of the rest and bound the second to the two cells.
- With a `cl::vector` a variable can be left with a dead handle: push_back, pop_back and
  the end of the vector release a kernel twice for one element (`cl.hpp:476`).
- Two functors on one kernel object can set each other's arguments before the launch
  (`cl.hpp:3430`); nothing promises that they do not.
- The tester says that its mapping has to be freed by hand (`user.c:222`), while
  the driver frees it at munmap or exit.
- With a burst limit above `BANK_MAX_PENDING_READS + 3` the router never accepts a
  read (`mem_router_reorder.sv:205`), although any positive value is admitted.
- The write FIFO of the SGDMA is popped whenever the bus does not wait
  (`ST_to_MM_Adapter.v:156`), also while the master is stopped and writes nothing:
  after a stop and a resume in the middle of a transfer a word can be missing.
- When all words were requested before a reset and the last one returns as the
  flush ends, the response that makes the read master ready again is suppressed
  (`read_master.v:496`); it accepts no command any more, also after further resets.
- The reader can repeat a parked descriptor more often than the writer, so that
  the writer of the next one gets words of the parked one.

The last three are why `TransfersAreOwn` and the part of `HostIsServed` about
transfers are stated for hosts that are `Orderly`: they neither stop nor reset and
park nothing.

## 4. Proofs

TLAPS proves these for every value of the constants that the named assumptions
allow.

**AddrMap_proof** (of `SerialSpec`): `TypeCorrect`, `RefCountsCorrect`,
`MappedMemoryIsSafe`, `MappingsAreSeparate`, `SlotsStayTrue`.  The counts alone are
not inductive: a call in progress owns a slot or a buffer that the table does not
show yet.  `IInv` adds that at most one process is inside a mapping call (`Serial`),
that VMAs are finitely many, and for each place of a call what it owns (`LocalInv`:
a slot still empty and without VMAs, a buffer allocated but mapped by nobody, a slot
of count 0 being released).  `InitIInv` and `NextIInv` establish it, one lemma per
action that changes the table.  `CopiesCount` gives the cardinality a fork needs.
Failures of the allocation and of the remap are included.

**SharedBuffers_proof**: `TableImplementsSharedBuffers`, the refinement, and
`NothingElseIsLost` (`NoOrphans`), failing remaps included.  `SlotInv`
adds to `IInv` what the phases of `SharedBuffers` depend on: a free slot has no
handle, a slot in use has a mapping or a call that works on it, and every allocated
buffer has an owner.  There is one lemma per action: which step of
`SharedBuffers` it is, or that it is none.

The same module proves two statements about lookups, for any addresses, shared or not,
any limit of the loop and failing copies.  `LookupsReachTheirOwn` (`OwnSlotAnswers`) says
that a lookup takes nothing but the right buffer from the slot of its own mapping and
never goes past that slot; `MissesAreExplained` (`MissIsExplained`) names the three
reasons of a miss.  Both rest on `NotPassed`: as long as the slot of the mapping carries
its address, the lookup has not gone past it, whatever happens to the other slots
(`RecordedStays`).

**HostSession_proof**: `ProtocolInv`, `TypeCorrect`, `LineAlwaysClaimed`,
`RegistersAreReachable`, `ReprogrammedIsReady`, `ToolsLeaveInOrder`, for any number
of hosts and tools.  `IInv` says where each program is, what its call has done
(`CallsMatchSteps`), that only a tool between `free_irq` and `request_irq` has taken
the handler away (`HandlerInv`), that the bridges are down and the FPGA empty only
for it (`DeviceInv`), and what a transfer has left behind (`TransferInv`).

**HostSignal_proof**: `SignalsReachTheirHost`, `MaskIsAlwaysOwed`,
`HandlerFindsItsTask`.  `OrderInv` follows a kernel from its launch to the host that
deals with it: a kernel that runs or is done has its host (`KernelInv`), the handler
runs before the signal (`RunningInv`), the signal waits while the line is masked
(`WaitingInv`), a host that has taken it is alone with its kernel (`DealingInv`).
All of it holds while `orderly` does; a tool re-establishes it by erasing the FPGA
(`ToolEraseOrders`), and while a tool has the device nothing of a host is left
(`ToolAlone`).

**Tester_proof**: `PathInv`, `DeviceOutlivesCalls`, `NothingIsLeftBehind`,
`BufferIsNeverShared`, `TransfersStayInside`, for any number of programs and any
requests.  `IInv` consists of types, the semaphore (`LockInv`), what is held at each
step of insmod and rmmod (`LifeInv`), the progress of a call in whole words and
single cells (`WorkInv`), the bounce buffer, and the last access (`TouchInv`).
`QuietStep` and `InsideStep` are the two frames of the case analysis: a step of
a call that does not hold the semaphore, and one that does.
`OutcomesAreTrue` (`OutcomeMatchesData`) and `TestersPass` (`TesterPasses`) are
about the data.  `DataInv` adds to `IInv`, for every call, what has reached its
destination so far, chunk by chunk and cell by cell (`MovedInv`), what is true of
its outcome once it is about to return (`LeftInv`), and that the memory of a writer
holds nothing that could not be copied (`CleanInv`); and for every tester what the
device and its memory hold at the stage it has come to (`StageInv`), as long as no
other program has written to the device (`alone`).  Between filling and emptying, the
bounce buffer is nobody else's: `BufferIsNeverShared` supplies that.

**ClPrograms_proof**: `ClTypes` (`TypeOK`), `EveryHandleIsCounted`
(`CountsMatchHolders`), `VectorsHarmTheirOwn` (`DamageIsContained`), `NoHandleDangles`
(`HandlesAreAlive`, for programs without `cl::vector`) and `DiagnosticGivesBack`
(`DiagnosticFreesAll`), for any objects, places, threads
and elements.  The counts need more than themselves.  `Core` has the types, that
objects need only objects that come before them (`Shape`, by ranks, so that freeing one object
reaches finitely many others) and that the count of every object is the number of
its handles, of the objects that need it, and of its surplus (`Sound`).  By `ElementsInv`
a `cl::vector` holds objects of its kinds only, by `FunctorInv` a functor has a kernel and a
queue or neither, by `CallInv` the arguments that a call has been given are there, and by
`DiagnosticInv` the
diagnostic program has the handles of the line it is at and no others.  `LedgerChange` and `NewChange` say once how the books change when a place
gets another handle and when an object is created; each action is then one lemma
that names the places it changes.

**Sgdma_proof**: `RoomForReads` (`ReadsHaveRoom`) and `SgdmaTypes` (`TypeOK`), for
every length, burst and depth, and whatever the host and the memories do, stops and
resets included.  The room is not inductive: the read request is a register, so it
is still up in the cycle after the FIFO is found crowded.  `IInv` adds
`RequestHasRoom`, that a request on the bus has room for a whole burst; `StepRoom`
is the arithmetic of the margin of two bursts, `ReaderStep` what an edge does to
the counts and types of the read master, `WriterTypes` and `DispatcherTypes` the
same for the other blocks.  The bound of the write FIFO, which `TypeOK` contains, is the
handshake between the two masters.

`TransfersKeepTheirOwn` (`TransfersAreOwn`), for hosts that are `Orderly`, needs to know
what lies between the two masters.  `Between` says it with numbers: before the
writer are n transfers, before the reader the last m of them; `off[k]` words are
between the writer and the transfer k, consecutive offsets differ by the length of a
transfer, the words on their way are those that the offsets name, and their number is
that of what the reader has asked for and the writer has not written.  The offsets are
a witness, not a sum, so no induction over the queues is needed.  `ReadInStep`,
`WriteInStep` and `PushInStep` keep it when the reader asks for a burst, the writer
writes a word and the host queues a descriptor, all of which can happen in one cycle
(`FlowStep`).  `LineFlows` and `ListFlows` say that the movements between the three FIFOs
and from a queue into a master leave the line of words and the list of transfers as
they were.  `PaceInv` is why the command that a master takes is the head of its queue,
although the RAM shows it two cycles late: a master that is ready has been done for a
cycle, and since then its queue has lost no head.  `MaskInv` is the interrupt.

**MemRouter_proof**: `LlFifoIsFifo` shows that the one-hot pointer and the moving
registers of `acl_iface_ll_fifo` compute Append and Tail for any depth and any
content.  `DataFifosNeverOverflow` (`Credits`) and `SelectFifoIsAFifo`
(`SelectFifoIsSound`) follow from `RouterInv`: types, credits and the one-hot
pointer together.  A read needs all of its credits before it is accepted
(`AcceptedHasRoom`), and each register's step has a lemma.  `AcknowledgesAddUp`
(`WriteCredits`) needs that every address is in exactly one bank (`PlaceInBank`),
in either organisation.  `PlacesAreDistinct` goes further: no two addresses have
the same place; it is div and mod only, in small steps.

`StreamsStayInOrder` (`StreamsMatch`), `RouterTypes` (`TypeOK`) and
`RouterIsOneMemory` (`ImplementsInOrderMemory`, the refinement) are about the words
themselves.  What each bank's line holds does not say which bank's turn it is, so
`FlowInv` has two halves.  By `Lined`, the data FIFO of a bank and after it what the
bank still returns are the words that are owed from it, word for word.  By `Shared`,
the turns in the bank-select FIFO cut what is owed into consecutive runs, each of one
bank and as long as its burst; the first run has lost the `counter - 1` words that
came back already.  As in the SGDMA, the borders of the runs (`off`) are a witness and not
a sum.  Hence while a word is returned it is the first one owed, and no other
data FIFO is read (`FrontWord`); with `OutStep` every clock is a step of
`InOrderMemory` or a stutter (`NextMapped`).  `LineStep` and `TurnStep` keep the
two halves when a word comes back, banks answer and a burst is accepted, all in one
clock; the second takes the bank-select FIFO to be what `LlFifoIsFifo` says.  A place in a line is found by
counting (`FromBank`): the facts about counts (`RankStep`, `RankWithin`, `RankOfRun`)
are proved by a least counterexample (`LeastNumber`), which needs no induction
theorem with an operator parameter.

The assumptions are `SlotsAssumption`, `ValuesAssumption`, `MayMapAssumption`,
`SharingAssumption` of `AddrMap`; `ProcsAssumption` and `CrashAssumption` (a tool is
not killed) of `KernelIrq` and `HostSession`; `LifeAssumption`, `PathAssumption`
(the window is in the region, a region is at most half of the address space),
`MarksAssumption` (the marks on data are no processes), `RequestAssumption` and
`TesterAssumption` (a transfer of the tester fits into its memory and into the window:
the largest of `user.c` has 3 * 4096 bytes, the window 0x10000) of the
read and write path; `RuntimeAssumption` and `PlacesAssumption` (every place is one
variable of the program, and there are finitely many) of the wrapper;
`SizesAssumption` and `RequestsAssumption` of `MemRouter` (bursts stay within their
stripe, which the slave port declares); `DescriptorsAssumption` (no transfer is
empty), `ReadMasterAssumption` (the FIFO has at least four bursts, as the component
requires), `WriteMasterAssumption`, `DispatcherAssumption`, `SgdmaAssumption` of
the SGDMA.  TLC evaluates them in every run.

Only model-checked: liveness (`DetachedIsFreed`, `KernelIsDealtWith`, `CallsReturn`,
`RequestsAreServed`, `HostIsServed`), since fairness and ENABLED are out of the
prover's reach.  Every other property of a passing run is stated by a theorem.
What a recursive definition computes for every input could not be proved
(no induction over data); none is used.

## 5. Not modelled, and why

- DMA in the driver: disabled (`USE_DMA` and the branches it guards are never
  taken), and the memory-window segment is never written (`aclsoc_fileio.c:119`).
- SGDMA: the response port, unaligned accesses, packets, strides, bursts of the writer and the
  streaming modes with their errors and early termination (all off by default), and
  the counters of the status register, which count what the models show anyway.
- Snoop adapter: its margin is right or wrong by the latency of the generated
  interconnect and of the vendor's dual-clock FIFO, which are not in the sources.
- Software reset, PLL reconfiguration: nothing in the repository writes or starts
  them; the second is a vendor IP around a hard block.  Clock, version, temperature
  and similar IPs: one register or none.
- Overlapping sessions of two hosts: the check against a second opener is compiled
  out (`aclsoc_fileio.c:154`), so the driver allows them, and nothing says what
  should happen; the second opener takes the signals of the first.
- A tool that is killed: nothing in the code puts back what it has taken away.
  Bridge commands (`system()`) that fail: their result is not looked at.
- `cl.hpp`: `cl::string`, ranges, error strings, sizes and flags of the calls; the
  OpenCL headers are declarations.
- The tester's timing loops and what programs print.
- Scripts, generated systems, binaries and documents.

## 6. What is left

In the order of what it would add:

1. The streaming modes of the SGDMA, with errors and early termination.
2. A fair version of the refinements, when the prover has rules for fairness.
