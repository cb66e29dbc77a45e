------------------------- MODULE HostSession_proof -------------------------
(***************************************************************************)
(* Proofs about HostSession: the order of the tool's protocol keeps the    *)
(* handler, the interrupt line, the bridges and the device apart, for any  *)
(* number of hosts and tools, whichever hosts are killed or miss signals.  *)
(***************************************************************************)
EXTENDS HostSession, TLAPS

\* One program has the device open at a time.
Solo == \A p, q \in Procs : step[p] # "out" /\ step[q] # "out" => p = q

\* Where a program is tells which call it is in; nobody dies inside one.
CallsMatchSteps ==
    \A p \in Procs :
        /\ call[p] = "open" <=> step[p] = "opening"
        /\ call[p] \in {"unhook", "sync"} <=> step[p] = "saving"
        /\ call[p] = "load" <=> step[p] = "loading"

\* The tool is between free_irq and request_irq.
Unhooked(p) ==
    \/ step[p] = "saving" /\ call[p] = "sync"
    \/ step[p] \in {"saved", "isolated", "erased", "loaded", "restored"}

\* The handler is out of the way before the bridges go down, and nothing can
\* raise the interrupt until it is back.
HandlerInv ==
    /\ handler <=> \A p \in Tools : ~Unhooked(p)
    /\ ~handler /\ irqPc # "off" => \E p \in Tools : step[p] = "saving"
    /\ ~handler /\ ena => ~done /\ ~running
    /\ \A p \in Procs : call[p] = "unhook" => ~ena

\* The bridges are down, and the FPGA empty, only for the tool.
DeviceInv ==
    /\ bridges <=>
           \A p \in Tools : step[p] \notin {"isolated", "erased", "loaded"}
    /\ irqPc = "mask" => configured
    /\ ~configured => ~done /\ ~running
    /\ \A p \in Hosts : step[p] # "out" => configured
    /\ \A p \in Tools : step[p] = "erased" => ~done /\ ~running

\* What a transfer that succeeds leaves behind, up to the tool's report.
TransferInv ==
    \A p \in Tools :
        /\ ret[p] = "moved" =>
               /\ step[p] \in {"loaded", "restored", "loading", "programmed"}
               /\ configured /\ ena /\ ~done /\ ~running /\ irqPc = "off"
        /\ ret[p] = "ok" => step[p] = "leaving" /\ configured

IInv ==
    /\ TypeOK /\ Solo /\ CallsMatchSteps
    /\ HandlerInv /\ DeviceInv /\ TransferInv

----------------------------------------------------------------------------
(* Each action keeps the invariant.                                       *)

\* A step of a tool leads to a step of a tool.
LEMMA ToolStepTyped ==
    ASSUME TypeOK, NEW p \in Tools, NEW s \in ToolSteps,
           step' = [step EXCEPT ![p] = s]
    PROVE  /\ step' \in [Procs -> HostSteps \cup ToolSteps]
           /\ \A q \in Hosts : step'[q] \in HostSteps
           /\ \A q \in Tools : step'[q] \in ToolSteps
BY ProcsAssumption DEF TypeOK, Tools, Hosts

LEMMA IrqKeeps ==
    ASSUME IInv, Irq
    PROVE  IInv'
<1>1. TypeOK'
  <2>1. ASSUME task # Nobody, NEW x \in People, Signal(x)
        PROVE  inbox' \in [Procs -> Seq(People)]
    <3>1. task \in Procs
      BY <2>1 DEF IInv, TypeOK, IrqTypeOK, People
    <3>2. Append(inbox[task], x) \in Seq(People)
      BY <3>1 DEF IInv, TypeOK, IrqTypeOK
    <3> QED
      BY <2>1, <3>1, <3>2 DEF Signal, IInv, TypeOK, IrqTypeOK
  <2>2. inbox' \in [Procs -> Seq(People)]
    BY <2>1
    DEF Irq, IrqEnter, IrqMask, IrqSend, IInv, TypeOK, IrqTypeOK, kernelVars
  <2>3. IrqTypeOK'
    BY <2>2
    DEF Irq, IrqEnter, IrqMask, IrqSend, IInv, TypeOK, IrqTypeOK, IrqPcs, fpga,
        driver, kernelVars, irqVars, programs
  <2>4. orderly' \in BOOLEAN
    BY DEF Irq, IInv, TypeOK
  <2> QED
    BY <2>3, <2>4 DEF Irq, IInv, TypeOK
<1>2. Solo'
  BY DEF Irq, IrqEnter, IrqMask, IrqSend, Signal, Line, IInv, Solo, TypeOK,
     fpga, driver, kernelVars
<1>3. CallsMatchSteps'
  BY DEF Irq, IrqEnter, IrqMask, IrqSend, Signal, Line, IInv, CallsMatchSteps,
     TypeOK, IrqTypeOK, fpga, driver, kernelVars
<1>4. HandlerInv'
  BY ProcsAssumption
  DEF Irq, IrqEnter, IrqMask, IrqSend, Signal, Line, IInv, HandlerInv,
      Unhooked, Solo, CallsMatchSteps, DeviceInv, TypeOK, IrqTypeOK, Tools,
      fpga, driver, kernelVars
<1>5. DeviceInv'
  BY ProcsAssumption
  DEF Irq, IrqEnter, IrqMask, IrqSend, Signal, Line, IInv, DeviceInv,
      HandlerInv, Unhooked, Solo, TypeOK, IrqTypeOK, Tools, Hosts, fpga,
      driver, kernelVars
<1>6. TransferInv'
  BY ProcsAssumption
  DEF Irq, IrqEnter, IrqMask, IrqSend, Signal, Line, IInv, TransferInv,
      DeviceInv, Solo, TypeOK, IrqTypeOK, Tools, fpga, driver, kernelVars
<1> QED
  BY <1>1, <1>2, <1>3, <1>4, <1>5, <1>6 DEF IInv

LEMMA DeviceKeeps ==
    ASSUME IInv, Device
    PROVE  IInv'
<1>1. TypeOK'
  BY ProcsAssumption
  DEF Device, KernelDone, IInv, TypeOK, IrqTypeOK, driver, kernelVars, programs
<1>2. Solo'
  BY DEF Device, KernelDone, IInv, Solo, TypeOK, driver, kernelVars, programs
<1>3. CallsMatchSteps'
  BY DEF Device, KernelDone, IInv, CallsMatchSteps, TypeOK, IrqTypeOK, driver,
     kernelVars, programs
<1>4. HandlerInv'
  BY ProcsAssumption
  DEF Device, KernelDone, IInv, HandlerInv, Unhooked, Solo, CallsMatchSteps,
      DeviceInv, TypeOK, IrqTypeOK, Tools, driver, kernelVars, programs
<1>5. DeviceInv'
  BY ProcsAssumption
  DEF Device, KernelDone, IInv, DeviceInv, HandlerInv, Unhooked, Solo, TypeOK,
      IrqTypeOK, Tools, Hosts, driver, kernelVars, programs
<1>6. TransferInv'
  BY ProcsAssumption
  DEF Device, KernelDone, IInv, TransferInv, DeviceInv, Solo, TypeOK,
      IrqTypeOK, Tools, driver, kernelVars, programs
<1> QED
  BY <1>1, <1>2, <1>3, <1>4, <1>5, <1>6 DEF IInv

LEMMA ExitKeeps ==
    ASSUME IInv, NEW p \in Procs, Exit(p)
    PROVE  IInv'
<1>0. p \in Procs
  BY ProcsAssumption DEF Tools, Hosts
<1>1. TypeOK'
  BY <1>0, ProcsAssumption
  DEF Exit, IInv, TypeOK, IrqTypeOK, fpga, driver, programs
<1>2. Solo'
  BY <1>0 DEF Exit, IInv, Solo, TypeOK, fpga, driver, programs
<1>3. CallsMatchSteps'
  BY <1>0
  DEF Exit, IInv, CallsMatchSteps, TypeOK, IrqTypeOK, fpga, driver, programs
<1>4. HandlerInv'
  BY <1>0, ProcsAssumption
  DEF Exit, IInv, HandlerInv, Unhooked, Solo, CallsMatchSteps, DeviceInv,
      TypeOK, IrqTypeOK, Tools, fpga, driver, programs
<1>5. DeviceInv'
  BY <1>0, ProcsAssumption
  DEF Exit, IInv, DeviceInv, HandlerInv, Unhooked, Solo, TypeOK, IrqTypeOK,
      Tools, Hosts, fpga, driver, programs
<1>6. TransferInv'
  BY <1>0, ProcsAssumption
  DEF Exit, IInv, TransferInv, DeviceInv, Solo, TypeOK, IrqTypeOK, Tools, fpga,
      driver, programs
<1> QED
  BY <1>1, <1>2, <1>3, <1>4, <1>5, <1>6 DEF IInv

LEMMA CrashKeeps ==
    ASSUME IInv, NEW p \in Procs, Crash(p)
    PROVE  IInv'
<1>0. p \in Procs
  BY ProcsAssumption DEF Tools, Hosts
<1>1. TypeOK'
  <2>1. step' \in [Procs -> HostSteps \cup ToolSteps]
    BY <1>0 DEF Crash, IInv, TypeOK, HostSteps
  <2>2. \A q \in Hosts : step'[q] \in HostSteps
    BY <1>0 DEF Crash, IInv, TypeOK, HostSteps, Hosts
  <2>3. \A q \in Tools : step'[q] \in ToolSteps
    BY <1>0, ProcsAssumption DEF Crash, IInv, TypeOK, ToolSteps, Tools
  <2>4. inbox' \in [Procs -> Seq(People)]
    BY <1>0 DEF Crash, IInv, TypeOK, IrqTypeOK
  <2>5. IrqTypeOK'
    BY <1>0, <2>4
    DEF Crash, IInv, TypeOK, IrqTypeOK, fpga, driver, kernelVars, irqVars,
        programs
  <2> QED
    BY <2>1, <2>2, <2>3, <2>5 DEF Crash, IInv, TypeOK
<1>2. Solo'
  BY <1>0, CrashAssumption DEF Crash, IInv, Solo, TypeOK, fpga, driver
<1>3. CallsMatchSteps'
  BY <1>0, CrashAssumption
  DEF Crash, IInv, CallsMatchSteps, TypeOK, IrqTypeOK, Calls, fpga, driver
<1>4. HandlerInv'
  BY <1>0, ProcsAssumption, CrashAssumption
  DEF Crash, IInv, HandlerInv, Unhooked, Solo, CallsMatchSteps, DeviceInv,
      TypeOK, IrqTypeOK, Tools, fpga, driver
<1>5. DeviceInv'
  BY <1>0, ProcsAssumption, CrashAssumption
  DEF Crash, IInv, DeviceInv, HandlerInv, Unhooked, Solo, TypeOK, IrqTypeOK,
      Tools, Hosts, fpga, driver
<1>6. TransferInv'
  BY <1>0, ProcsAssumption, CrashAssumption
  DEF Crash, IInv, TransferInv, DeviceInv, Solo, TypeOK, IrqTypeOK, Tools,
      fpga, driver
<1> QED
  BY <1>1, <1>2, <1>3, <1>4, <1>5, <1>6 DEF IInv

LEMMA StartKeeps ==
    ASSUME IInv, NEW p \in Procs, Start(p)
    PROVE  IInv'
<1>0. p \in Procs
  BY ProcsAssumption DEF Tools, Hosts
<1>1. TypeOK'
  BY <1>0, ProcsAssumption
  DEF Start, IInv, TypeOK, IrqTypeOK, fpga, driver, programs
<1>2. Solo'
  BY <1>0 DEF Start, IInv, Solo, TypeOK, fpga, driver, programs
<1>3. CallsMatchSteps'
  BY <1>0
  DEF Start, IInv, CallsMatchSteps, TypeOK, IrqTypeOK, fpga, driver, programs
<1>4. HandlerInv'
  BY <1>0, ProcsAssumption
  DEF Start, IInv, HandlerInv, Unhooked, Solo, CallsMatchSteps, DeviceInv,
      TypeOK, IrqTypeOK, Tools, fpga, driver, programs
<1>5. DeviceInv'
  BY <1>0, ProcsAssumption
  DEF Start, IInv, DeviceInv, HandlerInv, Unhooked, Solo, TypeOK, IrqTypeOK,
      Tools, Hosts, fpga, driver, programs
<1>6. TransferInv'
  BY <1>0, ProcsAssumption
  DEF Start, IInv, TransferInv, DeviceInv, Solo, TypeOK, IrqTypeOK, Tools,
      fpga, driver, programs
<1> QED
  BY <1>1, <1>2, <1>3, <1>4, <1>5, <1>6 DEF IInv

LEMMA OpenKeeps ==
    ASSUME IInv, NEW p \in Procs, Open(p)
    PROVE  IInv'
<1>0. p \in Procs
  BY ProcsAssumption DEF Tools, Hosts
<1>1. TypeOK'
  BY <1>0, ProcsAssumption
  DEF Open, Move, Go, OpenTask, Enter, IInv, TypeOK, IrqTypeOK, Calls, People,
      HostSteps, ToolSteps, Hosts, Tools, fpga, kernelVars
<1>2. Solo'
  BY <1>0
  DEF Open, Move, Go, OpenTask, Enter, IInv, Solo, TypeOK, fpga, kernelVars
<1>3. CallsMatchSteps'
  BY <1>0
  DEF Open, Move, Go, OpenTask, Enter, IInv, CallsMatchSteps, TypeOK,
      IrqTypeOK, fpga, kernelVars
<1>4. HandlerInv'
  BY <1>0, ProcsAssumption
  DEF Open, Move, Go, OpenTask, Enter, IInv, HandlerInv, Unhooked, Solo,
      CallsMatchSteps, DeviceInv, TypeOK, IrqTypeOK, Tools, fpga, kernelVars
<1>5. DeviceInv'
  BY <1>0, ProcsAssumption
  DEF Open, Move, Go, OpenTask, Enter, IInv, DeviceInv, HandlerInv, Unhooked,
      Solo, TypeOK, IrqTypeOK, Tools, Hosts, fpga, kernelVars
<1>6. TransferInv'
  BY <1>0, ProcsAssumption
  DEF Open, Move, Go, OpenTask, Enter, IInv, TransferInv, DeviceInv, Solo,
      TypeOK, IrqTypeOK, Tools, fpga, kernelVars
<1> QED
  BY <1>1, <1>2, <1>3, <1>4, <1>5, <1>6 DEF IInv

LEMMA OpenedKeeps ==
    ASSUME IInv, NEW p \in Procs, Opened(p)
    PROVE  IInv'
<1>0. p \in Procs
  BY ProcsAssumption DEF Tools, Hosts
<1>1. TypeOK'
  BY <1>0, ProcsAssumption
  DEF Opened, Move, Go, OpenSignal, Inside, Leave, IInv, TypeOK, IrqTypeOK,
      Calls, People, HostSteps, ToolSteps, Hosts, Tools, fpga, kernelVars
<1>2. Solo'
  BY <1>0
  DEF Opened, Move, Go, OpenSignal, Inside, Leave, IInv, Solo, TypeOK, fpga,
      kernelVars
<1>3. CallsMatchSteps'
  BY <1>0
  DEF Opened, Move, Go, OpenSignal, Inside, Leave, IInv, CallsMatchSteps,
      TypeOK, IrqTypeOK, fpga, kernelVars
<1>4. HandlerInv'
  BY <1>0, ProcsAssumption
  DEF Opened, Move, Go, OpenSignal, Inside, Leave, IInv, HandlerInv, Unhooked,
      Solo, CallsMatchSteps, DeviceInv, TypeOK, IrqTypeOK, Tools, fpga,
      kernelVars
<1>5. DeviceInv'
  BY <1>0, ProcsAssumption
  DEF Opened, Move, Go, OpenSignal, Inside, Leave, IInv, DeviceInv, HandlerInv,
      Unhooked, Solo, TypeOK, IrqTypeOK, Tools, Hosts, fpga, kernelVars
<1>6. TransferInv'
  BY <1>0, ProcsAssumption
  DEF Opened, Move, Go, OpenSignal, Inside, Leave, IInv, TransferInv,
      DeviceInv, Solo, TypeOK, IrqTypeOK, Tools, fpga, kernelVars
<1> QED
  BY <1>1, <1>2, <1>3, <1>4, <1>5, <1>6 DEF IInv

LEMMA NameKeeps ==
    ASSUME IInv, NEW p \in Hosts, Name(p)
    PROVE  IInv'
<1>0. p \in Procs
  BY ProcsAssumption DEF Tools, Hosts
<1>1. TypeOK'
  BY <1>0, ProcsAssumption
  DEF Name, Move, Go, SetPayload, Brief, IInv, TypeOK, IrqTypeOK, People,
      HostSteps, ToolSteps, Hosts, Tools, fpga, kernelVars
<1>2. Solo'
  BY <1>0
  DEF Name, Move, Go, SetPayload, Brief, IInv, Solo, TypeOK, fpga, kernelVars
<1>3. CallsMatchSteps'
  BY <1>0
  DEF Name, Move, Go, SetPayload, Brief, IInv, CallsMatchSteps, TypeOK,
      IrqTypeOK, fpga, kernelVars
<1>4. HandlerInv'
  BY <1>0, ProcsAssumption
  DEF Name, Move, Go, SetPayload, Brief, IInv, HandlerInv, Unhooked, Solo,
      CallsMatchSteps, DeviceInv, TypeOK, IrqTypeOK, Tools, fpga, kernelVars
<1>5. DeviceInv'
  BY <1>0, ProcsAssumption
  DEF Name, Move, Go, SetPayload, Brief, IInv, DeviceInv, HandlerInv, Unhooked,
      Solo, TypeOK, IrqTypeOK, Tools, Hosts, fpga, kernelVars
<1>6. TransferInv'
  BY <1>0, ProcsAssumption
  DEF Name, Move, Go, SetPayload, Brief, IInv, TransferInv, DeviceInv, Solo,
      TypeOK, IrqTypeOK, Tools, fpga, kernelVars
<1> QED
  BY <1>1, <1>2, <1>3, <1>4, <1>5, <1>6 DEF IInv

LEMMA NameFailsKeeps ==
    ASSUME IInv, NEW p \in Hosts, NameFails(p)
    PROVE  IInv'
<1>0. p \in Procs
  BY ProcsAssumption DEF Tools, Hosts
<1>1. TypeOK'
  BY <1>0, ProcsAssumption
  DEF NameFails, programs, SetPayload, Brief, IInv, TypeOK, IrqTypeOK, People,
      HostSteps, ToolSteps, Hosts, Tools, fpga, kernelVars
<1>2. Solo'
  BY <1>0
  DEF NameFails, programs, SetPayload, Brief, IInv, Solo, TypeOK, fpga, kernelVars
<1>3. CallsMatchSteps'
  BY <1>0
  DEF NameFails, programs, SetPayload, Brief, IInv, CallsMatchSteps, TypeOK,
      IrqTypeOK, fpga, kernelVars
<1>4. HandlerInv'
  BY <1>0, ProcsAssumption
  DEF NameFails, programs, SetPayload, Brief, IInv, HandlerInv, Unhooked, Solo,
      CallsMatchSteps, DeviceInv, TypeOK, IrqTypeOK, Tools, fpga, kernelVars
<1>5. DeviceInv'
  BY <1>0, ProcsAssumption
  DEF NameFails, programs, SetPayload, Brief, IInv, DeviceInv, HandlerInv, Unhooked,
      Solo, TypeOK, IrqTypeOK, Tools, Hosts, fpga, kernelVars
<1>6. TransferInv'
  BY <1>0, ProcsAssumption
  DEF NameFails, programs, SetPayload, Brief, IInv, TransferInv, DeviceInv, Solo,
      TypeOK, IrqTypeOK, Tools, fpga, kernelVars
<1> QED
  BY <1>1, <1>2, <1>3, <1>4, <1>5, <1>6 DEF IInv

LEMMA FirstEnableKeeps ==
    ASSUME IInv, NEW p \in Hosts, FirstEnable(p)
    PROVE  IInv'
<1>0. p \in Procs
  BY ProcsAssumption DEF Tools, Hosts
<1>1. TypeOK'
  BY <1>0, ProcsAssumption
  DEF FirstEnable, Move, Go, Enable, Brief, IInv, TypeOK, IrqTypeOK, HostSteps,
      ToolSteps, Hosts, Tools, fpga, driver, kernelVars
<1>2. Solo'
  BY <1>0
  DEF FirstEnable, Move, Go, Enable, Brief, IInv, Solo, TypeOK, fpga, driver,
      kernelVars
<1>3. CallsMatchSteps'
  BY <1>0
  DEF FirstEnable, Move, Go, Enable, Brief, IInv, CallsMatchSteps, TypeOK,
      IrqTypeOK, fpga, driver, kernelVars
<1>4. HandlerInv'
  BY <1>0, ProcsAssumption
  DEF FirstEnable, Move, Go, Enable, Brief, IInv, HandlerInv, Unhooked, Solo,
      CallsMatchSteps, DeviceInv, TypeOK, IrqTypeOK, Tools, fpga, driver,
      kernelVars
<1>5. DeviceInv'
  BY <1>0, ProcsAssumption
  DEF FirstEnable, Move, Go, Enable, Brief, IInv, DeviceInv, HandlerInv,
      Unhooked, Solo, TypeOK, IrqTypeOK, Tools, Hosts, fpga, driver, kernelVars
<1>6. TransferInv'
  BY <1>0, ProcsAssumption
  DEF FirstEnable, Move, Go, Enable, Brief, IInv, TransferInv, DeviceInv, Solo,
      TypeOK, IrqTypeOK, Tools, fpga, driver, kernelVars
<1> QED
  BY <1>1, <1>2, <1>3, <1>4, <1>5, <1>6 DEF IInv

LEMMA LaunchKeeps ==
    ASSUME IInv, NEW p \in Hosts, Launch(p)
    PROVE  IInv'
<1>0. p \in Procs
  BY ProcsAssumption DEF Tools, Hosts
<1>1. TypeOK'
  BY <1>0, ProcsAssumption
  DEF Launch, Brief, IInv, TypeOK, IrqTypeOK, People, driver, kernelVars,
      programs
<1>2. Solo'
  BY <1>0 DEF Launch, Brief, IInv, Solo, TypeOK, driver, kernelVars, programs
<1>3. CallsMatchSteps'
  BY <1>0
  DEF Launch, Brief, IInv, CallsMatchSteps, TypeOK, IrqTypeOK, driver,
      kernelVars, programs
<1>4. HandlerInv'
  BY <1>0, ProcsAssumption
  DEF Launch, Brief, IInv, HandlerInv, Unhooked, Solo, CallsMatchSteps,
      DeviceInv, TypeOK, IrqTypeOK, Tools, driver, kernelVars, programs
<1>5. DeviceInv'
  BY <1>0, ProcsAssumption
  DEF Launch, Brief, IInv, DeviceInv, HandlerInv, Unhooked, Solo, TypeOK,
      IrqTypeOK, Tools, Hosts, driver, kernelVars, programs
<1>6. TransferInv'
  BY <1>0, ProcsAssumption
  DEF Launch, Brief, IInv, TransferInv, DeviceInv, Solo, TypeOK, IrqTypeOK,
      Tools, driver, kernelVars, programs
<1> QED
  BY <1>1, <1>2, <1>3, <1>4, <1>5, <1>6 DEF IInv

LEMMA TakeSignalKeeps ==
    ASSUME IInv, NEW p \in Hosts, TakeSignal(p)
    PROVE  IInv'
<1>0. p \in Procs
  BY ProcsAssumption DEF Tools, Hosts
<1>1. TypeOK'
  BY <1>0, ProcsAssumption
  DEF TakeSignal, Move, Go, IInv, TypeOK, IrqTypeOK, HostSteps, ToolSteps,
      Hosts, Tools, fpga, driver
<1>2. Solo'
  BY <1>0 DEF TakeSignal, Move, Go, IInv, Solo, TypeOK, fpga, driver
<1>3. CallsMatchSteps'
  BY <1>0
  DEF TakeSignal, Move, Go, IInv, CallsMatchSteps, TypeOK, IrqTypeOK, fpga,
      driver
<1>4. HandlerInv'
  BY <1>0, ProcsAssumption
  DEF TakeSignal, Move, Go, IInv, HandlerInv, Unhooked, Solo, CallsMatchSteps,
      DeviceInv, TypeOK, IrqTypeOK, Tools, fpga, driver
<1>5. DeviceInv'
  BY <1>0, ProcsAssumption
  DEF TakeSignal, Move, Go, IInv, DeviceInv, HandlerInv, Unhooked, Solo,
      TypeOK, IrqTypeOK, Tools, Hosts, fpga, driver
<1>6. TransferInv'
  BY <1>0, ProcsAssumption
  DEF TakeSignal, Move, Go, IInv, TransferInv, DeviceInv, Solo, TypeOK,
      IrqTypeOK, Tools, fpga, driver
<1> QED
  BY <1>1, <1>2, <1>3, <1>4, <1>5, <1>6 DEF IInv

LEMMA ClearDoneKeeps ==
    ASSUME IInv, NEW p \in Hosts, ClearDone(p)
    PROVE  IInv'
<1>0. p \in Procs
  BY ProcsAssumption DEF Tools, Hosts
<1>1. TypeOK'
  BY <1>0, ProcsAssumption
  DEF ClearDone, Move, Go, Brief, IInv, TypeOK, IrqTypeOK, People, HostSteps,
      ToolSteps, Hosts, Tools, driver, kernelVars
<1>2. Solo'
  BY <1>0
  DEF ClearDone, Move, Go, Brief, IInv, Solo, TypeOK, driver, kernelVars
<1>3. CallsMatchSteps'
  BY <1>0
  DEF ClearDone, Move, Go, Brief, IInv, CallsMatchSteps, TypeOK, IrqTypeOK,
      driver, kernelVars
<1>4. HandlerInv'
  BY <1>0, ProcsAssumption
  DEF ClearDone, Move, Go, Brief, IInv, HandlerInv, Unhooked, Solo,
      CallsMatchSteps, DeviceInv, TypeOK, IrqTypeOK, Tools, driver, kernelVars
<1>5. DeviceInv'
  BY <1>0, ProcsAssumption
  DEF ClearDone, Move, Go, Brief, IInv, DeviceInv, HandlerInv, Unhooked, Solo,
      TypeOK, IrqTypeOK, Tools, Hosts, driver, kernelVars
<1>6. TransferInv'
  BY <1>0, ProcsAssumption
  DEF ClearDone, Move, Go, Brief, IInv, TransferInv, DeviceInv, Solo, TypeOK,
      IrqTypeOK, Tools, driver, kernelVars
<1> QED
  BY <1>1, <1>2, <1>3, <1>4, <1>5, <1>6 DEF IInv

LEMMA UnmaskKeeps ==
    ASSUME IInv, NEW p \in Hosts, Unmask(p)
    PROVE  IInv'
<1>0. p \in Procs
  BY ProcsAssumption DEF Tools, Hosts
<1>1. TypeOK'
  BY <1>0, ProcsAssumption
  DEF Unmask, Move, Go, Enable, Brief, IInv, TypeOK, IrqTypeOK, HostSteps,
      ToolSteps, Hosts, Tools, fpga, driver, kernelVars
<1>2. Solo'
  BY <1>0
  DEF Unmask, Move, Go, Enable, Brief, IInv, Solo, TypeOK, fpga, driver,
      kernelVars
<1>3. CallsMatchSteps'
  BY <1>0
  DEF Unmask, Move, Go, Enable, Brief, IInv, CallsMatchSteps, TypeOK,
      IrqTypeOK, fpga, driver, kernelVars
<1>4. HandlerInv'
  BY <1>0, ProcsAssumption
  DEF Unmask, Move, Go, Enable, Brief, IInv, HandlerInv, Unhooked, Solo,
      CallsMatchSteps, DeviceInv, TypeOK, IrqTypeOK, Tools, fpga, driver,
      kernelVars
<1>5. DeviceInv'
  BY <1>0, ProcsAssumption
  DEF Unmask, Move, Go, Enable, Brief, IInv, DeviceInv, HandlerInv, Unhooked,
      Solo, TypeOK, IrqTypeOK, Tools, Hosts, fpga, driver, kernelVars
<1>6. TransferInv'
  BY <1>0, ProcsAssumption
  DEF Unmask, Move, Go, Enable, Brief, IInv, TransferInv, DeviceInv, Solo,
      TypeOK, IrqTypeOK, Tools, fpga, driver, kernelVars
<1> QED
  BY <1>1, <1>2, <1>3, <1>4, <1>5, <1>6 DEF IInv

LEMMA FinishKeeps ==
    ASSUME IInv, NEW p \in Hosts, Finish(p)
    PROVE  IInv'
<1>0. p \in Procs
  BY ProcsAssumption DEF Tools, Hosts
<1>1. TypeOK'
  BY <1>0, ProcsAssumption
  DEF Finish, Move, Go, Close, Brief, IInv, TypeOK, IrqTypeOK, HostSteps,
      ToolSteps, Hosts, Tools, fpga, driver, kernelVars
<1>2. Solo'
  BY <1>0
  DEF Finish, Move, Go, Close, Brief, IInv, Solo, TypeOK, fpga, driver,
      kernelVars
<1>3. CallsMatchSteps'
  BY <1>0
  DEF Finish, Move, Go, Close, Brief, IInv, CallsMatchSteps, TypeOK, IrqTypeOK,
      fpga, driver, kernelVars
<1>4. HandlerInv'
  BY <1>0, ProcsAssumption
  DEF Finish, Move, Go, Close, Brief, IInv, HandlerInv, Unhooked, Solo,
      CallsMatchSteps, DeviceInv, TypeOK, IrqTypeOK, Tools, fpga, driver,
      kernelVars
<1>5. DeviceInv'
  BY <1>0, ProcsAssumption
  DEF Finish, Move, Go, Close, Brief, IInv, DeviceInv, HandlerInv, Unhooked,
      Solo, TypeOK, IrqTypeOK, Tools, Hosts, fpga, driver, kernelVars
<1>6. TransferInv'
  BY <1>0, ProcsAssumption
  DEF Finish, Move, Go, Close, Brief, IInv, TransferInv, DeviceInv, Solo,
      TypeOK, IrqTypeOK, Tools, fpga, driver, kernelVars
<1> QED
  BY <1>1, <1>2, <1>3, <1>4, <1>5, <1>6 DEF IInv

LEMMA ToolUnpackKeeps ==
    ASSUME IInv, NEW p \in Tools, ToolUnpack(p)
    PROVE  IInv'
<1>0. p \in Procs
  BY ProcsAssumption DEF Tools, Hosts
<1>1. TypeOK'
  <2>1. \E s \in ToolSteps : step' = [step EXCEPT ![p] = s]
    BY DEF ToolUnpack, Tell, Go, GivenUp, ToolSteps
  <2>2. ret' \in [Tools -> Rets]
    BY DEF ToolUnpack, Tell, Go, GivenUp, IInv, TypeOK, Rets
  <2> QED
    BY <2>1, <2>2, ToolStepTyped
    DEF ToolUnpack, Tell, Go, GivenUp, IInv, TypeOK, IrqTypeOK, fpga, driver,
        kernelVars, irqVars, programs
<1>2. Solo'
  <2>1. \A q \in Procs : q # p => step'[q] = step[q]
    BY <1>0 DEF ToolUnpack, Tell, Go, GivenUp, IInv, TypeOK
  <2> QED
    BY <1>0, <2>1 DEF ToolUnpack, Tell, Go, GivenUp, IInv, Solo
<1>3. CallsMatchSteps'
  BY <1>0
  DEF ToolUnpack, Tell, Go, GivenUp, IInv, CallsMatchSteps, TypeOK, IrqTypeOK,
      irqVars, fpga, driver, kernelVars
<1>4. HandlerInv'
  BY <1>0, ProcsAssumption
  DEF ToolUnpack, Tell, Go, GivenUp, IInv, HandlerInv, Unhooked, Solo,
      CallsMatchSteps, DeviceInv, TypeOK, IrqTypeOK, Tools, irqVars, fpga,
      driver, kernelVars
<1>5. DeviceInv'
  BY <1>0, ProcsAssumption
  DEF ToolUnpack, Tell, Go, GivenUp, IInv, DeviceInv, HandlerInv, Unhooked,
      Solo, TypeOK, IrqTypeOK, Tools, Hosts, irqVars, fpga, driver, kernelVars
<1>6. TransferInv'
  BY <1>0, ProcsAssumption
  DEF ToolUnpack, Tell, Go, GivenUp, IInv, TransferInv, DeviceInv, Solo,
      TypeOK, IrqTypeOK, Tools, irqVars, fpga, driver, kernelVars
<1> QED
  BY <1>1, <1>2, <1>3, <1>4, <1>5, <1>6 DEF IInv

LEMMA ToolSaveKeeps ==
    ASSUME IInv, NEW p \in Tools, ToolSave(p)
    PROVE  IInv'
<1>0. p \in Procs
  BY ProcsAssumption DEF Tools, Hosts
<1>1. TypeOK'
  BY <1>0, ProcsAssumption
  DEF ToolSave, Move, Go, SaveMask, Enter, IInv, TypeOK, IrqTypeOK, Calls,
      People, HostSteps, ToolSteps, Hosts, Tools, fpga, driver, kernelVars
<1>2. Solo'
  BY <1>0
  DEF ToolSave, Move, Go, SaveMask, Enter, IInv, Solo, TypeOK, fpga, driver,
      kernelVars
<1>3. CallsMatchSteps'
  BY <1>0
  DEF ToolSave, Move, Go, SaveMask, Enter, IInv, CallsMatchSteps, TypeOK,
      IrqTypeOK, fpga, driver, kernelVars
<1>4. HandlerInv'
  BY <1>0, ProcsAssumption
  DEF ToolSave, Move, Go, SaveMask, Enter, IInv, HandlerInv, Unhooked, Solo,
      CallsMatchSteps, DeviceInv, TypeOK, IrqTypeOK, Tools, fpga, driver,
      kernelVars
<1>5. DeviceInv'
  BY <1>0, ProcsAssumption
  DEF ToolSave, Move, Go, SaveMask, Enter, IInv, DeviceInv, HandlerInv,
      Unhooked, Solo, TypeOK, IrqTypeOK, Tools, Hosts, fpga, driver, kernelVars
<1>6. TransferInv'
  BY <1>0, ProcsAssumption
  DEF ToolSave, Move, Go, SaveMask, Enter, IInv, TransferInv, DeviceInv, Solo,
      TypeOK, IrqTypeOK, Tools, fpga, driver, kernelVars
<1> QED
  BY <1>1, <1>2, <1>3, <1>4, <1>5, <1>6 DEF IInv

LEMMA ToolUnhookKeeps ==
    ASSUME IInv, NEW p \in Tools, ToolUnhook(p)
    PROVE  IInv'
<1>0. p \in Procs
  BY ProcsAssumption DEF Tools, Hosts
<1>1. TypeOK'
  BY <1>0, ProcsAssumption
  DEF ToolUnhook, SaveUnhook, Inside, IInv, TypeOK, IrqTypeOK, Calls, fpga,
      kernelVars, programs
<1>2. Solo'
  BY <1>0
  DEF ToolUnhook, SaveUnhook, Inside, IInv, Solo, TypeOK, fpga, kernelVars,
      programs
<1>3. CallsMatchSteps'
  BY <1>0
  DEF ToolUnhook, SaveUnhook, Inside, IInv, CallsMatchSteps, TypeOK, IrqTypeOK,
      fpga, kernelVars, programs
<1>4. HandlerInv'
  BY <1>0, ProcsAssumption
  DEF ToolUnhook, SaveUnhook, Inside, IInv, HandlerInv, Unhooked, Solo,
      CallsMatchSteps, DeviceInv, TypeOK, IrqTypeOK, Tools, fpga, kernelVars,
      programs
<1>5. DeviceInv'
  BY <1>0, ProcsAssumption
  DEF ToolUnhook, SaveUnhook, Inside, IInv, DeviceInv, HandlerInv, Unhooked,
      Solo, TypeOK, IrqTypeOK, Tools, Hosts, fpga, kernelVars, programs
<1>6. TransferInv'
  BY <1>0, ProcsAssumption
  DEF ToolUnhook, SaveUnhook, Inside, IInv, TransferInv, DeviceInv, Solo,
      TypeOK, IrqTypeOK, Tools, fpga, kernelVars, programs
<1> QED
  BY <1>1, <1>2, <1>3, <1>4, <1>5, <1>6 DEF IInv

LEMMA ToolSyncKeeps ==
    ASSUME IInv, NEW p \in Tools, ToolSync(p)
    PROVE  IInv'
<1>0. p \in Procs
  BY ProcsAssumption DEF Tools, Hosts
<1>1. TypeOK'
  <2>1. step' = [step EXCEPT ![p] = "saved"] /\ "saved" \in ToolSteps
    BY DEF ToolSync, Move, Go, SaveSync, Inside, Leave, ToolSteps
  <2> QED
    BY <1>0, <2>1, ToolStepTyped
    DEF ToolSync, Move, Go, SaveSync, Inside, Leave, IInv, TypeOK, IrqTypeOK,
        IrqPcs, Calls, People, HostSteps, ToolSteps, Rets, fpga, driver,
        kernelVars, irqVars, programs
<1>2. Solo'
  BY <1>0
  DEF ToolSync, Move, Go, SaveSync, Inside, Leave, IInv, Solo, TypeOK, fpga,
      driver, kernelVars
<1>3. CallsMatchSteps'
  BY <1>0
  DEF ToolSync, Move, Go, SaveSync, Inside, Leave, IInv, CallsMatchSteps,
      TypeOK, IrqTypeOK, fpga, driver, kernelVars
<1>4. HandlerInv'
  BY <1>0, ProcsAssumption
  DEF ToolSync, Move, Go, SaveSync, Inside, Leave, IInv, HandlerInv, Unhooked,
      Solo, CallsMatchSteps, DeviceInv, TypeOK, IrqTypeOK, Tools, fpga, driver,
      kernelVars
<1>5. DeviceInv'
  BY <1>0, ProcsAssumption
  DEF ToolSync, Move, Go, SaveSync, Inside, Leave, IInv, DeviceInv, HandlerInv,
      Unhooked, Solo, TypeOK, IrqTypeOK, Tools, Hosts, fpga, driver, kernelVars
<1>6. TransferInv'
  BY <1>0, ProcsAssumption
  DEF ToolSync, Move, Go, SaveSync, Inside, Leave, IInv, TransferInv,
      DeviceInv, Solo, TypeOK, IrqTypeOK, Tools, fpga, driver, kernelVars
<1> QED
  BY <1>1, <1>2, <1>3, <1>4, <1>5, <1>6 DEF IInv

LEMMA ToolIsolateKeeps ==
    ASSUME IInv, NEW p \in Tools, ToolIsolate(p)
    PROVE  IInv'
<1>0. p \in Procs
  BY ProcsAssumption DEF Tools, Hosts
<1>1. TypeOK'
  <2>1. step' = [step EXCEPT ![p] = "isolated"] /\ "isolated" \in ToolSteps
    BY DEF ToolIsolate, Move, Go, SetBridges, ToolSteps
  <2>2. IrqTypeOK'
    BY DEF ToolIsolate, Move, Go, SetBridges, IInv, TypeOK, IrqTypeOK, fpga,
       driver, kernelVars, irqVars, programs
  <2> QED
    BY <2>1, <2>2, ToolStepTyped
    DEF ToolIsolate, Move, Go, SetBridges, IInv, TypeOK
<1>2. Solo'
  BY <1>0
  DEF ToolIsolate, Move, Go, SetBridges, IInv, Solo, TypeOK, driver, kernelVars
<1>3. CallsMatchSteps'
  BY <1>0
  DEF ToolIsolate, Move, Go, SetBridges, IInv, CallsMatchSteps, TypeOK,
      IrqTypeOK, driver, kernelVars
<1>4. HandlerInv'
  BY <1>0, ProcsAssumption
  DEF ToolIsolate, Move, Go, SetBridges, IInv, HandlerInv, Unhooked, Solo,
      CallsMatchSteps, DeviceInv, TypeOK, IrqTypeOK, Tools, driver, kernelVars
<1>5. DeviceInv'
  BY <1>0, ProcsAssumption
  DEF ToolIsolate, Move, Go, SetBridges, IInv, DeviceInv, HandlerInv, Unhooked,
      Solo, TypeOK, IrqTypeOK, Tools, Hosts, driver, kernelVars
<1>6. TransferInv'
  BY <1>0, ProcsAssumption
  DEF ToolIsolate, Move, Go, SetBridges, IInv, TransferInv, DeviceInv, Solo,
      TypeOK, IrqTypeOK, Tools, driver, kernelVars
<1> QED
  BY <1>1, <1>2, <1>3, <1>4, <1>5, <1>6 DEF IInv

LEMMA ToolEraseKeeps ==
    ASSUME IInv, NEW p \in Tools, ToolErase(p)
    PROVE  IInv'
<1>0. p \in Procs
  BY ProcsAssumption DEF Tools, Hosts
<1>1. TypeOK'
  <2>1. step' = [step EXCEPT ![p] = "erased"] /\ "erased" \in ToolSteps
    BY DEF ToolErase, Go, Erase, ToolSteps
  <2> QED
    BY <1>0, <2>1, ToolStepTyped
    DEF ToolErase, Go, Erase, IInv, TypeOK, IrqTypeOK, IrqPcs, Calls, People,
        HostSteps, ToolSteps, Rets, fpga, driver, kernelVars, irqVars, programs
<1>2. Solo'
  BY <1>0 DEF ToolErase, Go, Erase, IInv, Solo, TypeOK, driver, kernelVars
<1>3. CallsMatchSteps'
  BY <1>0
  DEF ToolErase, Go, Erase, IInv, CallsMatchSteps, TypeOK, IrqTypeOK, driver,
      kernelVars
<1>4. HandlerInv'
  BY <1>0, ProcsAssumption
  DEF ToolErase, Go, Erase, IInv, HandlerInv, Unhooked, Solo, CallsMatchSteps,
      DeviceInv, TypeOK, IrqTypeOK, Tools, driver, kernelVars
<1>5. DeviceInv'
  <2>1. step[p] = "isolated" /\ step'[p] = "erased"
    BY <1>0 DEF ToolErase, Go, Erase, IInv, TypeOK
  <2>2. \A q \in Procs \ {p} : step'[q] = "out"
    BY <1>0, <2>1 DEF ToolErase, Go, Erase, IInv, Solo, TypeOK
  <2>3. ~bridges' /\ ~done' /\ ~running'
    BY <2>1 DEF ToolErase, Erase, IInv, DeviceInv
  <2>4. irqPc' # "mask"
    <3>1. Unhooked(p)
      BY <2>1 DEF Unhooked
    <3>2. ~handler /\ \A q \in Tools : step[q] # "saving"
      BY <1>0, <2>1, <3>1, ProcsAssumption DEF IInv, HandlerInv, Solo, Tools
    <3> QED
      BY <3>2 DEF ToolErase, Erase, IInv, HandlerInv
  <2>5. p \notin Hosts
    BY DEF Hosts, Tools
  <2> QED
    BY <1>0, <2>1, <2>2, <2>3, <2>4, <2>5, ProcsAssumption
    DEF DeviceInv, Hosts, Tools
<1>6. TransferInv'
  BY <1>0, ProcsAssumption
  DEF ToolErase, Go, Erase, IInv, TransferInv, DeviceInv, Solo, TypeOK,
      IrqTypeOK, Tools, driver, kernelVars
<1> QED
  BY <1>1, <1>2, <1>3, <1>4, <1>5, <1>6 DEF IInv

LEMMA ToolConfigureKeeps ==
    ASSUME IInv, NEW p \in Tools, ToolConfigure(p)
    PROVE  IInv'
<1>0. p \in Procs
  BY ProcsAssumption DEF Tools, Hosts
<1>1. TypeOK'
  BY <1>0, ProcsAssumption
  DEF ToolConfigure, Tell, Go, Configure, IInv, TypeOK, IrqTypeOK, Rets,
      HostSteps, ToolSteps, Hosts, Tools, driver, kernelVars
<1>2. Solo'
  BY <1>0
  DEF ToolConfigure, Tell, Go, Configure, IInv, Solo, TypeOK, driver,
      kernelVars
<1>3. CallsMatchSteps'
  BY <1>0
  DEF ToolConfigure, Tell, Go, Configure, IInv, CallsMatchSteps, TypeOK,
      IrqTypeOK, driver, kernelVars
<1>4. HandlerInv'
  BY <1>0, ProcsAssumption
  DEF ToolConfigure, Tell, Go, Configure, IInv, HandlerInv, Unhooked, Solo,
      CallsMatchSteps, DeviceInv, TypeOK, IrqTypeOK, Tools, driver, kernelVars
<1>5. DeviceInv'
  BY <1>0, ProcsAssumption
  DEF ToolConfigure, Tell, Go, Configure, IInv, DeviceInv, HandlerInv,
      Unhooked, Solo, TypeOK, IrqTypeOK, Tools, Hosts, driver, kernelVars
<1>6. TransferInv'
  <2>1. step[p] = "erased" /\ step'[p] = "loaded" /\ ret'[p] = "moved"
    BY <1>0 DEF ToolConfigure, Tell, Go, Configure, IInv, TypeOK
  <2>2. \A q \in Tools \ {p} : step[q] = "out" /\ ret'[q] = ret[q]
    BY <1>0, <2>1, ProcsAssumption
    DEF ToolConfigure, Tell, Go, Configure, IInv, Solo, TypeOK, Tools
  <2>3. \A q \in Tools \ {p} : ret'[q] \notin {"moved", "ok"}
    BY <2>2 DEF IInv, TransferInv
  <2>4. configured' /\ ena' /\ ~done' /\ ~running'
    BY <2>1 DEF ToolConfigure, Configure, IInv, DeviceInv
  <2>5. irqPc' = "off"
    <3>1. Unhooked(p)
      BY <2>1 DEF Unhooked
    <3>2. ~handler /\ \A q \in Tools : step[q] # "saving"
      BY <1>0, <2>1, <3>1, ProcsAssumption DEF IInv, HandlerInv, Solo, Tools
    <3> QED
      BY <3>2 DEF ToolConfigure, Configure, IInv, HandlerInv
  <2> QED
    BY <2>1, <2>3, <2>4, <2>5 DEF TransferInv
<1> QED
  BY <1>1, <1>2, <1>3, <1>4, <1>5, <1>6 DEF IInv

LEMMA ToolTransferFailsKeeps ==
    ASSUME IInv, NEW p \in Tools, ToolTransferFails(p)
    PROVE  IInv'
<1>0. p \in Procs
  BY ProcsAssumption DEF Tools, Hosts
<1>1. TypeOK'
  BY <1>0, ProcsAssumption
  DEF ToolTransferFails, Tell, Go, IInv, TypeOK, IrqTypeOK, Rets, HostSteps,
      ToolSteps, Hosts, Tools, irqVars, fpga, driver, kernelVars
<1>2. Solo'
  BY <1>0
  DEF ToolTransferFails, Tell, Go, IInv, Solo, TypeOK, irqVars, fpga, driver,
      kernelVars
<1>3. CallsMatchSteps'
  BY <1>0
  DEF ToolTransferFails, Tell, Go, IInv, CallsMatchSteps, TypeOK, IrqTypeOK,
      irqVars, fpga, driver, kernelVars
<1>4. HandlerInv'
  BY <1>0, ProcsAssumption
  DEF ToolTransferFails, Tell, Go, IInv, HandlerInv, Unhooked, Solo,
      CallsMatchSteps, DeviceInv, TypeOK, IrqTypeOK, Tools, irqVars, fpga,
      driver, kernelVars
<1>5. DeviceInv'
  BY <1>0, ProcsAssumption
  DEF ToolTransferFails, Tell, Go, IInv, DeviceInv, HandlerInv, Unhooked, Solo,
      TypeOK, IrqTypeOK, Tools, Hosts, irqVars, fpga, driver, kernelVars
<1>6. TransferInv'
  BY <1>0, ProcsAssumption
  DEF ToolTransferFails, Tell, Go, IInv, TransferInv, DeviceInv, Solo, TypeOK,
      IrqTypeOK, Tools, irqVars, fpga, driver, kernelVars
<1> QED
  BY <1>1, <1>2, <1>3, <1>4, <1>5, <1>6 DEF IInv

LEMMA ToolRestoreKeeps ==
    ASSUME IInv, NEW p \in Tools, ToolRestore(p)
    PROVE  IInv'
<1>0. p \in Procs
  BY ProcsAssumption DEF Tools, Hosts
<1>1. TypeOK'
  BY <1>0, ProcsAssumption
  DEF ToolRestore, Move, Go, SetBridges, IInv, TypeOK, IrqTypeOK, HostSteps,
      ToolSteps, Hosts, Tools, driver, kernelVars
<1>2. Solo'
  BY <1>0
  DEF ToolRestore, Move, Go, SetBridges, IInv, Solo, TypeOK, driver, kernelVars
<1>3. CallsMatchSteps'
  BY <1>0
  DEF ToolRestore, Move, Go, SetBridges, IInv, CallsMatchSteps, TypeOK,
      IrqTypeOK, driver, kernelVars
<1>4. HandlerInv'
  BY <1>0, ProcsAssumption
  DEF ToolRestore, Move, Go, SetBridges, IInv, HandlerInv, Unhooked, Solo,
      CallsMatchSteps, DeviceInv, TypeOK, IrqTypeOK, Tools, driver, kernelVars
<1>5. DeviceInv'
  <2>1. \A q \in Tools : step'[q] \notin {"isolated", "erased", "loaded"}
    BY <1>0, ProcsAssumption
    DEF ToolRestore, Move, Go, SetBridges, IInv, Solo, TypeOK, Tools
  <2>2. bridges'
    BY DEF ToolRestore, SetBridges
  <2>3. \A q \in Hosts : step'[q] # "out" => configured
    BY <1>0
    DEF ToolRestore, Move, Go, SetBridges, IInv, Solo, TypeOK, DeviceInv,
        Hosts, Tools
  <2> QED
    BY <2>1, <2>2, <2>3
    DEF ToolRestore, SetBridges, IInv, DeviceInv, fpga, driver, kernelVars,
        irqVars, programs
<1>6. TransferInv'
  BY <1>0, ProcsAssumption
  DEF ToolRestore, Move, Go, SetBridges, IInv, TransferInv, DeviceInv, Solo,
      TypeOK, IrqTypeOK, Tools, driver, kernelVars
<1> QED
  BY <1>1, <1>2, <1>3, <1>4, <1>5, <1>6 DEF IInv

LEMMA ToolLoadKeeps ==
    ASSUME IInv, NEW p \in Tools, ToolLoad(p)
    PROVE  IInv'
<1>0. p \in Procs
  BY ProcsAssumption DEF Tools, Hosts
<1>1. TypeOK'
  <2>1. \E s \in ToolSteps : step' = [step EXCEPT ![p] = s]
    BY DEF ToolLoad, Move, Go, LoadRequest, Brief, Enter, ToolSteps
  <2>2. call' \in [Procs -> Calls] /\ sem' \in People
    BY <1>0
    DEF ToolLoad, Move, Go, LoadRequest, Brief, Enter, IInv, TypeOK, IrqTypeOK,
        Calls, People
  <2>3. handler' \in BOOLEAN
    BY DEF ToolLoad, Move, Go, LoadRequest, Brief, Enter, IInv, TypeOK,
       IrqTypeOK
  <2>4. IrqTypeOK'
    BY <2>2, <2>3
    DEF ToolLoad, Move, Go, LoadRequest, Brief, Enter, IInv, TypeOK, IrqTypeOK,
        fpga, driver, kernelVars, irqVars, programs
  <2> QED
    BY <2>1, <2>4, ToolStepTyped
    DEF ToolLoad, Move, Go, LoadRequest, Brief, Enter, IInv, TypeOK
<1>2. Solo'
  BY <1>0
  DEF ToolLoad, Move, Go, LoadRequest, Brief, Enter, IInv, Solo, TypeOK, fpga,
      kernelVars
<1>3. CallsMatchSteps'
  BY <1>0
  DEF ToolLoad, Move, Go, LoadRequest, Brief, Enter, IInv, CallsMatchSteps,
      TypeOK, IrqTypeOK, fpga, kernelVars
<1>4. HandlerInv'
  BY <1>0, ProcsAssumption
  DEF ToolLoad, Move, Go, LoadRequest, Brief, Enter, IInv, HandlerInv,
      Unhooked, Solo, CallsMatchSteps, DeviceInv, TypeOK, IrqTypeOK, Tools,
      fpga, kernelVars
<1>5. DeviceInv'
  BY <1>0, ProcsAssumption
  DEF ToolLoad, Move, Go, LoadRequest, Brief, Enter, IInv, DeviceInv,
      HandlerInv, Unhooked, Solo, TypeOK, IrqTypeOK, Tools, Hosts, fpga,
      kernelVars
<1>6. TransferInv'
  BY <1>0, ProcsAssumption
  DEF ToolLoad, Move, Go, LoadRequest, Brief, Enter, IInv, TransferInv,
      DeviceInv, Solo, TypeOK, IrqTypeOK, Tools, fpga, kernelVars
<1> QED
  BY <1>1, <1>2, <1>3, <1>4, <1>5, <1>6 DEF IInv

LEMMA ToolUnmaskKeeps ==
    ASSUME IInv, NEW p \in Tools, ToolUnmask(p)
    PROVE  IInv'
<1>0. p \in Procs
  BY ProcsAssumption DEF Tools, Hosts
<1>1. TypeOK'
  BY <1>0, ProcsAssumption
  DEF ToolUnmask, Move, Go, LoadUnmask, Inside, Leave, IInv, TypeOK, IrqTypeOK,
      Calls, People, HostSteps, ToolSteps, Hosts, Tools, fpga, driver,
      kernelVars
<1>2. Solo'
  BY <1>0
  DEF ToolUnmask, Move, Go, LoadUnmask, Inside, Leave, IInv, Solo, TypeOK,
      fpga, driver, kernelVars
<1>3. CallsMatchSteps'
  BY <1>0
  DEF ToolUnmask, Move, Go, LoadUnmask, Inside, Leave, IInv, CallsMatchSteps,
      TypeOK, IrqTypeOK, fpga, driver, kernelVars
<1>4. HandlerInv'
  BY <1>0, ProcsAssumption
  DEF ToolUnmask, Move, Go, LoadUnmask, Inside, Leave, IInv, HandlerInv,
      Unhooked, Solo, CallsMatchSteps, DeviceInv, TypeOK, IrqTypeOK, Tools,
      fpga, driver, kernelVars
<1>5. DeviceInv'
  BY <1>0, ProcsAssumption
  DEF ToolUnmask, Move, Go, LoadUnmask, Inside, Leave, IInv, DeviceInv,
      HandlerInv, Unhooked, Solo, TypeOK, IrqTypeOK, Tools, Hosts, fpga,
      driver, kernelVars
<1>6. TransferInv'
  BY <1>0, ProcsAssumption
  DEF ToolUnmask, Move, Go, LoadUnmask, Inside, Leave, IInv, TransferInv,
      DeviceInv, Solo, TypeOK, IrqTypeOK, Tools, fpga, driver, kernelVars
<1> QED
  BY <1>1, <1>2, <1>3, <1>4, <1>5, <1>6 DEF IInv

LEMMA ToolReportKeeps ==
    ASSUME IInv, NEW p \in Tools, ToolReport(p)
    PROVE  IInv'
<1>0. p \in Procs
  BY ProcsAssumption DEF Tools, Hosts
<1>1. TypeOK'
  <2>1. step' = [step EXCEPT ![p] = "leaving"] /\ "leaving" \in ToolSteps
    BY DEF ToolReport, Tell, Go, ToolSteps
  <2>2. ret' \in [Tools -> Rets]
    BY DEF ToolReport, Tell, Go, IInv, TypeOK, Rets
  <2> QED
    BY <2>1, <2>2, ToolStepTyped
    DEF ToolReport, Tell, Go, IInv, TypeOK, IrqTypeOK, fpga, driver,
        kernelVars, irqVars, programs
<1>2. Solo'
  BY <1>0
  DEF ToolReport, Tell, Go, IInv, Solo, TypeOK, irqVars, fpga, driver,
      kernelVars
<1>3. CallsMatchSteps'
  BY <1>0
  DEF ToolReport, Tell, Go, IInv, CallsMatchSteps, TypeOK, IrqTypeOK, irqVars,
      fpga, driver, kernelVars
<1>4. HandlerInv'
  BY <1>0, ProcsAssumption
  DEF ToolReport, Tell, Go, IInv, HandlerInv, Unhooked, Solo, CallsMatchSteps,
      DeviceInv, TypeOK, IrqTypeOK, Tools, irqVars, fpga, driver, kernelVars
<1>5. DeviceInv'
  BY <1>0, ProcsAssumption
  DEF ToolReport, Tell, Go, IInv, DeviceInv, HandlerInv, Unhooked, Solo,
      TypeOK, IrqTypeOK, Tools, Hosts, irqVars, fpga, driver, kernelVars
<1>6. TransferInv'
  BY <1>0, ProcsAssumption
  DEF ToolReport, Tell, Go, IInv, TransferInv, DeviceInv, Solo, TypeOK,
      IrqTypeOK, Tools, irqVars, fpga, driver, kernelVars
<1> QED
  BY <1>1, <1>2, <1>3, <1>4, <1>5, <1>6 DEF IInv

LEMMA ToolFinishKeeps ==
    ASSUME IInv, NEW p \in Tools, ToolFinish(p)
    PROVE  IInv'
<1>0. p \in Procs
  BY ProcsAssumption DEF Tools, Hosts
<1>1. TypeOK'
  BY <1>0, ProcsAssumption
  DEF ToolFinish, Tell, Go, Close, Brief, IInv, TypeOK, IrqTypeOK, Rets,
      HostSteps, ToolSteps, Hosts, Tools, fpga, driver, kernelVars
<1>2. Solo'
  BY <1>0
  DEF ToolFinish, Tell, Go, Close, Brief, IInv, Solo, TypeOK, fpga, driver,
      kernelVars
<1>3. CallsMatchSteps'
  BY <1>0
  DEF ToolFinish, Tell, Go, Close, Brief, IInv, CallsMatchSteps, TypeOK,
      IrqTypeOK, fpga, driver, kernelVars
<1>4. HandlerInv'
  BY <1>0, ProcsAssumption
  DEF ToolFinish, Tell, Go, Close, Brief, IInv, HandlerInv, Unhooked, Solo,
      CallsMatchSteps, DeviceInv, TypeOK, IrqTypeOK, Tools, fpga, driver,
      kernelVars
<1>5. DeviceInv'
  BY <1>0, ProcsAssumption
  DEF ToolFinish, Tell, Go, Close, Brief, IInv, DeviceInv, HandlerInv,
      Unhooked, Solo, TypeOK, IrqTypeOK, Tools, Hosts, fpga, driver, kernelVars
<1>6. TransferInv'
  BY <1>0, ProcsAssumption
  DEF ToolFinish, Tell, Go, Close, Brief, IInv, TransferInv, DeviceInv, Solo,
      TypeOK, IrqTypeOK, Tools, fpga, driver, kernelVars
<1> QED
  BY <1>1, <1>2, <1>3, <1>4, <1>5, <1>6 DEF IInv

----------------------------------------------------------------------------
(* Theorems *)

\* The driver after insmod, with nobody using it.
LEMMA InitIInv == Init => IInv
<1> SUFFICES ASSUME Init PROVE IInv
  OBVIOUS
<1>1. TypeOK
  <2>1. inbox \in [Procs -> Seq(People)]
    BY DEF Init, IrqInit
  <2>2. IrqTypeOK
    BY <2>1 DEF Init, IrqInit, IrqTypeOK, IrqPcs, Calls, People
  <2>3. /\ step \in [Procs -> HostSteps \cup ToolSteps]
        /\ \A p \in Hosts : step[p] \in HostSteps
        /\ \A p \in Tools : step[p] \in ToolSteps
    BY ProcsAssumption DEF Init, HostSteps, ToolSteps, Tools, Hosts
  <2> QED
    BY <2>2, <2>3 DEF Init, TypeOK, Rets
<1>2. Solo /\ CallsMatchSteps /\ HandlerInv /\ DeviceInv /\ TransferInv
  BY ProcsAssumption
  DEF Init, IrqInit, Solo, CallsMatchSteps, HandlerInv, DeviceInv, TransferInv,
      Unhooked, Tools, Hosts
<1> QED
  BY <1>1, <1>2 DEF IInv

LEMMA StutterIInv == IInv /\ UNCHANGED vars => IInv'
BY DEF vars, programs, irqVars, fpga, driver, kernelVars, IInv, TypeOK,
   IrqTypeOK, Solo, CallsMatchSteps, HandlerInv, DeviceInv, TransferInv,
   Unhooked

\* A step of anybody.
LEMMA NextIInv == IInv /\ [Next]_vars => IInv'
<1> SUFFICES ASSUME IInv, [Next]_vars PROVE IInv'
  OBVIOUS
<1>1. CASE Irq
  BY <1>1, IrqKeeps
<1>2. CASE Device
  BY <1>2, DeviceKeeps
<1>3. ASSUME NEW p \in Procs, Exit(p) \/ Crash(p) \/ Start(p)
      PROVE  IInv'
  BY <1>3, ExitKeeps, CrashKeeps, StartKeeps
<1>4. ASSUME NEW p \in Procs, Open(p) \/ Opened(p)
      PROVE  IInv'
  BY <1>4, OpenKeeps, OpenedKeeps
<1>5. ASSUME NEW p \in Hosts, HostStep(p)
      PROVE  IInv'
  <2> p \in Procs
    BY DEF Hosts
  <2> QED
    BY <1>4, <1>5, NameKeeps, NameFailsKeeps, FirstEnableKeeps, LaunchKeeps, TakeSignalKeeps,
       ClearDoneKeeps, UnmaskKeeps, FinishKeeps
    DEF HostStep
<1>6. ASSUME NEW p \in Tools, ToolStep(p)
      PROVE  IInv'
  <2> p \in Procs
    BY ProcsAssumption DEF Tools
  <2> QED
    BY <1>4, <1>6, ToolUnpackKeeps, ToolSaveKeeps, ToolUnhookKeeps,
       ToolSyncKeeps, ToolIsolateKeeps, ToolEraseKeeps, ToolConfigureKeeps,
       ToolTransferFailsKeeps, ToolRestoreKeeps, ToolLoadKeeps,
       ToolUnmaskKeeps, ToolReportKeeps, ToolFinishKeeps
    DEF ToolStep
<1>7. CASE UNCHANGED vars
  BY <1>7, StutterIInv
<1> QED
  BY <1>1, <1>2, <1>3, <1>5, <1>6, <1>7 DEF Next

\* The order of the protocol, with what each step of the tool owns.
THEOREM ProtocolInv == Spec => []IInv
BY InitIInv, NextIInv, PTL DEF Spec

\* Every variable keeps its type, the pending signals included.
THEOREM TypeCorrect == Spec => []TypeOK
<1>1. IInv => TypeOK
  BY DEF IInv
<1> QED
  BY <1>1, ProtocolInv, PTL

\* The interrupt is never raised while no handler is registered: release_irq
\* masks before free_irq, and nothing unmasks until request_irq.
THEOREM LineAlwaysClaimed == Spec => []LineIsClaimed
<1>1. IInv => LineIsClaimed
  BY DEF IInv, TypeOK, IrqTypeOK, HandlerInv, LineIsClaimed, Line
<1> QED
  BY <1>1, ProtocolInv, PTL

\* No host and no handler meets a closed bridge or an empty FPGA, and no call
\* a closed bridge.
THEOREM RegistersAreReachable == Spec => []AccessNeedsBridges
<1>1. ASSUME IInv PROVE AccessNeedsBridges
  <2>1. ASSUME NEW p \in Tools,
               step[p] \in {"isolated", "erased", "loaded"}
        PROVE  irqPc # "mask" /\ \A q \in Procs \ {p} : step[q] = "out"
    <3>1. p \in Procs /\ Unhooked(p)
      BY <2>1, ProcsAssumption DEF Tools, Unhooked
    <3>2. ~handler /\ \A q \in Procs \ {p} : step[q] = "out"
      BY <1>1, <2>1, <3>1 DEF IInv, HandlerInv, Solo
    <3>3. \A q \in Tools : step[q] # "saving"
      BY <2>1, <3>1, <3>2, ProcsAssumption DEF Tools
    <3> QED
      BY <1>1, <3>2, <3>3 DEF IInv, HandlerInv
  <2>2. irqPc = "mask" => bridges /\ configured
    BY <1>1, <2>1 DEF IInv, DeviceInv
  <2>3. ASSUME NEW p \in Hosts, step[p] \in {"dealing", "cleared"}
        PROVE  bridges /\ configured
    <3>1. p \notin Tools /\ p \in Procs
      BY DEF Hosts, Tools
    <3> QED
      BY <1>1, <2>1, <2>3, <3>1 DEF IInv, DeviceInv
  <2>4. ASSUME NEW p \in Tools, call[p] \in {"sync", "load"}
        PROVE  bridges /\ (configured \/ ret[p] # "moved")
    <3>1. p \in Procs /\ step[p] \in {"saving", "loading"}
      BY <1>1, <2>4, ProcsAssumption DEF IInv, CallsMatchSteps, Tools
    <3>2. bridges
      BY <1>1, <2>1, <3>1 DEF IInv, DeviceInv
    <3> QED
      BY <1>1, <3>2 DEF IInv, TransferInv
  <2> QED
    BY <2>2, <2>3, <2>4 DEF AccessNeedsBridges
<1> QED
  BY <1>1, ProtocolInv, PTL

\* A transfer that succeeds leaves a handler, an unmasked interrupt that is
\* not raised, bridges and a design, whatever happened before.
THEOREM ReprogrammedIsReady == Spec => []ReadyAfterReprogram
<1>1. ASSUME IInv PROVE ReadyAfterReprogram
  <2> SUFFICES ASSUME NEW p \in Tools, step[p] = "programmed", ret[p] = "moved"
               PROVE  handler /\ ena /\ irqPc = "off" /\ bridges /\ configured
    BY DEF ReadyAfterReprogram
  <2>1. \A q \in Tools : q # p => step[q] = "out"
    BY <1>1, ProcsAssumption DEF IInv, Solo, Tools
  <2>2. handler /\ bridges
    BY <1>1, <2>1 DEF IInv, HandlerInv, DeviceInv, Unhooked
  <2> QED
    BY <1>1, <2>2 DEF IInv, TransferInv
<1> QED
  BY <1>1, ProtocolInv, PTL

\* Whatever became of its file and its transfer, a tool leaves the handler and
\* the bridges in place and does not claim a success that was none.
THEOREM ToolsLeaveInOrder == Spec => []ToolLeavesInOrder
<1>1. ASSUME IInv PROVE ToolLeavesInOrder
  <2> SUFFICES ASSUME NEW p \in Tools, step[p] = "leaving"
               PROVE  /\ handler /\ bridges /\ call[p] = "none"
                      /\ ret[p] = "ok" => configured
    BY DEF ToolLeavesInOrder
  <2>1. p \in Procs /\ \A q \in Tools : q # p => step[q] = "out"
    BY <1>1, ProcsAssumption DEF IInv, Solo, Tools
  <2>2. handler /\ bridges
    BY <1>1, <2>1 DEF IInv, HandlerInv, DeviceInv, Unhooked
  <2>3. call[p] = "none"
    BY <1>1, <2>1 DEF IInv, TypeOK, IrqTypeOK, Calls, CallsMatchSteps
  <2> QED
    BY <1>1, <2>2, <2>3 DEF IInv, TransferInv
<1> QED
  BY <1>1, ProtocolInv, PTL

=============================================================================
