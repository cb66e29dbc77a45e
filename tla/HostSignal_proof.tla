-------------------------- MODULE HostSignal_proof --------------------------
(***************************************************************************)
(* Proofs about the signals of HostSession: as long as nobody is killed    *)
(* and no signal is lost, a signal that waits announces a kernel of its    *)
(* receiver, the interrupt is masked only on the way to somebody who will  *)
(* unmask it, and the handler finds its task alive, for any number of      *)
(* hosts and tools and whatever becomes of the tools' transfers.           *)
(***************************************************************************)
EXTENDS HostSession_proof

\* The program that has the device open is alive and the one to be signalled.
OwnerInv ==
    \A p \in Procs :
        /\ step[p] # "out" => p \notin dead /\ task = p
        /\ step[p] \in {"named", "ready", "dealing", "cleared"} => payload = p

NoSignals == \A p \in Procs : inbox[p] = <<>>

\* A signal waits for a host that does nothing else, and its kernel is done.
WaitingInv ==
    \A p \in Procs : inbox[p] # <<>> =>
        /\ inbox[p] = <<p>> /\ p \in Hosts /\ step[p] = "ready"
        /\ done /\ ~ena /\ irqPc = "off"

\* The handler runs for the kernel of such a host, before its signal.
RunningInv ==
    /\ irqPc # "off" =>
           NoSignals /\ done /\ \E p \in Hosts : step[p] = "ready"
    /\ irqPc = "send" => ~ena

\* A kernel has its host, and only a kernel that runs or is done has one.
KernelInv ==
    /\ ~(done /\ running)
    /\ done \/ running => owner \in Hosts
    /\ done => step[owner] \in {"ready", "dealing"}
    /\ running => step[owner] = "ready"
    /\ ~done /\ ~running => owner = Nobody

\* A host that has taken its signal is alone with its kernel.
DealingInv ==
    \A p \in Hosts :
        /\ step[p] = "dealing" => NoSignals /\ done /\ ~ena /\ irqPc = "off"
        /\ step[p] = "cleared" => ~done /\ ~running

OrderInv ==
    /\ OwnerInv
    /\ orderly => WaitingInv /\ RunningInv /\ KernelInv /\ DealingInv
    /\ MaskedIsOwed

----------------------------------------------------------------------------
(* The tool                                                                *)

\* While a tool has the device open nothing of a host is left, as long as
\* everything is in order.
LEMMA ToolAlone ==
    ASSUME IInv, OrderInv, NEW p \in Tools, step[p] # "out"
    PROVE  /\ p \in Procs /\ \A q \in Procs \ {p} : step[q] = "out"
           /\ orderly => /\ NoSignals /\ irqPc = "off"
                         /\ ~done /\ ~running /\ owner = Nobody
<1>1. p \in Procs /\ \A q \in Procs \ {p} : step[q] = "out"
  BY ProcsAssumption DEF Tools, IInv, Solo
<1>2. \A q \in Hosts : step[q] = "out"
  BY <1>1 DEF Tools, Hosts
<1>3. orderly => NoSignals
  BY <1>2 DEF OrderInv, WaitingInv, NoSignals
<1>4. orderly => irqPc = "off"
  BY <1>2 DEF OrderInv, RunningInv
<1>5. orderly => ~done /\ ~running /\ owner = Nobody
  BY <1>2 DEF OrderInv, KernelInv
<1> QED
  BY <1>1, <1>3, <1>4, <1>5

\* So the tool's steps can disturb the mask alone.
LEMMA ToolKeeps ==
    ASSUME IInv, OrderInv, NEW p \in Tools, step[p] # "out",
           step'[p] \in ToolSteps,
           \A q \in Procs \ {p} : step'[q] = step[q],
           UNCHANGED <<inbox, irqPc, done, running, owner, task, dead,
                       orderly>>,
           MaskedIsOwed'
    PROVE  OrderInv'
<1>1. /\ p \in Procs /\ p \notin Hosts
      /\ \A q \in Procs \ {p} : step'[q] = "out"
  BY ToolAlone DEF Tools, Hosts
<1>2. \A q \in Hosts : step'[q] = "out"
  BY <1>1 DEF Hosts
<1>3. orderly => /\ NoSignals /\ irqPc = "off"
                 /\ ~done /\ ~running /\ owner = Nobody
  BY ToolAlone
<1>4. OwnerInv'
  BY <1>1 DEF OwnerInv, OrderInv, ToolSteps
<1>5. orderly => WaitingInv'
  BY <1>3 DEF NoSignals, WaitingInv
<1>6. orderly => RunningInv'
  BY <1>3 DEF RunningInv
<1>7. orderly => KernelInv'
  BY <1>3 DEF KernelInv
<1>8. orderly => DealingInv'
  BY <1>2 DEF DealingInv
<1> QED
  BY <1>4, <1>5, <1>6, <1>7, <1>8 DEF OrderInv

LEMMA ToolStepsKeep ==
    ASSUME IInv, OrderInv, NEW p \in Tools,
           ToolStep(p), ~Open(p), ~Opened(p), ~ToolErase(p)
    PROVE  OrderInv'
<1>0. p \in Procs
  BY ProcsAssumption DEF Tools
<1>1. CASE ToolUnpack(p)
  <2>1. step[p] # "out" /\ step'[p] \in ToolSteps
    BY <1>0, <1>1 DEF ToolUnpack, Tell, Go, ToolSteps, IInv, TypeOK
  <2>2. /\ \A q \in Procs \ {p} : step'[q] = step[q]
        /\ UNCHANGED <<inbox, irqPc, done, running, owner, task, dead, orderly>>
    BY <1>0, <1>1
    DEF ToolUnpack, Tell, Go, IInv, TypeOK, fpga, driver, kernelVars, irqVars
  <2>3. MaskedIsOwed'
    BY <1>0, <1>1, <2>1, <2>2, ToolAlone
    DEF ToolUnpack, Tell, Go, MaskedIsOwed, OrderInv, driver, irqVars
  <2> QED
    BY <2>1, <2>2, <2>3, ToolKeeps
<1>2. CASE ToolSave(p)
  <2>1. step[p] # "out" /\ step'[p] \in ToolSteps
    BY <1>0, <1>2 DEF ToolSave, Move, Go, ToolSteps
  <2>2. /\ \A q \in Procs \ {p} : step'[q] = step[q]
        /\ UNCHANGED <<inbox, irqPc, done, running, owner, task, dead, orderly>>
    BY <1>0, <1>2 DEF ToolSave, SaveMask, Move, Go, fpga, driver, kernelVars
  <2>3. MaskedIsOwed'
    BY <1>0, <1>2, <2>1, <2>2, ToolAlone
    DEF ToolSave, SaveMask, Enter, MaskedIsOwed, IInv, TypeOK, IrqTypeOK
  <2> QED
    BY <2>1, <2>2, <2>3, ToolKeeps
<1>3. CASE ToolUnhook(p)
  <2>1. step[p] # "out" /\ step'[p] \in ToolSteps
    BY <1>0, <1>3
    DEF ToolUnhook, SaveUnhook, Inside, CallsMatchSteps, IInv, TypeOK, programs
  <2>2. /\ \A q \in Procs \ {p} : step'[q] = step[q]
        /\ UNCHANGED <<inbox, irqPc, done, running, owner, task, dead, orderly>>
    BY <1>0, <1>3 DEF ToolUnhook, SaveUnhook, fpga, kernelVars, programs
  <2>3. MaskedIsOwed'
    BY <1>0, <1>3, <2>1, <2>2, ToolAlone
    DEF ToolUnhook, SaveUnhook, MaskedIsOwed
  <2> QED
    BY <2>1, <2>2, <2>3, ToolKeeps
<1>4. CASE ToolSync(p)
  <2>1. step[p] # "out" /\ step'[p] \in ToolSteps
    BY <1>0, <1>4 DEF ToolSync, Move, Go, ToolSteps
  <2>2. /\ \A q \in Procs \ {p} : step'[q] = step[q]
        /\ UNCHANGED <<inbox, irqPc, done, running, owner, task, dead, orderly>>
    BY <1>0, <1>4 DEF ToolSync, SaveSync, Move, Go, fpga, driver, kernelVars
  <2>3. MaskedIsOwed'
    BY <1>0, <1>4, <2>1, <2>2, ToolAlone
    DEF ToolSync, SaveSync, Inside, Move, Go, MaskedIsOwed, IInv, HandlerInv,
        Unhooked, driver
  <2> QED
    BY <2>1, <2>2, <2>3, ToolKeeps
<1>5. CASE ToolIsolate(p)
  <2>1. step[p] # "out" /\ step'[p] \in ToolSteps
    BY <1>0, <1>5 DEF ToolIsolate, Move, Go, ToolSteps
  <2>2. /\ \A q \in Procs \ {p} : step'[q] = step[q]
        /\ UNCHANGED <<inbox, irqPc, done, running, owner, task, dead, orderly>>
    BY <1>0, <1>5 DEF ToolIsolate, SetBridges, Move, Go, driver, kernelVars
  <2>3. MaskedIsOwed'
    BY <1>0, <1>5, <2>1, <2>2, ToolAlone
    DEF ToolIsolate, SetBridges, Move, Go, MaskedIsOwed, IInv, HandlerInv,
        Unhooked, driver
  <2> QED
    BY <2>1, <2>2, <2>3, ToolKeeps
<1>6. CASE ToolConfigure(p)
  <2>1. step[p] # "out" /\ step'[p] \in ToolSteps
    BY <1>0, <1>6 DEF ToolConfigure, Tell, Go, ToolSteps
  <2>2. /\ \A q \in Procs \ {p} : step'[q] = step[q]
        /\ UNCHANGED <<inbox, irqPc, done, running, owner, task, dead, orderly>>
    BY <1>0, <1>6 DEF ToolConfigure, Configure, Tell, Go, driver, kernelVars
  <2>3. MaskedIsOwed'
    BY <1>0, <1>6, <2>1, <2>2, ToolAlone
    DEF ToolConfigure, Configure, MaskedIsOwed
  <2> QED
    BY <2>1, <2>2, <2>3, ToolKeeps
<1>7. CASE ToolTransferFails(p)
  <2>1. step[p] # "out" /\ step'[p] \in ToolSteps
    BY <1>0, <1>7 DEF ToolTransferFails, Tell, Go, ToolSteps
  <2>2. /\ \A q \in Procs \ {p} : step'[q] = step[q]
        /\ UNCHANGED <<inbox, irqPc, done, running, owner, task, dead, orderly>>
    BY <1>0, <1>7
    DEF ToolTransferFails, Tell, Go, fpga, driver, kernelVars, irqVars
  <2>3. MaskedIsOwed'
    BY <1>0, <1>7, <2>1, <2>2, ToolAlone
    DEF ToolTransferFails, Tell, Go, MaskedIsOwed, IInv, HandlerInv, Unhooked,
        driver, irqVars
  <2> QED
    BY <2>1, <2>2, <2>3, ToolKeeps
<1>8. CASE ToolRestore(p)
  <2>1. step[p] # "out" /\ step'[p] \in ToolSteps
    BY <1>0, <1>8 DEF ToolRestore, Move, Go, ToolSteps
  <2>2. /\ \A q \in Procs \ {p} : step'[q] = step[q]
        /\ UNCHANGED <<inbox, irqPc, done, running, owner, task, dead, orderly>>
    BY <1>0, <1>8 DEF ToolRestore, SetBridges, Move, Go, driver, kernelVars
  <2>3. MaskedIsOwed'
    BY <1>0, <1>8, <2>1, <2>2, ToolAlone
    DEF ToolRestore, SetBridges, Move, Go, MaskedIsOwed, IInv, HandlerInv,
        Unhooked, driver
  <2> QED
    BY <2>1, <2>2, <2>3, ToolKeeps
<1>9. CASE ToolLoad(p)
  <2>1. step[p] # "out" /\ step'[p] \in ToolSteps
    BY <1>0, <1>9 DEF ToolLoad, Move, Go, ToolSteps
  <2>2. /\ \A q \in Procs \ {p} : step'[q] = step[q]
        /\ UNCHANGED <<inbox, irqPc, done, running, owner, task, dead, orderly>>
    BY <1>0, <1>9 DEF ToolLoad, LoadRequest, Move, Go, fpga, kernelVars
  <2>3. MaskedIsOwed'
    BY <1>0, <1>9, <2>1, <2>2, ToolAlone
    DEF ToolLoad, LoadRequest, Enter, Move, Go, MaskedIsOwed, IInv, HandlerInv,
        Unhooked, TypeOK, IrqTypeOK
  <2> QED
    BY <2>1, <2>2, <2>3, ToolKeeps
<1>10. CASE ToolUnmask(p)
  <2>1. step[p] # "out" /\ step'[p] \in ToolSteps
    BY <1>0, <1>10 DEF ToolUnmask, Move, Go, ToolSteps
  <2>2. /\ \A q \in Procs \ {p} : step'[q] = step[q]
        /\ UNCHANGED <<inbox, irqPc, done, running, owner, task, dead, orderly>>
    BY <1>0, <1>10
    DEF ToolUnmask, LoadUnmask, Move, Go, fpga, driver, kernelVars
  <2>3. MaskedIsOwed'
    BY <1>0, <1>10, <2>1, <2>2, ToolAlone
    DEF ToolUnmask, LoadUnmask, MaskedIsOwed
  <2> QED
    BY <2>1, <2>2, <2>3, ToolKeeps
<1>11. CASE ToolReport(p)
  <2>1. step[p] # "out" /\ step'[p] \in ToolSteps
    BY <1>0, <1>11 DEF ToolReport, Tell, Go, ToolSteps, IInv, TypeOK
  <2>2. /\ \A q \in Procs \ {p} : step'[q] = step[q]
        /\ UNCHANGED <<inbox, irqPc, done, running, owner, task, dead, orderly>>
    BY <1>0, <1>11
    DEF ToolReport, Tell, Go, IInv, TypeOK, fpga, driver, kernelVars, irqVars
  <2>3. MaskedIsOwed'
    BY <1>0, <1>11, <2>1, <2>2, ToolAlone
    DEF ToolReport, Tell, Go, MaskedIsOwed, OrderInv, driver, irqVars
  <2> QED
    BY <2>1, <2>2, <2>3, ToolKeeps
<1>12. CASE ToolFinish(p)
  <2>1. step[p] # "out" /\ step'[p] \in ToolSteps
    BY <1>0, <1>12 DEF ToolFinish, Tell, Go, ToolSteps
  <2>2. /\ \A q \in Procs \ {p} : step'[q] = step[q]
        /\ UNCHANGED <<inbox, irqPc, done, running, owner, task, dead, orderly>>
    BY <1>0, <1>12 DEF ToolFinish, Close, Tell, Go, fpga, driver, kernelVars
  <2>3. MaskedIsOwed'
    BY <1>0, <1>12, <2>1, <2>2, ToolAlone
    DEF ToolFinish, Close, Brief, Tell, Go, MaskedIsOwed, OrderInv, driver
  <2> QED
    BY <2>1, <2>2, <2>3, ToolKeeps
<1> QED
  BY <1>1, <1>2, <1>3, <1>4, <1>5, <1>6, <1>7, <1>8, <1>9, <1>10, <1>11, <1>12
  DEF ToolStep


\* The erasure of the FPGA, after which everything is in order again if no
\* signal waits.
LEMMA ToolEraseOrders ==
    ASSUME IInv, OrderInv, NEW p \in Tools, ToolErase(p)
    PROVE  OrderInv'
<1>1. /\ step[p] = "isolated" /\ step' = [step EXCEPT ![p] = "erased"]
      /\ ~done' /\ ~running' /\ owner' = Nobody
      /\ orderly' = (orderly \/ NoSignals)
      /\ UNCHANGED <<ena, bridges, sem, task, payload, handler, irqPc, call,
                     inbox, dead>>
  BY DEF ToolErase, Erase, Go, NoSignals, driver, kernelVars
<1>2. p \in Procs /\ p \notin Hosts /\ \A q \in Procs \ {p} : step[q] = "out"
  BY <1>1, ToolAlone DEF Tools, Hosts
<1>3. orderly' => NoSignals
  BY <1>1, ToolAlone
<1>4. ~handler /\ irqPc = "off"
  <2>1. ~handler
    BY <1>1 DEF IInv, HandlerInv, Unhooked
  <2>2. \A q \in Tools : step[q] # "saving"
    BY <1>1, <1>2, ProcsAssumption DEF Tools
  <2> QED
    BY <2>1, <2>2 DEF IInv, HandlerInv
<1>5. step'[p] = "erased" /\ \A q \in Procs \ {p} : step'[q] = "out"
  BY <1>1, <1>2 DEF IInv, TypeOK
<1>6. OwnerInv'
  BY <1>1, <1>5 DEF OrderInv, OwnerInv
<1>7. orderly' => WaitingInv'
  BY <1>1, <1>3 DEF NoSignals, WaitingInv
<1>8. RunningInv' /\ KernelInv'
  BY <1>1, <1>4 DEF RunningInv, KernelInv
<1>9. DealingInv'
  BY <1>2, <1>5 DEF DealingInv, Hosts
<1>10. MaskedIsOwed'
  BY <1>1, <1>4 DEF MaskedIsOwed
<1> QED
  BY <1>6, <1>7, <1>8, <1>9, <1>10 DEF OrderInv

----------------------------------------------------------------------------
(* The device and the handler, starts and exits, the hosts                 *)

\* When a host has the device open, no other program has.
LEMMA HostAlone ==
    ASSUME IInv, NEW p \in Hosts, step[p] # "out"
    PROVE  p \in Procs /\ \A q \in Procs \ {p} : step[q] = "out"
BY DEF Hosts, IInv, Solo

LEMMA DeviceOrders ==
    ASSUME IInv, OrderInv, Device
    PROVE  OrderInv'
<1>1. OwnerInv'
  BY ProcsAssumption
  DEF Device, KernelDone, OrderInv, OwnerInv, driver, kernelVars, programs
<1>2. (orderly => WaitingInv)'
  BY ProcsAssumption
  DEF Device, KernelDone, OrderInv, kernelVars, programs, WaitingInv
<1>3. (orderly => RunningInv)'
  BY ProcsAssumption
  DEF Device, KernelDone, OrderInv, programs, RunningInv, KernelInv
<1>4. (orderly => KernelInv)'
  BY ProcsAssumption DEF Device, KernelDone, OrderInv, programs, KernelInv
<1>5. (orderly => DealingInv)'
  BY ProcsAssumption
  DEF Device, KernelDone, OrderInv, programs, DealingInv, KernelInv
<1>6. MaskedIsOwed'
  BY ProcsAssumption
  DEF Device, KernelDone, OrderInv, driver, programs, MaskedIsOwed, WaitingInv,
      KernelInv
<1> QED
  BY <1>1, <1>2, <1>3, <1>4, <1>5, <1>6 DEF OrderInv

LEMMA ExitOrders ==
    ASSUME IInv, OrderInv, NEW p \in Procs, Exit(p)
    PROVE  OrderInv'
<1>1. OwnerInv'
  BY ProcsAssumption DEF Exit, OrderInv, OwnerInv, driver, programs
<1>2. (orderly => WaitingInv)'
  BY ProcsAssumption DEF Exit, OrderInv, fpga, programs, WaitingInv
<1>3. (orderly => RunningInv)'
  BY ProcsAssumption DEF Exit, OrderInv, fpga, programs, RunningInv, NoSignals
<1>4. (orderly => KernelInv)'
  BY ProcsAssumption DEF Exit, OrderInv, fpga, programs, KernelInv
<1>5. (orderly => DealingInv)'
  BY ProcsAssumption DEF Exit, OrderInv, fpga, programs, DealingInv, NoSignals
<1>6. MaskedIsOwed'
  BY ProcsAssumption
  DEF Exit, OrderInv, driver, programs, MaskedIsOwed, WaitingInv
<1> QED
  BY <1>1, <1>2, <1>3, <1>4, <1>5, <1>6 DEF OrderInv

LEMMA StartOrders ==
    ASSUME IInv, OrderInv, NEW p \in Procs, Start(p)
    PROVE  OrderInv'
<1>1. OwnerInv'
  BY ProcsAssumption DEF Start, OrderInv, OwnerInv, driver, programs
<1>2. (orderly => WaitingInv)'
  BY ProcsAssumption DEF Start, OrderInv, fpga, programs, WaitingInv
<1>3. (orderly => RunningInv)'
  BY ProcsAssumption DEF Start, OrderInv, fpga, programs, RunningInv, NoSignals
<1>4. (orderly => KernelInv)'
  BY ProcsAssumption DEF Start, OrderInv, fpga, programs, KernelInv
<1>5. (orderly => DealingInv)'
  BY ProcsAssumption DEF Start, OrderInv, fpga, programs, DealingInv, NoSignals
<1>6. MaskedIsOwed'
  BY ProcsAssumption DEF Start, OrderInv, driver, programs, MaskedIsOwed
<1> QED
  BY <1>1, <1>2, <1>3, <1>4, <1>5, <1>6 DEF OrderInv

LEMMA OpenOrders ==
    ASSUME IInv, OrderInv, NEW p \in Procs, Open(p)
    PROVE  OrderInv'
<1>1. OwnerInv'
  BY ProcsAssumption DEF Open, OpenTask, Move, Go, OwnerInv, kernelVars
<1>2. (orderly => WaitingInv)'
  BY ProcsAssumption DEF Open, OpenTask, Move, OrderInv, kernelVars, WaitingInv
<1>3. (orderly => RunningInv)'
  BY ProcsAssumption DEF Open, OpenTask, Move, OrderInv, Hosts, RunningInv
<1>4. (orderly => KernelInv)'
  BY ProcsAssumption DEF Open, OpenTask, Move, OrderInv, Hosts, fpga, KernelInv
<1>5. (orderly => DealingInv)'
  BY ProcsAssumption DEF Open, Move, Go, Hosts, DealingInv
<1>6. MaskedIsOwed'
  BY ProcsAssumption
  DEF Open, OpenTask, Enter, Move, OrderInv, MaskedIsOwed, WaitingInv
<1> QED
  BY <1>1, <1>2, <1>3, <1>4, <1>5, <1>6 DEF OrderInv

LEMMA OpenedOrders ==
    ASSUME IInv, OrderInv, NEW p \in Procs, Opened(p)
    PROVE  OrderInv'
<1>1. OwnerInv'
  BY ProcsAssumption
  DEF Opened, OpenSignal, Move, Go, OrderInv, OwnerInv, kernelVars
<1>2. (orderly => WaitingInv)'
  BY ProcsAssumption
  DEF Opened, OpenSignal, Move, Go, OrderInv, fpga, kernelVars, WaitingInv
<1>3. (orderly => RunningInv)'
  BY ProcsAssumption
  DEF Opened, OpenSignal, Move, Go, OrderInv, fpga, kernelVars, RunningInv,
      NoSignals
<1>4. (orderly => KernelInv)'
  BY ProcsAssumption
  DEF Opened, OpenSignal, Move, Go, OrderInv, fpga, KernelInv
<1>5. (orderly => DealingInv)'
  BY ProcsAssumption
  DEF Opened, Move, Go, OrderInv, OwnerInv, Hosts, DealingInv
<1>6. MaskedIsOwed'
  BY ProcsAssumption
  DEF Opened, OpenSignal, Inside, Leave, Move, Go, OrderInv, kernelVars,
      MaskedIsOwed
<1> QED
  BY <1>1, <1>2, <1>3, <1>4, <1>5, <1>6 DEF OrderInv

LEMMA NameOrders ==
    ASSUME IInv, OrderInv, NEW p \in Hosts, Name(p)
    PROVE  OrderInv'
<1>0. p \in Procs /\ p \notin Tools
  BY DEF Hosts, Tools
<1>1. OwnerInv'
  BY <1>0, ProcsAssumption
  DEF Name, SetPayload, Move, Go, OrderInv, OwnerInv, kernelVars
<1>2. (orderly => WaitingInv)'
  BY <1>0, ProcsAssumption
  DEF Name, SetPayload, Move, Go, OrderInv, fpga, kernelVars, WaitingInv
<1>3. (orderly => RunningInv)'
  BY <1>0, ProcsAssumption
  DEF Name, SetPayload, Move, Go, OrderInv, fpga, kernelVars, RunningInv,
      NoSignals
<1>4. (orderly => KernelInv)'
  BY <1>0, ProcsAssumption
  DEF Name, SetPayload, Move, Go, OrderInv, fpga, KernelInv
<1>5. (orderly => DealingInv)'
  BY <1>0, ProcsAssumption
  DEF Name, Move, Go, OrderInv, OwnerInv, Hosts, DealingInv
<1>6. MaskedIsOwed'
  BY <1>0, ProcsAssumption
  DEF Name, SetPayload, Brief, Move, Go, OrderInv, kernelVars, MaskedIsOwed
<1> QED
  BY <1>1, <1>2, <1>3, <1>4, <1>5, <1>6 DEF OrderInv

LEMMA NameFailsOrders ==
    ASSUME IInv, OrderInv, NEW p \in Hosts, NameFails(p)
    PROVE  OrderInv'
<1>0. p \in Procs /\ p \notin Tools
  BY DEF Hosts, Tools
<1>1. OwnerInv'
  BY <1>0, ProcsAssumption
  DEF NameFails, programs, SetPayload, OrderInv, OwnerInv, kernelVars
<1>2. (orderly => WaitingInv)'
  BY <1>0, ProcsAssumption
  DEF NameFails, programs, SetPayload, OrderInv, fpga, kernelVars, WaitingInv
<1>3. (orderly => RunningInv)'
  BY <1>0, ProcsAssumption
  DEF NameFails, programs, SetPayload, OrderInv, fpga, kernelVars, RunningInv,
      NoSignals
<1>4. (orderly => KernelInv)'
  BY <1>0, ProcsAssumption
  DEF NameFails, programs, SetPayload, OrderInv, fpga, KernelInv
<1>5. (orderly => DealingInv)'
  BY <1>0, ProcsAssumption
  DEF NameFails, programs, OrderInv, OwnerInv, Hosts, DealingInv
<1>6. MaskedIsOwed'
  BY <1>0, ProcsAssumption
  DEF NameFails, programs, SetPayload, Brief, OrderInv, kernelVars, MaskedIsOwed
<1> QED
  BY <1>1, <1>2, <1>3, <1>4, <1>5, <1>6 DEF OrderInv

LEMMA FirstEnableOrders ==
    ASSUME IInv, OrderInv, NEW p \in Hosts, FirstEnable(p)
    PROVE  OrderInv'
<1>0. p \in Procs /\ p \notin Tools
  BY DEF Hosts, Tools
<1>1. OwnerInv'
  BY <1>0, ProcsAssumption
  DEF FirstEnable, Enable, Move, Go, OrderInv, OwnerInv, driver, kernelVars
<1>2. (orderly => WaitingInv)'
  BY <1>0, ProcsAssumption
  DEF FirstEnable, Enable, Move, Go, OrderInv, OwnerInv, kernelVars, WaitingInv
<1>3. (orderly => RunningInv)'
  BY <1>0, ProcsAssumption
  DEF FirstEnable, Enable, Move, Go, OrderInv, OwnerInv, Hosts, RunningInv
<1>4. (orderly => KernelInv)'
  BY <1>0, ProcsAssumption
  DEF FirstEnable, Enable, Move, Go, OrderInv, fpga, KernelInv
<1>5. (orderly => DealingInv)'
  BY <1>0, ProcsAssumption
  DEF FirstEnable, Move, Go, OrderInv, OwnerInv, Hosts, DealingInv
<1>6. MaskedIsOwed'
  BY <1>0, ProcsAssumption DEF FirstEnable, Enable, MaskedIsOwed
<1> QED
  BY <1>1, <1>2, <1>3, <1>4, <1>5, <1>6 DEF OrderInv

LEMMA LaunchOrders ==
    ASSUME IInv, OrderInv, NEW p \in Hosts, Launch(p)
    PROVE  OrderInv'
<1>0. p \in Procs /\ p \notin Tools
  BY DEF Hosts, Tools
<1>1. OwnerInv'
  BY <1>0, ProcsAssumption
  DEF Launch, OrderInv, OwnerInv, driver, kernelVars, programs
<1>2. (orderly => WaitingInv)'
  BY <1>0, ProcsAssumption
  DEF Launch, OrderInv, kernelVars, programs, WaitingInv
<1>3. (orderly => RunningInv)'
  BY <1>0, ProcsAssumption DEF Launch, OrderInv, programs, RunningInv
<1>4. (orderly => KernelInv)'
  BY <1>0, ProcsAssumption DEF Launch, programs, KernelInv
<1>5. (orderly => DealingInv)'
  BY <1>0, ProcsAssumption
  DEF Launch, OrderInv, OwnerInv, Hosts, programs, DealingInv
<1>6. MaskedIsOwed'
  BY <1>0, ProcsAssumption
  DEF Launch, Brief, OrderInv, driver, programs, MaskedIsOwed, WaitingInv
<1> QED
  BY <1>1, <1>2, <1>3, <1>4, <1>5, <1>6 DEF OrderInv

LEMMA TakeSignalOrders ==
    ASSUME IInv, OrderInv, NEW p \in Hosts, TakeSignal(p)
    PROVE  OrderInv'
<1>0. p \in Procs /\ p \notin Tools
  BY DEF Hosts, Tools
<1>1. OwnerInv'
  BY <1>0, ProcsAssumption DEF TakeSignal, Move, Go, OrderInv, OwnerInv, driver
<1>2. (orderly => WaitingInv)'
  BY <1>0, ProcsAssumption
  DEF TakeSignal, Move, IInv, TypeOK, IrqTypeOK, OrderInv, Hosts, Solo,
      WaitingInv
<1>3. (orderly => RunningInv)'
  BY <1>0, ProcsAssumption
  DEF TakeSignal, Move, OrderInv, RunningInv, NoSignals
<1>4. (orderly => KernelInv)'
  BY <1>0, ProcsAssumption
  DEF TakeSignal, Move, Go, OrderInv, fpga, KernelInv, WaitingInv
<1>5. (orderly => DealingInv)'
  BY <1>0, ProcsAssumption
  DEF TakeSignal, Move, Go, IInv, TypeOK, IrqTypeOK, OrderInv, OwnerInv, fpga,
      DealingInv, WaitingInv, NoSignals
<1>6. MaskedIsOwed'
  BY <1>0, ProcsAssumption DEF TakeSignal, Move, Go, IInv, TypeOK, MaskedIsOwed
<1> QED
  BY <1>1, <1>2, <1>3, <1>4, <1>5, <1>6 DEF OrderInv

LEMMA ClearDoneOrders ==
    ASSUME IInv, OrderInv, NEW p \in Hosts, ClearDone(p)
    PROVE  OrderInv'
<1>0. p \in Procs /\ p \notin Tools
  BY DEF Hosts, Tools
<1>1. OwnerInv'
  BY <1>0, ProcsAssumption
  DEF ClearDone, Move, Go, OrderInv, OwnerInv, driver, kernelVars
<1>2. (orderly => WaitingInv)'
  BY <1>0, ProcsAssumption
  DEF ClearDone, Move, Go, OrderInv, kernelVars, WaitingInv, DealingInv,
      NoSignals
<1>3. (orderly => RunningInv)'
  BY <1>0, ProcsAssumption
  DEF ClearDone, Move, Go, OrderInv, RunningInv, DealingInv
<1>4. (orderly => KernelInv)'
  BY <1>0, ProcsAssumption DEF ClearDone, Move, Go, OrderInv, KernelInv
<1>5. (orderly => DealingInv)'
  BY <1>0, ProcsAssumption
  DEF ClearDone, Move, Go, IInv, TypeOK, OrderInv, Hosts, Solo, DealingInv,
      KernelInv
<1>6. MaskedIsOwed'
  BY <1>0, ProcsAssumption DEF ClearDone, Move, Go, MaskedIsOwed
<1> QED
  BY <1>1, <1>2, <1>3, <1>4, <1>5, <1>6 DEF OrderInv

LEMMA UnmaskOrders ==
    ASSUME IInv, OrderInv, NEW p \in Hosts, Unmask(p)
    PROVE  OrderInv'
<1>0. p \in Procs /\ p \notin Tools
  BY DEF Hosts, Tools
<1>1. OwnerInv'
  BY <1>0, ProcsAssumption
  DEF Unmask, Enable, Move, Go, OrderInv, OwnerInv, driver, kernelVars
<1>2. (orderly => WaitingInv)'
  BY <1>0, ProcsAssumption
  DEF Unmask, Enable, Move, Go, OrderInv, kernelVars, WaitingInv, DealingInv
<1>3. (orderly => RunningInv)'
  BY <1>0, ProcsAssumption
  DEF Unmask, Enable, Move, Go, OrderInv, RunningInv, DealingInv
<1>4. (orderly => KernelInv)'
  BY <1>0, ProcsAssumption
  DEF Unmask, Enable, Move, Go, OrderInv, fpga, KernelInv
<1>5. (orderly => DealingInv)'
  BY <1>0, ProcsAssumption
  DEF Unmask, Move, Go, IInv, TypeOK, Hosts, Solo, DealingInv
<1>6. MaskedIsOwed'
  BY <1>0, ProcsAssumption DEF Unmask, Enable, MaskedIsOwed
<1> QED
  BY <1>1, <1>2, <1>3, <1>4, <1>5, <1>6 DEF OrderInv

LEMMA FinishOrders ==
    ASSUME IInv, OrderInv, NEW p \in Hosts, Finish(p)
    PROVE  OrderInv'
<1>0. p \in Procs /\ p \notin Tools
  BY DEF Hosts, Tools
<1>1. OwnerInv'
  BY <1>0, ProcsAssumption DEF Finish, Move, Go, IInv, TypeOK, OwnerInv, Solo
<1>2. (orderly => WaitingInv)'
  BY <1>0, ProcsAssumption
  DEF Finish, Close, Move, Go, OrderInv, fpga, kernelVars, WaitingInv
<1>3. (orderly => RunningInv)'
  BY <1>0, ProcsAssumption
  DEF Finish, Close, Move, Go, OrderInv, fpga, kernelVars, RunningInv,
      KernelInv, DealingInv, NoSignals
<1>4. (orderly => KernelInv)'
  BY <1>0, ProcsAssumption
  DEF Finish, Close, Move, Go, OrderInv, fpga, KernelInv
<1>5. (orderly => DealingInv)'
  BY <1>0, ProcsAssumption
  DEF Finish, Move, Go, OrderInv, OwnerInv, Hosts, DealingInv
<1>6. MaskedIsOwed'
  BY <1>0, ProcsAssumption
  DEF Finish, Close, Brief, Move, Go, OrderInv, driver, kernelVars,
      MaskedIsOwed
<1> QED
  BY <1>1, <1>2, <1>3, <1>4, <1>5, <1>6 DEF OrderInv

\* A host that is killed ends the order; only who is alive matters then.
LEMMA CrashOrders ==
    ASSUME IInv, OrderInv, NEW p \in Procs, Crash(p)
    PROVE  OrderInv'
<1>1. orderly' = FALSE
  BY DEF Crash
<1>2. OwnerInv'
  BY DEF Crash, OrderInv, OwnerInv, IInv, TypeOK
<1> QED
  BY <1>1, <1>2 DEF OrderInv, MaskedIsOwed

\* aclsoc_irq
LEMMA IrqOrders ==
    ASSUME IInv, OrderInv, Irq
    PROVE  OrderInv'
<1>0. OwnerInv'
  BY DEF Irq, IrqEnter, IrqMask, IrqSend, OrderInv, OwnerInv, driver,
     kernelVars
<1>1. CASE IrqEnter /\ UNCHANGED <<step, orderly>>
  <2>1. /\ irqPc = "off" /\ irqPc' = "mask" /\ done /\ ena
        /\ UNCHANGED <<ena, done, owner, running, handler, call, inbox>>
    BY <1>1 DEF IrqEnter, Line, fpga, driver, kernelVars
  <2>2. orderly => NoSignals
    BY <2>1 DEF OrderInv, WaitingInv, NoSignals
  <2>3. orderly => /\ owner \in Hosts /\ step[owner] = "ready"
                   /\ \A p \in Hosts : step[p] # "dealing"
    BY <2>1 DEF OrderInv, KernelInv, DealingInv
  <2>4. (orderly => WaitingInv)'
    BY <1>1, <2>1, <2>2 DEF NoSignals, WaitingInv
  <2>5. (orderly => RunningInv)'
    BY <1>1, <2>1, <2>2, <2>3 DEF NoSignals, RunningInv
  <2>6. (orderly => KernelInv)'
    BY <1>1, <2>1 DEF OrderInv, KernelInv
  <2>7. (orderly => DealingInv)'
    BY <1>1, <2>1, <2>3 DEF OrderInv, DealingInv
  <2>8. MaskedIsOwed'
    BY <2>1 DEF MaskedIsOwed
  <2> QED
    BY <1>0, <2>4, <2>5, <2>6, <2>7, <2>8 DEF OrderInv
<1>2. CASE IrqMask /\ UNCHANGED <<step, orderly>>
  <2>1. /\ irqPc = "mask" /\ irqPc' = "send" /\ ena' = FALSE
        /\ UNCHANGED <<done, owner, running, handler, call, inbox>>
    BY <1>2 DEF IrqMask, fpga, driver, kernelVars
  <2>2. (orderly => WaitingInv)'
    BY <1>2, <2>1 DEF OrderInv, WaitingInv
  <2>3. (orderly => RunningInv)'
    BY <1>2, <2>1 DEF OrderInv, NoSignals, RunningInv
  <2>4. (orderly => KernelInv)'
    BY <1>2, <2>1 DEF OrderInv, KernelInv
  <2>5. (orderly => DealingInv)'
    BY <1>2, <2>1 DEF OrderInv, DealingInv
  <2>6. MaskedIsOwed'
    BY <2>1 DEF MaskedIsOwed
  <2> QED
    BY <1>0, <2>2, <2>3, <2>4, <2>5, <2>6 DEF OrderInv
<1>3. CASE IrqSend /\ step' = step
           /\ orderly' = (orderly /\ (inbox' # inbox \/ task = Nobody))
  <2>1. /\ irqPc = "send" /\ irqPc' = "off"
        /\ UNCHANGED <<ena, done, owner, running, handler, call, task, payload>>
    BY <1>3 DEF IrqSend, fpga, driver
  <2>2. CASE ~orderly'
    BY <1>0, <2>2 DEF OrderInv, MaskedIsOwed
  <2>3. CASE orderly'
    <3>1. orderly
      BY <1>3, <2>3
    <3>2. /\ NoSignals /\ done /\ ~ena
          /\ \A p \in Hosts : step[p] \notin {"dealing", "cleared"}
      BY <2>1, <3>1 DEF OrderInv, RunningInv, DealingInv
    <3>3. PICK h \in Hosts : step[h] = "ready"
      BY <2>1, <3>1 DEF OrderInv, RunningInv
    <3>4. h \in Procs /\ task = h /\ payload = h /\ h # Nobody
      BY <3>3, ProcsAssumption DEF OrderInv, OwnerInv, Hosts
    <3>5. inbox' = [inbox EXCEPT ![h] = Append(@, h)]
      BY <1>3, <2>3, <3>4 DEF IrqSend, Signal
    <3>6. /\ inbox'[h] = <<h>> /\ inbox'[h] # <<>>
          /\ \A q \in Procs \ {h} : inbox'[q] = <<>>
      <4>1. inbox[h] = <<>> /\ \A q \in Procs : inbox[q] = <<>>
        BY <3>2, <3>4 DEF NoSignals
      <4>2. Append(<<>>, h) = <<h>>
        OBVIOUS
      <4> QED
        BY <3>4, <3>5, <4>1, <4>2 DEF IInv, TypeOK, IrqTypeOK
    <3>7. WaitingInv'
      BY <1>3, <2>1, <3>2, <3>3, <3>6 DEF WaitingInv
    <3>8. RunningInv'
      BY <2>1 DEF RunningInv
    <3>9. KernelInv'
      BY <1>3, <2>1, <3>1 DEF OrderInv, KernelInv
    <3>10. DealingInv'
      BY <1>3, <3>2 DEF DealingInv
    <3>11. MaskedIsOwed'
      BY <3>4, <3>6 DEF MaskedIsOwed
    <3> QED
      BY <1>0, <3>7, <3>8, <3>9, <3>10, <3>11 DEF OrderInv
  <2> QED
    BY <2>2, <2>3
<1> QED
  BY <1>1, <1>2, <1>3 DEF Irq

----------------------------------------------------------------------------
(* The theorems                                                            *)

LEMMA InitOrderInv == Init => OrderInv
<1> SUFFICES ASSUME Init PROVE OrderInv
  OBVIOUS
<1> USE DEF Init, IrqInit
<1>1. OwnerInv
  BY DEF OwnerInv
<1>2. WaitingInv /\ RunningInv /\ KernelInv
  BY DEF WaitingInv, RunningInv, KernelInv
<1>3. DealingInv
  BY DEF DealingInv, Hosts
<1>4. MaskedIsOwed
  BY DEF MaskedIsOwed
<1> QED
  BY <1>1, <1>2, <1>3, <1>4 DEF OrderInv

LEMMA NextOrderInv == IInv /\ OrderInv /\ [Next]_vars => OrderInv'
<1> SUFFICES ASSUME IInv, OrderInv, [Next]_vars PROVE OrderInv'
  OBVIOUS
<1>1. CASE Irq \/ Device
  BY <1>1, IrqOrders, DeviceOrders
<1>2. ASSUME NEW p \in Procs, Exit(p) \/ Crash(p) \/ Start(p)
      PROVE  OrderInv'
  BY <1>2, ExitOrders, CrashOrders, StartOrders
<1>3. ASSUME NEW p \in Hosts, HostStep(p)
      PROVE  OrderInv'
  <2> p \in Procs
    BY DEF Hosts
  <2> QED
    BY <1>3, OpenOrders, OpenedOrders, NameOrders, NameFailsOrders,
       FirstEnableOrders,
       LaunchOrders, TakeSignalOrders, ClearDoneOrders, UnmaskOrders,
       FinishOrders
    DEF HostStep
<1>4. ASSUME NEW p \in Tools, ToolStep(p)
      PROVE  OrderInv'
  <2> p \in Procs
    BY ProcsAssumption DEF Tools
  <2> QED
    BY <1>4, OpenOrders, OpenedOrders, ToolEraseOrders, ToolStepsKeep
<1>5. CASE UNCHANGED vars
  BY <1>5
  DEF vars, irqVars, fpga, driver, kernelVars, programs, OrderInv, OwnerInv,
      WaitingInv, RunningInv, KernelInv, DealingInv, NoSignals, MaskedIsOwed
<1> QED
  BY <1>1, <1>2, <1>3, <1>4, <1>5 DEF Next

\* The device stays in order as long as nobody is killed and no signal fails.
LEMMA OrderHolds == Spec => [](IInv /\ OrderInv)
BY InitOrderInv, NextOrderInv, ProtocolInv, PTL DEF Spec

\* A signal announces a kernel of the host that receives it, with the payload
\* of this host, and comes once (aclsoc_irq, load_signal_info).
THEOREM SignalsReachTheirHost == Spec => []SignalIsMine
<1>1. ASSUME IInv, OrderInv, orderly, NEW p \in Procs, inbox[p] # <<>>
      PROVE  inbox[p] = <<p>> /\ done /\ owner = p
  <2>1. inbox[p] = <<p>> /\ step[p] = "ready" /\ done
    BY <1>1 DEF OrderInv, WaitingInv
  <2>2. owner \in Procs /\ step[owner] # "out"
    BY <1>1, <2>1 DEF OrderInv, KernelInv, Hosts
  <2> QED
    BY <1>1, <2>1, <2>2 DEF IInv, Solo
<1>2. IInv /\ OrderInv => SignalIsMine
  BY <1>1 DEF SignalIsMine
<1> QED
  BY <1>2, OrderHolds, PTL

\* The interrupt is never masked for good: whoever masked it, there is
\* somebody on the way to unmask it (aclsoc_irq, release_irq).
THEOREM MaskIsAlwaysOwed == Spec => []MaskedIsOwed
<1>1. OrderInv => MaskedIsOwed
  BY DEF OrderInv
<1> QED
  BY <1>1, OrderHolds, PTL

\* The handler's task is alive when it sends.
THEOREM HandlerFindsItsTask == Spec => []AliveWhileOrderly
<1>1. IInv /\ OrderInv => AliveWhileOrderly
  BY DEF OrderInv, RunningInv, OwnerInv, AliveWhileOrderly, Hosts
<1> QED
  BY <1>1, OrderHolds, PTL

=============================================================================
