----------------------------- MODULE KernelIrq -----------------------------
(***************************************************************************)
(* The kernel-done interrupt: the enable register of the FPGA (irq_ena.v), *)
(* the interrupt handler of the driver (aclsoc_irq) and the driver's calls *)
(* that touch either (open, the commands of aclsoc_exec_cmd, close).       *)
(*                                                                         *)
(* The Cyclone V has two cores: the handler runs beside the system calls,  *)
(* which the device's semaphore orders among themselves.  A call that      *)
(* touches the shared state once is one step; open, SAVE_PCI_CONTROL_REGS  *)
(* and LOAD_PCI_CONTROL_REGS are several, and the semaphore is held in     *)
(* between.  HostSession has the programs that make the calls.             *)
(***************************************************************************)
EXTENDS Sequences, Naturals

CONSTANTS
    Procs,          \* processes (threads) that use the device
    Deaf,           \* those that ignore signal 44
    Nobody,         \* no process; the null task; the payload 0
    MayMiss         \* those for which send_sig_info can return an error

ASSUME ProcsAssumption == 
    Nobody \notin Procs /\ Deaf \subseteq Procs /\ MayMiss \subseteq Procs

VARIABLES
    \* the FPGA
    ena,        \* ena_state of irq_ena
    done,       \* the kernel-done level, until the host clears the bit
    owner,      \* whose kernel runs or is done, for the properties only
    running,    \* is a kernel running?
    configured, \* is the FPGA in user mode?
    bridges,    \* are the HPS-FPGA bridges enabled?
    \* the driver
    sem,        \* who holds aclsoc->sem
    task,       \* aclsoc->user_task
    payload,    \* aclsoc->signal_info.si_int
    handler,    \* is aclsoc_irq registered?
    irqPc,      \* where the handler is
    call,       \* where a process is in a call of several steps
    \* the rest of the kernel
    inbox,      \* payloads of the signals 44 pending for a process
    dead        \* processes whose task is gone

fpga == <<done, owner, running, configured, bridges>>
driver == <<task, payload, handler>>
kernelVars == <<inbox, dead>>
irqVars == <<ena, fpga, sem, driver, irqPc, call, kernelVars>>

IrqPcs == {"off", "mask", "send"}
Calls == {"none", "open", "unhook", "sync", "load"}
People == Procs \cup {Nobody}

IrqTypeOK ==
    /\ ena \in BOOLEAN /\ done \in BOOLEAN /\ running \in BOOLEAN
    /\ configured \in BOOLEAN /\ bridges \in BOOLEAN /\ handler \in BOOLEAN
    /\ owner \in People /\ sem \in People
    /\ task \in People /\ payload \in People
    /\ irqPc \in IrqPcs
    /\ call \in [Procs -> Calls]
    /\ inbox \in [Procs -> Seq(People)]
    /\ dead \in SUBSET Procs

\* After insmod: aclsoc_probe has registered the handler and unmasked.
IrqInit ==
    /\ ena = TRUE /\ done = FALSE /\ running = FALSE /\ owner = Nobody
    /\ configured = TRUE /\ bridges = TRUE
    /\ sem = Nobody /\ task = Nobody /\ payload = Nobody
    /\ handler = TRUE /\ irqPc = "off"
    /\ call = [p \in Procs |-> "none"]
    /\ inbox = [p \in Procs |-> <<>>]
    /\ dead = {}

\* The interrupt line of the FPGA: irq & ena_state.
Line == configured /\ done /\ ena

\* down, and the call goes on; up, and it returns.
Enter(p, c) == sem = Nobody /\ sem' = p /\ call' = [call EXCEPT ![p] = c]
Inside(p, c) == sem = p /\ call[p] = c
Leave(p) == sem' = Nobody /\ call' = [call EXCEPT ![p] = "none"]

\* A call that is one step takes and gives back a free semaphore.
Brief(p) == sem = Nobody /\ call[p] = "none" /\ UNCHANGED <<sem, call>>

----------------------------------------------------------------------------
(* The device *)

\* A kernel runs to its end and raises the done level.
KernelDone ==
    /\ running
    /\ running' = FALSE /\ done' = TRUE
    /\ UNCHANGED <<ena, owner, configured, bridges, sem, driver, irqPc, call,
                   kernelVars>>

\* The FPGA manager erases the design that is loaded ...
Erase ==
    /\ configured' = FALSE
    /\ done' = FALSE /\ running' = FALSE /\ owner' = Nobody
    /\ UNCHANGED <<ena, bridges, sem, driver, irqPc, call, kernelVars>>

\* ... and starts the new one, in which ena_state powers up as 1.
Configure ==
    /\ configured' = TRUE /\ ena' = TRUE
    /\ UNCHANGED <<done, owner, running, bridges, sem, driver, irqPc, call,
                   kernelVars>>

SetBridges(up) ==
    /\ bridges' = up
    /\ UNCHANGED <<ena, done, owner, running, configured, sem, driver, irqPc,
                   call, kernelVars>>

----------------------------------------------------------------------------
(* aclsoc_irq *)

IrqEnter ==
    /\ irqPc = "off" /\ handler /\ Line
    /\ irqPc' = "mask"
    /\ UNCHANGED <<ena, fpga, sem, driver, call, kernelVars>>

\* "bring it down ASAP"
IrqMask ==
    /\ irqPc = "mask"
    /\ ena' = FALSE
    /\ irqPc' = "send"
    /\ UNCHANGED <<fpga, sem, driver, call, kernelVars>>

\* A signal reaches a task that exists and does not ignore it.
Signal(x) ==
    inbox' = IF task \in dead \cup Deaf THEN inbox
             ELSE [inbox EXCEPT ![task] = Append(@, x)]

\* Mutant of IrqSend: a siginfo of its own, without the payload.
IrqSendNoPayload ==
    /\ irqPc = "send"
    /\ irqPc' = "off"
    /\ IF task = Nobody THEN UNCHANGED inbox ELSE Signal(Nobody)
    /\ UNCHANGED <<ena, fpga, sem, driver, call, dead>>

\* No task yet, a signal, or an error that is only counted.
IrqSend ==
    /\ irqPc = "send"
    /\ irqPc' = "off"
    /\ \/ task = Nobody /\ UNCHANGED inbox
       \/ task # Nobody /\ Signal(payload)
       \/ task \in MayMiss /\ UNCHANGED inbox
    /\ UNCHANGED <<ena, fpga, sem, driver, call, dead>>

----------------------------------------------------------------------------
(* open() and close() *)

\* Mutant of OpenTask: the first opener stays the owner.
OpenTaskOnce(p) ==
    /\ call[p] = "none"
    /\ Enter(p, "open")
    /\ task' = IF task = Nobody THEN p ELSE task
    /\ UNCHANGED <<ena, fpga, payload, handler, irqPc, kernelVars>>

OpenTask(p) ==
    /\ call[p] = "none"
    /\ Enter(p, "open")
    /\ task' = p
    /\ UNCHANGED <<ena, fpga, payload, handler, irqPc, kernelVars>>

\* load_signal_info clears the payload of the previous owner.
OpenSignal(p) ==
    /\ Inside(p, "open") /\ Leave(p)
    /\ payload' = Nobody
    /\ UNCHANGED <<ena, fpga, task, handler, irqPc, kernelVars>>

\* aclsoc_close takes the semaphore and changes nothing.
Close(p) ==
    /\ Brief(p)
    /\ UNCHANGED <<ena, fpga, driver, irqPc, kernelVars>>

----------------------------------------------------------------------------
(* Commands *)

\* Mutant of SetPayload: the address is stored and not what is there.
SetPayloadAddress(p, id) ==
    /\ Brief(p)
    /\ payload' = "address"
    /\ UNCHANGED <<ena, fpga, task, handler, irqPc, kernelVars>>

\* SET_SIGNAL_PAYLOAD stores the id that it has read, or failed to read.
SetPayload(p, id) ==
    /\ Brief(p)
    /\ payload' = id
    /\ UNCHANGED <<ena, fpga, task, handler, irqPc, kernelVars>>

\* Mutant of Enable: the command is accepted and the register not written.
EnableNothing(p) ==
    /\ Brief(p)
    /\ UNCHANGED <<ena, fpga, driver, irqPc, kernelVars>>

\* ENABLE_KERNEL_IRQ
Enable(p) ==
    /\ Brief(p)
    /\ ena' = TRUE
    /\ UNCHANGED <<fpga, driver, irqPc, kernelVars>>

\* Mutant of SaveMask: free_irq with the device unmasked.
SaveNoMask(p) ==
    /\ call[p] = "none"
    /\ Enter(p, "unhook")
    /\ UNCHANGED <<ena, fpga, driver, irqPc, kernelVars>>

\* SAVE_PCI_CONTROL_REGS, release_irq: mask ...
SaveMask(p) ==
    /\ call[p] = "none"
    /\ Enter(p, "unhook")
    /\ ena' = FALSE
    /\ UNCHANGED <<fpga, driver, irqPc, kernelVars>>

\* ... free_irq: no new handler ...
SaveUnhook(p) ==
    /\ Inside(p, "unhook")
    /\ call' = [call EXCEPT ![p] = "sync"]
    /\ handler' = FALSE
    /\ UNCHANGED <<ena, fpga, sem, task, payload, irqPc, kernelVars>>

\* Mutant of SaveSync: free_irq without the wait for a handler that runs.
SaveNoSync(p) ==
    /\ Inside(p, "sync") /\ Leave(p)
    /\ ena' = FALSE
    /\ UNCHANGED <<fpga, driver, irqPc, kernelVars>>

\* ... and wait for the one that runs; mask again.
SaveSync(p) ==
    /\ Inside(p, "sync") /\ irqPc = "off" /\ Leave(p)
    /\ ena' = FALSE
    /\ UNCHANGED <<fpga, driver, irqPc, kernelVars>>

\* LOAD_PCI_CONTROL_REGS, init_irq: request_irq fails if there is a handler,
\* and the command succeeds all the same.
LoadRequest(p) ==
    /\ call[p] = "none"
    /\ \/ handler /\ Brief(p) /\ UNCHANGED handler
       \/ ~handler /\ Enter(p, "load") /\ handler' = TRUE
    /\ UNCHANGED <<ena, fpga, task, payload, irqPc, kernelVars>>

LoadUnmask(p) ==
    /\ Inside(p, "load") /\ Leave(p)
    /\ ena' = TRUE
    /\ UNCHANGED <<fpga, driver, irqPc, kernelVars>>

=============================================================================
