---------------------------- MODULE HostSession ----------------------------
(***************************************************************************)
(* Host programs and the reprogramming tool on top of KernelIrq.           *)
(*                                                                         *)
(* A host (the OpenCL runtime with its HAL, a library outside this         *)
(* repository) opens the device, sets its signal payload, enables the      *)
(* interrupt, launches kernels one at a time, and on signal 44 deals with  *)
(* the kernel first (clears the done bit) and unmasks then, as the comment *)
(* at the end of aclsoc_irq asks.  The tool (reprogram.c) ignores signal   *)
(* 44, finds the image in its file (ImageFile) and goes through SAVE,      *)
(* bridges down, program, bridges up, LOAD.  The transfer can fail, which  *)
(* nobody looks at until the end.  One process has the device open at a    *)
(* time, and no host is started on an FPGA without a design.               *)
(***************************************************************************)
EXTENDS KernelIrq, ImageFile

CONSTANT MayCrash       \* the processes that can be killed

\* A tool runs to its end: nothing in the code puts back what it has taken away.
ASSUME CrashAssumption == MayCrash \subseteq Procs \ Deaf

\* The tool is the process that ignores signal 44.
Tools == Deaf
Hosts == Procs \ Deaf

VARIABLES
    step,       \* where a program is
    ret,        \* what a tool returns; until then, what came of its transfer
    orderly     \* nobody was killed and no signal failed since the FPGA was
                \* last programmed with no signal pending, for the properties
                \* only

programs == <<step, ret, orderly>>
vars == <<irqVars, programs>>

HostSteps == {"out", "opening", "opened", "named", "ready", "dealing", "cleared"}
ToolSteps == {"out", "opening", "opened", "unpacked", "saving", "saved",
              "isolated", "erased", "loaded", "restored", "loading",
              "programmed", "leaving"}
Rets == {"none", "moved", "lost", "ok", "failed", "unset"}

TypeOK ==
    /\ IrqTypeOK
    /\ orderly \in BOOLEAN
    /\ ret \in [Tools -> Rets]
    /\ step \in [Procs -> HostSteps \cup ToolSteps]
    /\ \A p \in Hosts : step[p] \in HostSteps
    /\ \A p \in Tools : step[p] \in ToolSteps

Init ==
    /\ IrqInit
    /\ step = [p \in Procs |-> "out"]
    /\ ret = [p \in Tools |-> "none"]
    /\ orderly = TRUE

\* Program p goes from one step to another.
Go(p, from, to) == step[p] = from /\ step' = [step EXCEPT ![p] = to]
Move(p, from, to) == Go(p, from, to) /\ UNCHANGED <<ret, orderly>>
\* A tool goes on with something to tell.
Tell(p, from, to, r) ==
    Go(p, from, to) /\ ret' = [ret EXCEPT ![p] = r] /\ UNCHANGED orderly

----------------------------------------------------------------------------
(* Both programs *)

\* The tool's first step is SAVE, a host's is its payload.
Open(p) ==
    /\ p \notin dead
    /\ \A q \in Procs : step[q] = "out"
    /\ configured \/ p \in Tools
    /\ Move(p, "out", "opening")
    /\ OpenTask(p)

Opened(p) == Move(p, "opening", "opened") /\ OpenSignal(p)

\* A process that has closed the device exits; its task is freed.
Exit(p) ==
    /\ step[p] = "out" /\ p \notin dead
    /\ dead' = dead \cup {p}
    /\ inbox' = [inbox EXCEPT ![p] = <<>>]
    /\ UNCHANGED <<ena, fpga, sem, driver, irqPc, call, programs>>

\* A process that is killed leaves the kernel first: it dies between two
\* calls, and aclsoc_close is called for it, which changes nothing.
Crash(p) ==
    /\ p \in MayCrash \ dead
    /\ step[p] # "out" /\ call[p] = "none"
    /\ dead' = dead \cup {p}
    /\ inbox' = [inbox EXCEPT ![p] = <<>>]
    /\ step' = [step EXCEPT ![p] = "out"]
    /\ orderly' = FALSE
    /\ UNCHANGED <<ena, fpga, sem, driver, irqPc, call, ret>>

\* A new process takes the name of one that nothing refers to any more.
Start(p) ==
    /\ p \in dead /\ p \notin {task, owner}
    /\ dead' = dead \ {p}
    /\ UNCHANGED <<ena, fpga, sem, driver, irqPc, call, inbox, programs>>

----------------------------------------------------------------------------
(* A host *)

Name(p) == Move(p, "opened", "named") /\ SetPayload(p, p)

\* The host's address cannot be read: whatever the variable on the stack has
\* held is stored.  The host gets an error and tries again.
NameFails(p) ==
    /\ step[p] = "opened" /\ UNCHANGED programs
    /\ \E id \in People : SetPayload(p, id)

FirstEnable(p) == Move(p, "named", "ready") /\ Enable(p)

\* A write to the kernel's registers, when the device is idle.
Launch(p) ==
    /\ step[p] = "ready" /\ ~running /\ ~done
    /\ Brief(p)
    /\ running' = TRUE /\ owner' = p
    /\ UNCHANGED <<ena, done, configured, bridges, driver, irqPc, kernelVars,
                   programs>>

\* The handler of signal 44 starts.
TakeSignal(p) ==
    /\ inbox[p] # <<>>
    /\ Move(p, "ready", "dealing")
    /\ inbox' = [inbox EXCEPT ![p] = Tail(@)]
    /\ UNCHANGED <<ena, fpga, sem, driver, irqPc, call, dead>>

\* Deal with the kernel that is done, ...
ClearDone(p) ==
    /\ Move(p, "dealing", "cleared")
    /\ Brief(p)
    /\ done' = FALSE
    /\ owner' = IF done THEN Nobody ELSE owner
    /\ UNCHANGED <<ena, running, configured, bridges, driver, irqPc, kernelVars>>

\* ... and only then unmask.
Unmask(p) == Move(p, "cleared", "ready") /\ Enable(p)

\* A host closes after its last kernel.
Finish(p) ==
    /\ owner # p /\ inbox[p] = <<>>
    /\ Move(p, "ready", "out")
    /\ Close(p)

HostStep(p) ==
    Open(p) \/ Opened(p) \/ Name(p) \/ NameFails(p) \/ FirstEnable(p)
        \/ Launch(p) \/ TakeSignal(p) \/ ClearDone(p) \/ Unmask(p) \/ Finish(p)

----------------------------------------------------------------------------
(* The tool *)

\* The file is looked at first: without an image the tool leaves.
ToolUnpack(p) ==
    /\ \E f \in Files :
           IF HasImage(f) THEN Tell(p, "opened", "unpacked", "none")
                          ELSE Tell(p, "opened", "leaving", GivenUp(f))
    /\ UNCHANGED irqVars

\* reprogram_with_rbf: SAVE, ...
ToolSave(p) == Move(p, "unpacked", "saving") /\ SaveMask(p)
ToolUnhook(p) == SaveUnhook(p) /\ UNCHANGED programs
ToolSync(p) == Move(p, "saving", "saved") /\ SaveSync(p)
ToolIsolate(p) == Move(p, "saved", "isolated") /\ SetBridges(FALSE)

\* ... the transfer: it erases the FPGA first, and may never start ...
ToolErase(p) ==
    /\ Go(p, "isolated", "erased")
    /\ Erase
    /\ orderly' = (orderly \/ \A q \in Procs : inbox[q] = <<>>)
    /\ UNCHANGED ret
ToolConfigure(p) == Tell(p, "erased", "loaded", "moved") /\ Configure
ToolTransferFails(p) ==
    /\ \E s \in {"isolated", "erased"} : Tell(p, s, "loaded", "lost")
    /\ UNCHANGED irqVars

\* Mutant of ToolRestore: LOAD before the bridges are enabled.
ToolRestoreNothing(p) == Move(p, "loaded", "restored") /\ UNCHANGED irqVars

\* ... and, whatever came of it, bridges and LOAD.
ToolRestore(p) == Move(p, "loaded", "restored") /\ SetBridges(TRUE)
ToolLoad(p) ==
    /\ Move(p, "restored", IF handler THEN "programmed" ELSE "loading")
    /\ LoadRequest(p)
ToolUnmask(p) == Move(p, "loading", "programmed") /\ LoadUnmask(p)

\* Mutant of ToolReport: an answer from the FPGA manager is enough.
ToolReportAnyStatus(p) ==
    /\ \E r \in {"ok", "failed"} : Tell(p, "programmed", "leaving", r)
    /\ UNCHANGED irqVars

\* fpga_in_user_mode: the status cannot be read, or decides.
ToolReport(p) ==
    /\ \/ Tell(p, "programmed", "leaving", "failed")
       \/ configured /\ Tell(p, "programmed", "leaving", "ok")
    /\ UNCHANGED irqVars

ToolFinish(p) == Tell(p, "leaving", "out", "none") /\ Close(p)

ToolStep(p) ==
    \/ Open(p) \/ Opened(p) \/ ToolUnpack(p)
    \/ ToolSave(p) \/ ToolUnhook(p) \/ ToolSync(p) \/ ToolIsolate(p)
    \/ ToolErase(p) \/ ToolConfigure(p) \/ ToolTransferFails(p)
    \/ ToolRestore(p) \/ ToolLoad(p) \/ ToolUnmask(p)
    \/ ToolReport(p) \/ ToolFinish(p)

----------------------------------------------------------------------------
Irq ==
    /\ UNCHANGED <<step, ret>>
    /\ \/ (IrqEnter \/ IrqMask) /\ UNCHANGED orderly
       \/ /\ IrqSend
          /\ orderly' = (orderly /\ (inbox' # inbox \/ task = Nobody))

Device == KernelDone /\ UNCHANGED programs

Next ==
    \/ Irq \/ Device
    \/ \E p \in Procs : Exit(p) \/ Crash(p) \/ Start(p)
    \/ \E p \in Hosts : HostStep(p)
    \/ \E p \in Tools : ToolStep(p)

Spec == Init /\ [][Next]_vars

\* Kernels end, interrupts are taken, and a host that is in the middle of its
\* protocol goes on with it; nobody has to open, launch or finish.
Fairness ==
    /\ WF_vars(Irq) /\ WF_vars(Device)
    /\ \A p \in Hosts : WF_vars(Opened(p) \/ Name(p) \/ FirstEnable(p)
                                \/ TakeSignal(p) \/ ClearDone(p) \/ Unmask(p))

FairSpec == Spec /\ Fairness

----------------------------------------------------------------------------
(* Properties *)

\* A signal that waits for a process carries the payload that this process
\* set, and announces a kernel of this process that is done ("Set id to
\* receive back on signal from kernel", exports header).  After a crash the
\* next host can find a signal of its predecessor's kernel; programming the
\* FPGA restores the order once that signal has been taken.
SignalIsMine ==
    orderly => \A p \in Procs : inbox[p] # <<>> =>
                   inbox[p] = <<p>> /\ done /\ owner = p

\* While the handler is registered, the interrupt stays masked only on the
\* way to somebody who will unmask it: the handler before it sends, a signal
\* that waits, a host that deals with one, or a call that ends in a write of
\* the register.  Otherwise no completion would be seen again.
MaskedIsOwed ==
    orderly /\ handler /\ ~ena =>
        \/ irqPc = "send"
        \/ \E p \in Procs : \/ inbox[p] # <<>>
                            \/ step[p] \in {"dealing", "cleared"}
                            \/ call[p] \in {"unhook", "load"}

\* The handler never sends to a task that is gone ...
AliveWhileOrderly == orderly /\ irqPc = "send" => task \notin dead

\* ... even if a program was killed ("If something bad happened in user space
\* and the user program crashes, the interrupt assigned to the device will be
\* freed (on automatic close()) call", release_irq).
NoSignalToDead == irqPc = "send" => task \notin dead

\* The registers in the FPGA are accessed only while the bridges are enabled
\* and a design is loaded: by a handler that is about to mask, by a host in its
\* signal handler, by a call that is about to write the enable register.  Only
\* the tool's own calls can meet an FPGA that a failed transfer has left empty.
AccessNeedsBridges ==
    /\ (irqPc = "mask" \/ \E p \in Hosts : step[p] \in {"dealing", "cleared"})
           => bridges /\ configured
    /\ \A p \in Tools : call[p] \in {"sync", "load"} =>
           bridges /\ (configured \/ ret[p] # "moved")

\* The device never raises its interrupt while no handler is registered ("the
\* device will continue generating interrupts. Soon the kernel will notice,
\* complain, and bring down the whole system", release_irq).
LineIsClaimed == Line => handler

\* After a transfer that succeeds, the next host finds the interrupt ready to
\* use, also when earlier transfers have failed.
ReadyAfterReprogram ==
    \A p \in Tools : step[p] = "programmed" /\ ret[p] = "moved" =>
        /\ handler /\ ena /\ irqPc = "off"
        /\ bridges /\ configured

\* Whatever became of the file and of the transfer, a tool that leaves has put
\* the handler back and the bridges up, and it reports success only of an FPGA
\* that is in user mode (return values of reprogram_with_rbf).
ToolLeavesInOrder ==
    \A p \in Tools : step[p] = "leaving" =>
        /\ handler /\ bridges /\ call[p] = "none"
        /\ ret[p] = "ok" => configured

\* Every kernel that is launched is dealt with by the host that launched it,
\* unless the host is killed: also after a host that was killed has left a
\* kernel that runs, a done level or a masked interrupt behind.  It needs
\* signals that arrive.
KernelIsDealtWith ==
    \A p \in Hosts \ MayMiss :
        owner = p /\ p \notin dead ~> owner # p \/ p \in dead

\* A kernel that is done keeps the interrupt raised until its host has cleared
\* the done bit, also when the signal could not be delivered: the handler that
\* has returned is entered again ("The FPGA will keep the interrupt level high
\* until the kernel done bit is cleared (by the host)", aclsoc_irq).
LevelStaysHigh == done /\ irqPc = "off" ~> Line \/ ~done

=============================================================================
