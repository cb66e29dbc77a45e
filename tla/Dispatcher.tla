----------------------------- MODULE Dispatcher -----------------------------
(***************************************************************************)
(* The dispatcher of the SGDMA (dispatcher.v, descriptor_buffers.v,        *)
(* csr_block.v) between two memories (MODE 0) and without a response port, *)
(* as dispatcher.v:142 recommends there: a queue of descriptors for each   *)
(* master, the control register and the interrupt.  One step is one edge   *)
(* of the clock.  The host makes one access in a cycle.                    *)
(***************************************************************************)
EXTENDS Descriptors

CONSTANTS
    Park,           \* the descriptors that are repeated while they are the last
    Irq,            \* those that ask for an interrupt at their end
    QueueDepth      \* descriptors in a queue

ASSUME DispatcherAssumption ==
    /\ Park \subseteq Descs /\ Irq \subseteq Descs
    /\ QueueDepth \in Nat \ {0}

VARIABLES
    queue,          \* the descriptors for each master
    head,           \* the heads of the queues one and two cycles ago
    control,        \* stop, reset (one cycle), hold (stop descriptors), irqOn
    swReset,        \* the reset the masters see
    mask,           \* the descriptor issued last to the write master asks for
                    \* an interrupt
    irq

dispatcherVars == <<queue, head, control, swReset, mask, irq>>

Masters == {"read", "write"}
Control == [stop : BOOLEAN, reset : BOOLEAN, hold : BOOLEAN, irqOn : BOOLEAN]
Off == [stop |-> FALSE, reset |-> FALSE, hold |-> FALSE, irqOn |-> FALSE]

DispatcherTypeOK ==
    /\ queue \in [Masters -> Seq(Descs)]
    /\ \A m \in Masters : Len(queue[m]) <= QueueDepth
    /\ head \in [Masters -> [1 .. 2 -> Descs \cup {NoDesc}]]
    /\ control \in Control
    /\ {swReset, mask, irq} \subseteq BOOLEAN

DispatcherInit ==
    /\ queue = [m \in Masters |-> <<>>]
    /\ head = [m \in Masters |-> <<NoDesc, NoDesc>>]
    /\ control = Off
    /\ swReset = FALSE /\ mask = FALSE /\ irq = FALSE

----------------------------------------------------------------------------
(* What the host does in a cycle *)

Access == {[op |-> "none"], [op |-> "clear"]}
          \cup [op : {"push"}, desc : Descs]
          \cup [op : {"control"}, to : Control]

\* A full queue makes the host wait.
Admitted(access) ==
    access.op = "push" => \A m \in Masters : Len(queue[m]) < QueueDepth

----------------------------------------------------------------------------
(* Commands *)

HeadNow(m) == IF queue[m] = <<>> THEN NoDesc ELSE Head(queue[m])

\* The RAM of the queue shows its head two cycles late.
Command(m) == head[m][2]

CommandValid(m) ==
    /\ ~control.stop /\ ~swReset /\ ~control.hold
    /\ NoDesc \notin {HeadNow(m), head[m][1], head[m][2]}

Issues(m, ready) == CommandValid(m) /\ ready

\* Mutant of Pops: the master is not asked.
PopsUnasked(m, ready) == CommandValid(m)

\* A descriptor that is parked stays while it is the last.
Pops(m, ready) ==
    Issues(m, ready) /\ ~(Command(m) \in Park /\ Len(queue[m]) = 1)

QueueEdge(access, readReady, writeReady) ==
    LET ready == [m \in Masters |-> IF m = "read" THEN readReady ELSE writeReady]
        kept(m) == IF Pops(m, ready[m]) THEN Tail(queue[m]) ELSE queue[m]
    IN  /\ queue' = [m \in Masters |->
               IF swReset THEN <<>>
               ELSE IF access.op = "push" THEN Append(kept(m), access.desc)
               ELSE kept(m)]
        /\ head' = [m \in Masters |-> <<HeadNow(m), head[m][1]>>]

\* The next descriptor waits in view while the last one is under way.
MaskEdge(writeReady) ==
    mask' = IF Issues("write", writeReady) THEN Command("write") \in Irq ELSE mask

----------------------------------------------------------------------------
(* Control register and interrupt *)

\* The reset bit lasts one cycle and clears the register; the reset that the
\* masters see lasts until neither of them stalls it.
ControlEdge(access, stalled) ==
    /\ control' = IF control.reset THEN Off
                  ELSE IF access.op = "control" THEN access.to
                  ELSE control
    /\ swReset' = \/ access.op = "control" /\ access.to.reset
                  \/ swReset /\ stalled

IrqEdge(access, done) ==
    irq' = /\ ~control.reset
           /\ \/ control.irqOn /\ done /\ mask
              \/ irq /\ access.op # "clear"

DispatcherEdge(access, readReady, writeReady, stalled, done) ==
    /\ Admitted(access)
    /\ QueueEdge(access, readReady, writeReady)
    /\ MaskEdge(writeReady)
    /\ ControlEdge(access, stalled)
    /\ IrqEdge(access, done)

=============================================================================
