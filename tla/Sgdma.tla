------------------------------- MODULE Sgdma --------------------------------
(***************************************************************************)
(* The SGDMA between two memories: a dispatcher, a read master and a write *)
(* master that run in one clock, and the host and the memories around      *)
(* them.  The host fills in a descriptor again when its transfer is over.  *)
(***************************************************************************)
EXTENDS Dispatcher, ReadMaster, WriteMaster

CONSTANTS
    Hosts,          \* the kinds of hosts
    Accesses        \* what each of them does

ASSUME SgdmaAssumption == Accesses \in [Hosts -> SUBSET Access]

VARIABLE
    host            \* the host that is there

vars == <<dispatcherVars, rd, wr, host>>

TypeOK ==
    /\ DispatcherTypeOK /\ RdTypeOK /\ WrTypeOK
    /\ host \in Hosts

Init == DispatcherInit /\ RdInit /\ WrInit /\ host \in Hosts

----------------------------------------------------------------------------
WordsOf(s) == {s[i][1] : i \in DOMAIN s}

\* The descriptors whose transfer has begun or will.
InUse ==
    UNION {{queue[m][i] : i \in DOMAIN queue[m]} : m \in Masters}
    \cup (IF RdDone THEN {} ELSE {rd.desc})
    \cup (IF WrDone THEN {} ELSE {wr.desc})
    \cup WordsOf(rd.pending) \cup WordsOf(rd.fifo) \cup WordsOf(wr.fifo)

\* The word on its way from the read master to the write master.
Arriving == IF RdPasses(SinkReady) THEN <<Head(rd.fifo)>> ELSE <<>>

\* Mutant of Stalled: the write master is not asked.
StalledByRead == rd.flush

\* What keeps the reset on: a flush, or a write master that has not taken it.
\* A read master that has not begun to flush does not.
Stalled == rd.flush \/ (swReset /\ ~wr.taken)

\* One clock edge with what the host and the memories do in the cycle.
Cycle(access, readWaits, writeWaits, returns) ==
    /\ access.op = "push" => access.desc \notin InUse
    /\ DispatcherEdge(access, rd.ready, wr.ready, Stalled, wr.response)
    /\ ReadEdge(Issues("read", rd.ready), Command("read"), control.stop,
                swReset, readWaits, returns, SinkReady)
    /\ WriteEdge(Issues("write", wr.ready), Command("write"), control.stop,
                 swReset, writeWaits, Arriving)
    /\ UNCHANGED host

Next ==
    \E access \in Accesses[host] : \E readWaits, writeWaits, returns \in BOOLEAN :
        Cycle(access, readWaits, writeWaits, returns)

Spec == Init /\ [][Next]_vars

\* The clock runs on, the host leaves it a cycle now and then, and the memories
\* take a request and return a word sooner or later.
Tick == \E v, w, r \in BOOLEAN : Cycle([op |-> "none"], v, w, r)
Read == RdRead /\ \E a \in Accesses[host] : \E w, r \in BOOLEAN : Cycle(a, FALSE, w, r)
Write == WrWrite /\ \E a \in Accesses[host] : \E v, r \in BOOLEAN : Cycle(a, v, FALSE, r)
Return == \E a \in Accesses[host] : \E v, w \in BOOLEAN : Cycle(a, v, w, TRUE)

FairSpec ==
    Spec /\ WF_vars(Tick) /\ WF_vars(Read) /\ WF_vars(Write) /\ WF_vars(Return)

----------------------------------------------------------------------------
(* Properties *)

\* The FIFO of the read master has room for every word that is requested and
\* not back yet, although the request is a register and comes down a cycle
\* late: the bus cannot be held up (read_master.v:57).
ReadsHaveRoom == Len(rd.fifo) + Len(rd.pending) <= ReadDepth

\* A host that neither stops nor resets and parks no descriptor.  A stop loses
\* words (ST_to_MM_Adapter.v:156), a reset can leave a reader that accepts no
\* command (read_master.v:496), and a parked descriptor is repeated by the two
\* masters independently.
Orderly ==
    \A a \in Accesses[host] :
        /\ a.op = "push" => a.desc \notin Park
        /\ a.op = "control" => ~a.to.stop /\ ~a.to.reset

\* What the write master has on the bus is the next word of its own transfer.
DataIsOwn ==
    WrWrite => Head(wr.fifo) = <<wr.desc, Length[wr.desc] - wr.left + 1>>

\* The interrupt at the end of a transfer is decided by its own descriptor.
IrqIsOwn == wr.response => mask = (wr.finished \in Irq)

\* Each transfer has its own data and its own interrupt, although the masters
\* work through their queues independently, the words between them carry no
\* name and the next command may be issued in the cycle of the response.
TransfersAreOwn == Orderly => DataIsOwn /\ IrqIsOwn

\* What the host asks for is done: a queued descriptor is worked off by both
\* masters unless the dispatcher is held, a reset is over at some time
\* (csr_block.v:162), and a stop takes hold of both masters.  What a reset
\* leaves behind is the matter of the next two properties.
HostIsServed ==
    /\ \A d \in Descs : Orderly /\ d \in InUse ~> d \notin InUse \/ control.hold
    /\ swReset ~> ~swReset \/ control.reset
    /\ control.stop ~> ~control.stop \/ (rd.stopped /\ wr.stopped)

\* A reset is not over before the write master has given up its transfer,
\* although the master takes it only when no write of its own is waiting on
\* the bus, and ends the transfer a cycle after that (write_master.v:530).
ResetEndsWrites == [][swReset /\ ~swReset' => WrDone']_vars

\* "Writing to the software reset bit will clear [...] all the registers for
\* the entire SGDMA" (csr_block.v:49): when a reset is over neither master has
\* anything left to do, or the read master is at least flushing it.  It does
\* not: a read master whose request waits on the bus has not begun to flush
\* and is not waited for (dispatcher.v:385, read_master.v:425); it reads on
\* for the transfer that was reset.
ResetEndsAll ==
    [][swReset /\ ~swReset' => (RdDone' \/ rd'.flush) /\ WrDone']_vars

=============================================================================
