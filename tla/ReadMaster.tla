----------------------------- MODULE ReadMaster -----------------------------
(***************************************************************************)
(* The read master of the SGDMA (read_master.v): takes a command, reads    *)
(* its words over a pipelined bus and passes them on through a FIFO.  One  *)
(* step is one edge of the clock.  The transfer is one of whole aligned    *)
(* words; unaligned accesses, packets, strides and early done are off, as  *)
(* in the component's defaults.                                            *)
(***************************************************************************)
EXTENDS Descriptors

CONSTANTS
    ReadDepth,      \* the words in the FIFO of the read master
    MaxBurst        \* the longest burst; 1 without bursts

\* Since version 2.6 the FIFO holds four bursts (read_master.v:60).
ASSUME ReadMasterAssumption ==
    /\ MaxBurst \in Nat \ {0}
    /\ ReadDepth \in Nat /\ ReadDepth >= 4 * MaxBurst

VARIABLE
    rd  \* ready     a command is accepted (snk_command_ready)
        \* desc      the command's descriptor
        \* left      the words that are not requested yet (length_counter)
        \* asks      the read request is on the bus unless done (master_read_reg)
        \* pending   the words requested and not returned
        \* fifo      the words returned and not passed on
        \* flush, stopped
        \* returned  all reads had returned in the last cycle
        \* response  a response is shown (src_response_valid)

RdTypeOK ==
    rd \in [ready : BOOLEAN, desc : Descs \cup {NoDesc}, left : Nat,
            asks : BOOLEAN, pending : Seq(Word), fifo : Seq(Word),
            flush : BOOLEAN, stopped : BOOLEAN, returned : BOOLEAN,
            response : BOOLEAN]

RdInit ==
    rd = [ready |-> TRUE, desc |-> NoDesc, left |-> 0, asks |-> FALSE,
          pending |-> <<>>, fifo |-> <<>>, flush |-> FALSE, stopped |-> FALSE,
          returned |-> TRUE, response |-> FALSE]

----------------------------------------------------------------------------
RdDone == rd.left = 0
RdRead == rd.asks /\ ~RdDone
RdAccepted(waits) == RdRead /\ ~waits

\* A stop or a reset takes hold when no request is waiting on the bus.
RdAtRest(waits) == RdAccepted(waits) \/ rd.ready \/ ~rd.asks

\* Mutant of Crowded: room for a single burst.
CrowdedLate ==
    Len(rd.fifo) + Len(rd.pending) > ReadDepth - MaxBurst

\* Room for two bursts, since the request is registered and this comes late.
Crowded ==
    Len(rd.fifo) + Len(rd.pending) > ReadDepth - 2 * MaxBurst

BurstCount == IF rd.left < MaxBurst THEN rd.left ELSE MaxBurst

Burst ==
    [i \in 1 .. BurstCount |-> <<rd.desc, Length[rd.desc] - rd.left + i>>]

AllReturned == RdDone /\ rd.pending = <<>>

\* Mutant of FlushEnds: the transfer is to end of itself.
FlushEndsDone == rd.flush /\ AllReturned

\* The flush ends and takes the rest of the transfer with it.
FlushEnds == rd.flush /\ rd.pending = <<>>

\* What the FIFO passes on to a sink that is ready.
RdPasses(sinkReady) == rd.fifo # <<>> /\ sinkReady

\* A request once made stays until it is accepted or its transfer is gone.
RdRequest(stop, reset, waits) ==
    \/ ~RdDone /\ ~Crowded /\ ~stop /\ ~reset
    \/ rd.asks /\ ~RdDone /\ ~(RdAccepted(waits) /\ (Crowded \/ stop))

\* One clock edge.  go: the command cmd is taken; stop and reset come with the
\* command; waits and returns come from the memory.  Words returned are buffered
\* whether or not a flush is on.  The response is always taken at once.
ReadEdge(go, cmd, stop, reset, waits, returns, sinkReady) ==
    /\ returns => rd.pending # <<>>
    /\ rd' =
        [ready    |-> ~go /\ (rd.ready \/ rd.response),
         desc     |-> IF go THEN cmd ELSE rd.desc,
         left     |-> IF FlushEnds THEN 0
                      ELSE IF go THEN Length[cmd]
                      ELSE IF RdAccepted(waits) THEN rd.left - BurstCount
                      ELSE rd.left,
         asks     |-> RdRequest(stop, reset, waits),
         pending  |-> (IF returns THEN Tail(rd.pending) ELSE rd.pending)
                      \o (IF RdAccepted(waits) THEN Burst ELSE <<>>),
         fifo     |-> (IF RdPasses(sinkReady) THEN Tail(rd.fifo) ELSE rd.fifo)
                      \o (IF returns THEN <<Head(rd.pending)>> ELSE <<>>),
         flush    |-> ~FlushEnds /\ (rd.flush \/ (reset /\ RdAtRest(waits))),
         stopped  |-> stop /\ ~reset /\ (rd.stopped \/ RdAtRest(waits)),
         returned |-> AllReturned,
         response |-> ~rd.flush /\ AllReturned /\ ~rd.returned]

=============================================================================
