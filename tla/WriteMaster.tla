---------------------------- MODULE WriteMaster -----------------------------
(***************************************************************************)
(* The write master of the SGDMA (write_master.v): takes a command and     *)
(* writes the words that arrive in its FIFO.  One step is one edge of the  *)
(* clock.  Whole aligned words and no bursts, packets or errors, the       *)
(* defaults of the component: the byte enable generator and the burst      *)
(* control are wires then, and no transfer ends early.                     *)
(***************************************************************************)
EXTENDS Descriptors

CONSTANTS
    WriteDepth      \* the words in the FIFO of the write master

ASSUME WriteMasterAssumption == WriteDepth \in Nat \ {0}

VARIABLE
    wr  \* ready, desc, left, fifo, stopped, response   as in the read master
        \* done      the transfer was done in the last cycle (done_d1)
        \* taken     the reset has been taken (reset_taken)
        \* finished  the descriptor of the response, for the properties only

WrTypeOK ==
    /\ wr \in [ready : BOOLEAN, desc : Descs \cup {NoDesc}, left : Nat,
               fifo : Seq(Word), stopped : BOOLEAN, response : BOOLEAN,
               done : BOOLEAN, taken : BOOLEAN,
               finished : Descs \cup {NoDesc}]
    /\ Len(wr.fifo) <= WriteDepth

WrInit ==
    wr = [ready |-> TRUE, desc |-> NoDesc, left |-> 0, fifo |-> <<>>,
          stopped |-> FALSE, response |-> FALSE, done |-> TRUE, taken |-> FALSE,
          finished |-> NoDesc]

----------------------------------------------------------------------------
WrDone == wr.left = 0
WrWrite == wr.fifo # <<>> /\ ~WrDone /\ ~wr.stopped
WrCompleted(waits) == WrWrite /\ ~waits

WrAtRest(waits) == WrCompleted(waits) \/ wr.ready \/ ~WrWrite

\* The FIFO is popped in a transfer whenever the bus does not wait
\* (ST_to_MM_Adapter.v:140), which is not asked whether it is stopped.
WrPops(waits) == wr.fifo # <<>> /\ ~WrDone /\ ~waits

DoneStrobe == WrDone /\ ~wr.done /\ ~wr.taken

SinkReady == Len(wr.fifo) < WriteDepth

\* One clock edge; arrives is the sequence of the word that arrives, if any.
WriteEdge(go, cmd, stop, reset, waits, arrives) ==
    wr' =
      [ready    |-> ~go /\ (wr.ready \/ (WrDone /\ ~wr.response) \/ wr.taken),
       desc     |-> IF go THEN cmd ELSE wr.desc,
       left     |-> IF (wr.taken /\ ~WrDone) \/ DoneStrobe THEN 0
                    ELSE IF go THEN Length[cmd]
                    ELSE IF WrCompleted(waits) THEN wr.left - 1
                    ELSE wr.left,
       fifo     |-> (IF WrPops(waits) THEN Tail(wr.fifo) ELSE wr.fifo) \o arrives,
       stopped  |-> stop /\ ~wr.taken /\ (wr.stopped \/ WrAtRest(waits)),
       response |-> DoneStrobe,
       done     |-> WrDone,
       taken    |-> reset /\ WrAtRest(waits),
       finished |-> IF DoneStrobe THEN wr.desc ELSE wr.finished]

=============================================================================
