------------------------------- MODULE LlFifo -------------------------------
(***************************************************************************)
(* acl_iface_ll_fifo: a FIFO in registers, with a one-hot write pointer    *)
(* and data that moves towards position 0 on every read.  One clock is     *)
(* LlStep; D is the parameter DEPTH.  MemRouter_proof shows that it        *)
(* computes Append and Tail on LlItems as long as nobody reads it empty or *)
(* writes it full.                                                         *)
(***************************************************************************)
EXTENDS Naturals, Sequences

LlReset(D, zero) ==
    [wptr |-> [k \in 0..D |-> k = 0], data |-> [k \in 0..D-1 |-> zero]]

LlEmpty(f) == f.wptr[0]
LlFull(f, D) == f.wptr[D]
LlOut(f) == f.data[0]

\* The pointer moves down on a read, up on a write, and not at all on both.
LlPointer(f, D, read, write) ==
    IF read = write THEN f.wptr
    ELSE IF read THEN [k \in 0..D |-> k < D /\ f.wptr[k + 1]]
    ELSE [k \in 0..D |-> k > 0 /\ f.wptr[k - 1]]

\* A register holds, takes the input, or takes its neighbour.
LlData(f, D, read, write, in) ==
    [k \in 0..D-1 |-> IF ~(read \/ (write /\ f.wptr[k])) THEN f.data[k]
                      ELSE IF ~read \/ f.wptr[k + 1] \/ k = D - 1 THEN in
                      ELSE f.data[k + 1]]

LlStep(f, D, read, write, in) ==
    [wptr |-> LlPointer(f, D, read, write),
     data |-> LlData(f, D, read, write, in)]

\* What it holds: n items when the pointer is at n, the oldest one first.
LlHolds(f, D, n) == n \in 0..D /\ \A k \in 0..D : f.wptr[k] <=> k = n

LlItems(f, n) == [k \in 1..n |-> f.data[k - 1]]

=============================================================================
