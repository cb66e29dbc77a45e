---------------------------- MODULE Descriptors -----------------------------
(* The descriptors of the SGDMA and the words that they move.              *)
EXTENDS Integers, Sequences

CONSTANTS
    Descs,          \* the descriptors a host uses
    NoDesc,
    Length          \* their length in words

\* The masters take it that the length is not zero (read_master.v:741).
ASSUME DescriptorsAssumption ==
    /\ NoDesc \notin Descs
    /\ Length \in [Descs -> Nat \ {0}]

\* A word is known by its descriptor and its place in the transfer.
Word == Descs \X (Nat \ {0})

=============================================================================
