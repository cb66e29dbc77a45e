---------------------------- MODULE MCMemRouter ----------------------------
(* Two banks of four words, in stripes of two.  The burst of MCRequests goes *)
(* to bank 0 in either mode, the others to the one bank or the other.        *)
EXTENDS MemRouter

MCRequests == {[kind |-> "read", address |-> 0, burst |-> 2],
               [kind |-> "read", address |-> 2, burst |-> 1],
               [kind |-> "write", address |-> 6, burst |-> 1]}

MCBursts == {[kind |-> "read", address |-> 2, burst |-> 2]}

=============================================================================
