------------------------------ MODULE MCTester ------------------------------
(* One tester and one other program on a window of 12 cells.               *)
EXTENDS Tester, TLC

MCRegionSize == (0 :> 24) @@ (2 :> 32)
MCSizes == {12}

Do(op, a, u, n) == [op |-> op, bar |-> 0, addr |-> a, user |-> u, size |-> n]

\* Sizes 0, 1, 2, 4 and chunks with a rest; the last cells of the window and
\* beyond; memory that ends in the middle; an end that wraps around; the end of bar 2.
MCAsked ==
    {Do("write", Base + 10, 23, 2), Do("write", Base + 1, 14, 11),
     Do("read", Base, 16, 11), Do("read", Base + 8, 0, 0),
     Do("read", Base + 8, 0, 1), Do("write", Width - 4, 0, 8),
     [Do("read", 30, 0, 4) EXCEPT !.bar = 2]}
    \cup [op : {"command"}, cmd : Commands]
    \cup {[op |-> "unreadable"]}

MCRequests ==
    MCAsked \cup {TestRequest(op, n) : op \in Ops, n \in MCSizes}
=============================================================================
