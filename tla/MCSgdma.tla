------------------------------ MODULE MCSgdma -------------------------------
(* Descriptors of two and three words, and two kinds of hosts.             *)
EXTENDS Sgdma

CONSTANTS d1, d2, d3, copying, controlling

MCLength == [d \in Descs |-> IF d = d3 THEN 2 ELSE 3]

Set(c) == [op |-> "control", to |-> c]
On == [Off EXCEPT !.irqOn = TRUE]

\* One host copies; it holds the dispatcher and clears the interrupt.
Copying ==
    {[op |-> "push", desc |-> d] : d \in {d1, d2}}
    \cup {[op |-> "none"], [op |-> "clear"]}
    \cup {Set(On), Set([On EXCEPT !.hold = TRUE])}

\* The other stops and resets a transfer that is parked.
Controlling ==
    {[op |-> "push", desc |-> d3], [op |-> "none"], Set(Off)}
    \cup {Set([Off EXCEPT !.stop = TRUE]), Set([Off EXCEPT !.reset = TRUE])}

MCAccesses ==
    [h \in Hosts |-> IF h = copying THEN Copying ELSE Controlling]
=============================================================================
