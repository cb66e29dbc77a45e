--------------------------- MODULE SharedBuffers ---------------------------
(***************************************************************************)
(* What the driver's mmap() promises: a DMA buffer is allocated before it  *)
(* is mapped, is mapped by one caller first and by copies of that mapping  *)
(* later, and goes back to the kernel only after the last mapping of it    *)
(* has gone.  AddrMap implements it with a table of reference counts.      *)
(***************************************************************************)
CONSTANTS Bufs, Users

VARIABLES phase, users

vars == <<phase, users>>

Phases == {"free", "fresh", "mapped", "dying"}

TypeOK ==
    /\ phase \in [Bufs -> Phases]
    /\ users \in [Bufs -> SUBSET Users]

Init ==
    /\ phase = [b \in Bufs |-> "free"]
    /\ users = [b \in Bufs |-> {}]

Allocate(b) ==
    /\ phase[b] = "free"
    /\ phase' = [phase EXCEPT ![b] = "fresh"]
    /\ UNCHANGED users

\* The first mapping.
Publish(b, u) ==
    /\ phase[b] = "fresh"
    /\ phase' = [phase EXCEPT ![b] = "mapped"]
    /\ users' = [users EXCEPT ![b] = {u}]

\* Copies of existing mappings; a fork copies those of several buffers.
Share ==
    /\ \A b \in Bufs : /\ users[b] \subseteq users'[b]
                       /\ users'[b] # users[b] => phase[b] = "mapped"
    /\ UNCHANGED phase

Withdraw(b, u) ==
    /\ phase[b] = "mapped" /\ u \in users[b]
    /\ users' = [users EXCEPT ![b] = @ \ {u}]
    /\ phase' = [phase EXCEPT ![b] = IF users[b] = {u} THEN "dying" ELSE @]

Reclaim(b) ==
    /\ phase[b] = "dying"
    /\ phase' = [phase EXCEPT ![b] = "free"]
    /\ UNCHANGED users

Next ==
    \/ Share
    \/ \E b \in Bufs : \/ Allocate(b) \/ Reclaim(b)
                       \/ \E u \in Users : Publish(b, u) \/ Withdraw(b, u)

Spec == Init /\ [][Next]_vars

=============================================================================
