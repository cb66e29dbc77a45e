--------------------------- MODULE InOrderMemory ----------------------------
(***************************************************************************)
(* What a memory behind one Avalon port promises its master: the words of  *)
(* the bursts it has accepted come back one by one, in the order in which  *)
(* they were asked for, each from the place its address stands for.  The   *)
(* places can be reorganised, which does not disturb the words on the way. *)
(***************************************************************************)
EXTENDS Naturals, Sequences

CONSTANTS
    Organisations,  \* the ways in which addresses can be mapped to places
    Bursts,         \* the bursts that can be asked for: address and length
    None            \* no word

VARIABLES
    place,      \* the way that is chosen
    owed,       \* the places whose words are still to come back
    answer      \* the word on the port

mvars == <<place, owed, answer>>

OneToOne(p) == \A a, b \in DOMAIN p : p[a] = p[b] => a = b

Asked == {[i \in 1..q[2] |-> place[q[1] + i - 1]] : q \in Bursts}

MInit ==
    /\ \A p \in Organisations : OneToOne(p)
    /\ place \in Organisations /\ owed = <<>> /\ answer = None

\* One clock: a burst may be accepted and a word may come back.
MNext ==
    /\ \E words \in Asked \cup {<<>>} :
          \/ owed' = owed \o words /\ answer' = None
          \/ owed # <<>> /\ owed' = Tail(owed) \o words /\ answer' = Head(owed)
    /\ place' \in Organisations

MSpec == MInit /\ [][MNext]_mvars

=============================================================================
