----------------------------- MODULE MemRouter ------------------------------
(***************************************************************************)
(* mem_splitter with its router mem_router_reorder: one memory port for    *)
(* the master, several banks behind it.  A request goes to the bank that   *)
(* its address selects; banks answer at any time, so the words wait in one *)
(* FIFO per bank, and the bank-select FIFO says whose turn it is.  The     *)
(* mode register of mem_org_mode chooses how addresses are spread.         *)
(*                                                                         *)
(* Clock is one rising edge: every register takes its next value from the  *)
(* old values and from the inputs of that cycle.  A word of data is the    *)
(* place it comes from.                                                    *)
(***************************************************************************)
EXTENDS Integers, Sequences, FiniteSets, LlFifo

CONSTANTS
    \* In the hardware the first three are powers of two.
    NumBanks,       \* NUM_BANKS
    MaxBurst,       \* 2**(BURSTCOUNT_W-1), the longest burst and the stripe
    BankWords,      \* words in a bank, 2**(ADDRESS_W-$clog2(NUM_BANKS))
    MaxReads,       \* BANK_MAX_PENDING_READS
    MaxWrites,      \* BANK_MAX_PENDING_WRITES
    Requests,       \* the reads and writes that the master makes
    None            \* no request; no word on the port

Banks == 0..NumBanks-1
Addresses == 0..NumBanks*BankWords-1

ASSUME SizesAssumption ==
    /\ NumBanks \in Nat \ {0, 1} /\ MaxBurst \in Nat \ {0}
    /\ BankWords \in Nat \ {0} /\ BankWords % MaxBurst = 0
    /\ MaxReads \in Nat \ {0} /\ MaxWrites \in Nat \ {0}

\* The slave port is declared burstOnBurstBoundariesOnly.
ASSUME RequestsAssumption ==
    /\ None \notin Requests
    /\ \A r \in Requests :
        /\ r.kind \in {"read", "write"}
        /\ r.burst \in 1..MaxBurst
        /\ r.address \in Addresses
        /\ (r.address % MaxBurst) + r.burst <= MaxBurst

\* localparams
DataDepth == MaxReads + 3 + 1
SelectDepth == IF NumBanks > DataDepth THEN NumBanks ELSE DataDepth
AckDepth == MaxWrites * NumBanks + 1

NoTurn == [burst |-> 0, banks |-> {}]

VARIABLES
    mode,       \* mem_organization: TRUE for consecutive banks
    req,        \* what the master asks for, held until it is accepted
    bs,         \* bs_fifo
    counter,    \* bs_burstcounter
    df,         \* the data FIFOs
    free,       \* df_free
    out,        \* m_rrp_data, None while m_rrp_datavalid is low
    ack,        \* b_wrp_ack
    acks,       \* ack_counter
    ackFree,    \* ack_free
    pend,       \* in a bank: the words it has yet to return
    owed        \* the words the master waits for, for the properties only

readVars == <<bs, counter, df, free, out>>
writeVars == <<ack, acks, ackFree>>
vars == <<mode, req, readVars, writeVars, pend, owed>>

----------------------------------------------------------------------------
(* Addresses *)

\* a2b_swdimm and a2b_burst_interleaved: the bank and the address in it.
Consecutive(a) == <<(a \div BankWords) % NumBanks, a % BankWords>>
Interleaved(a) ==
    <<(a \div MaxBurst) % NumBanks,
      (a \div (MaxBurst * NumBanks)) * MaxBurst + (a % MaxBurst)>>

\* slave_address_transformed has the bank in its most significant bits ...
Transformed ==
    [m \in BOOLEAN |-> [a \in Addresses |->
        LET s == IF m THEN Consecutive(a) ELSE Interleaved(a)
        IN  s[1] * BankWords + s[2]]]

\* ... where the router's a2b finds it.
Place ==
    [m \in BOOLEAN |-> [a \in Addresses |->
        <<Transformed[m][a] \div BankWords, Transformed[m][a] % BankWords>>]]

----------------------------------------------------------------------------
(* The stall signals and the flow of the cycle *)

Reading == req # None /\ req.kind = "read"
Writing == req # None /\ req.kind = "write"
Selected(b) == req # None /\ Place[mode][req.address][1] = b

NoFree(b) == free[b] < MaxBurst

ReqStall(ready) == \E b \in Banks : Selected(b) /\ b \notin ready

\* Mutant of RrpStall: the bank-select FIFO is not asked.
RrpStallFreeOnly == Reading /\ \E b \in Banks : Selected(b) /\ NoFree(b)

RrpStall ==
    Reading /\ (LlFull(bs, SelectDepth)
               \/ \E b \in Banks : Selected(b) /\ NoFree(b))

WrpStall == Writing /\ ackFree < 0

\* ~m_arb_stall while there is a request.
Accepted(ready) == req # None /\ ~ReqStall(ready) /\ ~RrpStall /\ ~WrpStall

\* df_read, bs_read and bs_doneburst: whose turn it is, and is it the last
\* word of the burst?  A data FIFO shows a word some cycles after the write.
DfRead(b, shown) ==
    ~LlEmpty(bs) /\ b \in LlOut(bs).banks /\ df[b] # <<>> /\ b \in shown
BsRead(shown) == \E b \in Banks : DfRead(b, shown)
DoneBurst == counter = LlOut(bs).burst

----------------------------------------------------------------------------
(* The next value of each register *)

Init ==
    /\ mode = FALSE
    /\ req \in Requests \cup {None}
    /\ bs = LlReset(SelectDepth, NoTurn)
    /\ counter = 1
    /\ df = [b \in Banks |-> <<>>]
    /\ free = [b \in Banks |-> DataDepth - 1]
    /\ out = None
    /\ ack = [b \in Banks |-> FALSE]
    /\ acks = -1
    /\ ackFree = AckDepth - 1
    /\ pend = [b \in Banks |-> <<>>]
    /\ owed = <<>>

\* The request stays until it is accepted; then comes any other, or none.
NextRequest(ready) ==
    req' \in IF req = None \/ Accepted(ready) THEN Requests \cup {None} ELSE {req}

\* Mutant of BankSelect: the turn of a bank ends after one word.
BankSelectEarly(ready, shown) ==
    LET write == Reading /\ Accepted(ready)
    IN  bs' = LlStep(bs, SelectDepth, BsRead(shown), write,
                     IF write THEN [burst |-> req.burst,
                                    banks |-> {b \in Banks : Selected(b)}]
                     ELSE NoTurn)

\* bs_fifo: written with an accepted read, read after the last word.  What
\* its input is in the other cycles does not matter; here it is zero.
BankSelect(ready, shown) ==
    LET write == Reading /\ Accepted(ready)
    IN  bs' = LlStep(bs, SelectDepth, BsRead(shown) /\ DoneBurst, write,
                     IF write THEN [burst |-> req.burst,
                                    banks |-> {b \in Banks : Selected(b)}]
                     ELSE NoTurn)

\* Mutant of Counter: it is not set back after the last word.
CounterKept(shown) == counter' = IF BsRead(shown) THEN counter + 1 ELSE counter

Counter(shown) ==
    counter' = IF ~BsRead(shown) THEN counter
               ELSE IF DoneBurst THEN 1 ELSE counter + 1

\* Mutant of DataFifos: a word that arrives in the cycle of a read is lost.
DataFifosLossy(replies, shown) ==
    df' = [b \in Banks |->
              IF DfRead(b, shown) THEN Tail(df[b])
              ELSE df[b] \o (IF b \in replies THEN <<Head(pend[b])>> ELSE <<>>)]

\* A data FIFO takes what the bank returns and gives the word that is read.
DataFifos(replies, shown) ==
    df' = [b \in Banks |->
              (IF DfRead(b, shown) THEN Tail(df[b]) ELSE df[b])
              \o (IF b \in replies THEN <<Head(pend[b])>> ELSE <<>>)]

\* Mutant of Free: a burst takes one entry.
FreeOnce(ready, shown) ==
    free' = [b \in Banks |->
                free[b] + (IF DfRead(b, shown) THEN 1 ELSE 0)
                - (IF Reading /\ Accepted(ready) /\ Selected(b) THEN 1 ELSE 0)]

\* Mutant of Free: the entries of the words that are read are not given back.
FreeNever(ready, shown) ==
    free' = [b \in Banks |->
                free[b] - (IF Reading /\ Accepted(ready) /\ Selected(b)
                           THEN req.burst ELSE 0)]

\* A read takes the entries of its whole burst when it is accepted.
Free(ready, shown) ==
    free' = [b \in Banks |->
                free[b] + (IF DfRead(b, shown) THEN 1 ELSE 0)
                - (IF Reading /\ Accepted(ready) /\ Selected(b)
                   THEN req.burst ELSE 0)]

Output(shown) ==
    out' = IF BsRead(shown) THEN Head(df[CHOOSE b \in Banks : DfRead(b, shown)])
           ELSE None

\* mem_splitter acknowledges a write one cycle after the bank took it.
WriteTaken(ready, b) == Writing /\ Accepted(ready) /\ Selected(b)
Ack(ready) == ack' = [b \in Banks |-> WriteTaken(ready, b)]

\* Mutant of Acks: no more than one acknowledge is counted in a cycle that
\* also sends one.
AcksStuck == acks' = IF acks >= 0 THEN acks - 1
                     ELSE acks + Cardinality({b \in Banks : ack[b]})

Acks == acks' = acks + Cardinality({b \in Banks : ack[b]})
                     - (IF acks >= 0 THEN 1 ELSE 0)

AckFree(ready) ==
    ackFree' = ackFree + (IF acks >= 0 THEN 1 ELSE 0)
                       - (IF Writing /\ ~ReqStall(ready) /\ ackFree >= 0
                          THEN 1 ELSE 0)

\* A bank has the words of a burst at consecutive addresses of its own.
BankWork(ready, replies) ==
    pend' = [b \in Banks |->
                (IF b \in replies THEN Tail(pend[b]) ELSE pend[b])
                \o (IF Reading /\ Accepted(ready) /\ Selected(b)
                    THEN [i \in 1..req.burst |->
                             <<b, Place[mode][req.address][2] + i - 1>>]
                    ELSE <<>>)]

\* The master waits for the words of its addresses.
Owe(ready, shown) ==
    owed' = (IF BsRead(shown) THEN Tail(owed) ELSE owed)
            \o (IF Reading /\ Accepted(ready)
                THEN [i \in 1..req.burst |-> Place[mode][req.address + i - 1]]
                ELSE <<>>)

\* The host can write the mode register in any cycle.
SetMode == mode' \in BOOLEAN

----------------------------------------------------------------------------
Answering(replies) == replies \subseteq {b \in Banks : pend[b] # <<>>}

\* Banks that do not wait, banks that return a word, data FIFOs that show one.
\* Of the first only the bank of the request matters and of the last the bank
\* whose turn it is: all or none of them are as good as any others.
Clock(ready, replies, shown) ==
    /\ Answering(replies)
    /\ BankSelect(ready, shown) /\ Counter(shown)
    /\ DataFifos(replies, shown) /\ Free(ready, shown) /\ Output(shown)
    /\ Ack(ready) /\ Acks /\ AckFree(ready)
    /\ BankWork(ready, replies) /\ Owe(ready, shown)
    /\ NextRequest(ready)
    /\ SetMode

AllOrNone == {{}, Banks}

Next == \E ready, shown \in AllOrNone, replies \in SUBSET Banks :
            Clock(ready, replies, shown)

Spec == Init /\ [][Next]_vars

\* A bank does not wait for ever, answers what it took, and a data FIFO shows
\* what it holds.
Take == /\ Accepted(Banks)
        /\ \E shown \in AllOrNone, replies \in SUBSET Banks :
              Clock(Banks, replies, shown)
Reply(b) == /\ pend[b] # <<>>
            /\ \E ready, shown \in AllOrNone, others \in SUBSET (Banks \ {b}) :
                  Clock(ready, others \cup {b}, shown)
Show(b) == /\ DfRead(b, Banks)
           /\ \E ready \in AllOrNone, replies \in SUBSET Banks :
                 Clock(ready, replies, Banks)

Fairness == /\ WF_vars(Take)
            /\ \A b \in Banks : WF_vars(Reply(b)) /\ WF_vars(Show(b))

FairSpec == Spec /\ Fairness

----------------------------------------------------------------------------
(* Properties *)

Words == Banks \X (0..BankWords-1)

TypeOK ==
    /\ mode \in BOOLEAN /\ req \in Requests \cup {None}
    /\ bs.wptr \in [0..SelectDepth -> BOOLEAN]
    /\ bs.data \in [0..SelectDepth-1 -> [burst : 0..MaxBurst, banks : SUBSET Banks]]
    /\ counter \in 1..MaxBurst
    /\ df \in [Banks -> Seq(Words)] /\ pend \in [Banks -> Seq(Words)]
    /\ free \in [Banks -> 0..DataDepth-1]
    /\ out \in Words \cup {None}
    /\ ack \in [Banks -> BOOLEAN]
    /\ acks \in -1..AckDepth-1 /\ ackFree \in -1..AckDepth-1
    /\ owed \in Seq(Words)

\* The free counter of a bank is what its data FIFO has left, less the entry
\* that is kept back, when everything that the bank has still to return is
\* counted as there ("Number of free entries in the data FIFO minus one").
\* So no word that a bank returns meets a full FIFO.
Credits ==
    \A b \in Banks :
        free[b] >= 0 /\ free[b] + Len(df[b]) + Len(pend[b]) = DataDepth - 1

\* An accepted write holds its place until its acknowledge has been sent.
WriteCredits ==
    ackFree + (acks + 1) + Cardinality({b \in Banks : ack[b]}) = AckDepth - 1

\* How many of the first i words that the master waits for are in bank b.
FromBank(b, i) == Cardinality({j \in 1..i : owed[j][1] = b})

\* What a bank still returns, after what waits in its data FIFO, is what the
\* master waits for from that bank, in order: nothing is lost or doubled when
\* several banks answer in the same cycle.
StreamsMatch ==
    \A b \in Banks :
        LET line == df[b] \o pend[b]
        IN  /\ Len(line) = FromBank(b, Len(owed))
            /\ \A i \in 1..Len(owed) :
                  owed[i][1] = b => line[FromBank(b, i)] = owed[i]

\* The bank-select FIFO is a FIFO: its write pointer is one-hot, and a read
\* is never accepted while it is full.
SelectFifoIsSound == \E n \in 0..SelectDepth : LlHolds(bs, SelectDepth, n)

\* The router keeps the promise of a single memory: every word comes back in
\* the order of the requests, from the place that its own address had when
\* the request was accepted, whatever the order the banks answer in and
\* whenever the mode is switched ("Data is returned in a different bank order
\* than the order in which the banks were issued").
Single == INSTANCE InOrderMemory WITH
    Organisations <- {Place[m] : m \in BOOLEAN},
    Bursts <- {<<r.address, r.burst>> : r \in Requests},
    place <- Place[mode],
    answer <- out

ImplementsInOrderMemory == Single!MSpec

\* The router does not stall a request for ever, and words come back as long as
\* the master waits for some.
RequestsAreServed ==
    /\ req # None ~> Accepted(Banks)
    /\ owed # <<>> ~> out # None

=============================================================================
