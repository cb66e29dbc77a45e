--------------------------- MODULE MemRouter_proof ---------------------------
(***************************************************************************)
(* Proofs about the router, for any number of banks, any sizes and any     *)
(* requests: a data FIFO always has room for what its bank still returns,  *)
(* the bank-select FIFO works as a FIFO, the words come back in the order  *)
(* of the requests, and with its banks the router is one memory            *)
(* (InOrderMemory).                                                        *)
(***************************************************************************)
EXTENDS MemRouter, SequenceTheorems, FiniteSetTheorems,
        WellFoundedInduction, TLAPS

LEMMA DepthIsNat == DataDepth \in Nat \ {0} /\ SelectDepth \in Nat \ {0}
BY SizesAssumption DEF DataDepth, SelectDepth

----------------------------------------------------------------------------
(* acl_iface_ll_fifo *)

\* A clock of the FIFO moves the pointer by the items that come and go, if it
\* is not read while it is empty nor written while it is full.
LEMMA LlPointerMoves ==
    ASSUME NEW D \in Nat \ {0}, NEW f, NEW n \in 0..D, LlHolds(f, D, n),
           NEW read \in BOOLEAN, NEW write \in BOOLEAN, NEW in,
           read => n > 0, write => n < D \/ read
    PROVE  LET m == IF read = write THEN n ELSE IF read THEN n - 1 ELSE n + 1
           IN  LlHolds(LlStep(f, D, read, write, in), D, m)
<1>1. CASE read = write
  BY <1>1 DEF LlHolds, LlStep, LlPointer
<1>2. CASE read /\ ~write
  <2>1. n - 1 \in 0..D
    BY <1>2
  <2>2. ASSUME NEW k \in 0..D
        PROVE  (k < D /\ f.wptr[k + 1]) <=> k = n - 1
    BY <1>2 DEF LlHolds
  <2> QED
    BY <1>2, <2>1, <2>2 DEF LlHolds, LlStep, LlPointer
<1>3. CASE ~read /\ write
  <2>1. n + 1 \in 0..D
    BY <1>3
  <2>2. ASSUME NEW k \in 0..D
        PROVE  (k > 0 /\ f.wptr[k - 1]) <=> k = n + 1
    BY <1>3 DEF LlHolds
  <2> QED
    BY <1>3, <2>1, <2>2 DEF LlHolds, LlStep, LlPointer
<1> QED
  BY <1>1, <1>2, <1>3

\* Under the same conditions its items are those of a FIFO: the first is gone
\* after a read, the new one is the last after a write.
THEOREM LlFifoIsFifo ==
    ASSUME NEW S, NEW D \in Nat \ {0}, NEW n \in 0..D, NEW f,
           LlHolds(f, D, n), \A k \in 0..D-1 : f.data[k] \in S,
           NEW read \in BOOLEAN, NEW write \in BOOLEAN, NEW in \in S,
           read => n > 0, write => n < D \/ read
    PROVE  LET m == IF read = write THEN n ELSE IF read THEN n - 1 ELSE n + 1
               rest == IF read THEN Tail(LlItems(f, n)) ELSE LlItems(f, n)
           IN  LlItems(LlStep(f, D, read, write, in), m)
                   = IF write THEN Append(rest, in) ELSE rest
<1> DEFINE g == LlStep(f, D, read, write, in)
           d == LlData(f, D, read, write, in)
           m == IF read = write THEN n ELSE IF read THEN n - 1 ELSE n + 1
           items == LlItems(f, n)
           rest == IF read THEN Tail(items) ELSE items
           all == IF write THEN Append(rest, in) ELSE rest
<1>1. ASSUME NEW k \in 0..D-1
      PROVE  d[k] = IF ~(read \/ (write /\ k = n)) THEN f.data[k]
                    ELSE IF ~read \/ k + 1 = n \/ k = D - 1 THEN in
                    ELSE f.data[k + 1]
  BY DEF LlData, LlHolds
<1>2. g.data = d
  BY DEF LlStep
<1>3. \A k \in 0..D-1 : g.data[k] \in S
  BY <1>1, <1>2
<1>4. m \in 0..D
  OBVIOUS
<1>5. /\ items \in Seq(S) /\ Len(items) = n
      /\ \A k \in 1..n : items[k] = f.data[k - 1]
  BY DEF LlItems
<1>6. /\ LlItems(g, m) \in Seq(S) /\ Len(LlItems(g, m)) = m
      /\ \A k \in 1..m : LlItems(g, m)[k] = d[k - 1]
  <2> HIDE DEF g, m
  <2> QED
    BY <1>2, <1>3, <1>4 DEF LlItems
<1>7. /\ rest \in Seq(S) /\ Len(rest) = IF read THEN n - 1 ELSE n
      /\ \A k \in 1..Len(rest) :
            rest[k] = IF read THEN f.data[k] ELSE f.data[k - 1]
  <2>1. CASE read
    <3>1. items # <<>>
      BY <1>5, <2>1
    <3> HIDE DEF items
    <3> QED
      BY <1>5, <2>1, <3>1, HeadTailProperties
  <2>2. CASE ~read
    BY <1>5, <2>2
  <2> QED
    BY <2>1, <2>2
<1>8. /\ all \in Seq(S) /\ Len(all) = m
      /\ \A k \in 1..m : all[k] = IF k <= Len(rest) THEN rest[k] ELSE in
  <2> HIDE DEF rest
  <2> QED
    BY <1>7, AppendProperties
<1>9. \A k \in 1..m : LlItems(g, m)[k] = all[k]
  <2>1. ASSUME NEW k \in 1..m
        PROVE  d[k - 1] = all[k]
    <3>1. k - 1 \in 0..D-1
      OBVIOUS
    <3> HIDE DEF d, all, rest
    <3> QED
      BY <1>1, <1>7, <1>8, <3>1
  <2> HIDE DEF g, d, m, all
  <2> QED
    BY <1>6, <2>1
<1>10. LlItems(g, m) = all
  <2> HIDE DEF g, m, all
  <2> QED
    BY <1>6, <1>8, <1>9, SeqEqual
<1> QED
  BY <1>10

----------------------------------------------------------------------------
(* The credits *)

Word == Int \X Int

\* The address in a bank is a number.
LEMMA PlaceIsInt ==
    ASSUME NEW m \in BOOLEAN, NEW r \in Requests
    PROVE  Place[m][r.address][2] \in Int
<1>1. r.address \in Addresses /\ r.address \in Int
  BY RequestsAssumption, SizesAssumption DEF Addresses
<1>2. Consecutive(r.address)[1] \in Int /\ Consecutive(r.address)[2] \in Int
  BY <1>1, SizesAssumption DEF Consecutive
<1>3. Interleaved(r.address)[1] \in Int /\ Interleaved(r.address)[2] \in Int
  BY <1>1, SizesAssumption DEF Interleaved
<1>4. Transformed[m][r.address] \in Int
  BY <1>1, <1>2, <1>3, SizesAssumption DEF Transformed
<1> QED
  BY <1>1, <1>4, SizesAssumption DEF Place

\* The inductive invariant: the types that the counters need, the credits, and
\* a bank-select FIFO with a one-hot pointer.
RouterInv ==
    /\ req \in Requests \cup {None}
    /\ free \in [Banks -> Int]
    /\ df \in [Banks -> Seq(Word)]
    /\ pend \in [Banks -> Seq(Word)]
    /\ mode \in BOOLEAN
    /\ Credits
    /\ SelectFifoIsSound

LEMMA InitRouterInv == Init => RouterInv
<1> SUFFICES ASSUME Init PROVE RouterInv
  OBVIOUS
<1> USE DepthIsNat DEF Init
<1>1. Credits
  BY DEF Credits
<1>2. SelectFifoIsSound
  <2>1. 0 \in 0..SelectDepth
    OBVIOUS
  <2>2. \A k \in 0..SelectDepth : bs.wptr[k] <=> k = 0
    BY DEF LlReset
  <2> QED
    BY <2>1, <2>2 DEF SelectFifoIsSound, LlHolds
<1>3. free \in [Banks -> Int]
  OBVIOUS
<1>4. df \in [Banks -> Seq(Word)] /\ pend \in [Banks -> Seq(Word)]
  BY EmptySeq
<1>5. req \in Requests \cup {None} /\ mode \in BOOLEAN
  OBVIOUS
<1> QED
  BY ONLY <1>1, <1>2, <1>3, <1>4, <1>5 DEF RouterInv

\* A read is accepted only if the FIFO of its bank has an entry for each of
\* its words and the bank-select FIFO has one for the burst.
LEMMA AcceptedHasRoom ==
    ASSUME RouterInv, NEW ready, Reading, Accepted(ready)
    PROVE  /\ req.burst \in 1..MaxBurst
           /\ ~LlFull(bs, SelectDepth)
           /\ \A b \in Banks : Selected(b) => free[b] >= req.burst
<1>1. req \in Requests /\ req.burst \in 1..MaxBurst
  BY RequestsAssumption DEF RouterInv, Reading
<1>2. ~LlFull(bs, SelectDepth) /\ \A b \in Banks : Selected(b) => ~NoFree(b)
  BY DEF Accepted, RrpStall
<1>3. ASSUME NEW b \in Banks, Selected(b) PROVE free[b] >= req.burst
  <2>1. ~(free[b] < MaxBurst) /\ free[b] \in Int
    BY <1>2, <1>3 DEF NoFree, RouterInv
  <2> QED
    BY <1>1, <2>1, SizesAssumption
<1> QED
  BY <1>1, <1>2, <1>3

\* A data FIFO loses the word that is read and gains the one that arrives.
LEMMA DataFifosStep ==
    ASSUME RouterInv, NEW replies, NEW shown, Answering(replies),
           DataFifos(replies, shown)
    PROVE  /\ df' \in [Banks -> Seq(Word)]
           /\ \A b \in Banks :
                Len(df'[b]) = Len(df[b]) - (IF DfRead(b, shown) THEN 1 ELSE 0)
                                         + (IF b \in replies THEN 1 ELSE 0)
<1>1. ASSUME NEW b \in Banks
      PROVE  /\ df'[b] \in Seq(Word)
             /\ Len(df'[b]) = Len(df[b]) - (IF DfRead(b, shown) THEN 1 ELSE 0)
                                          + (IF b \in replies THEN 1 ELSE 0)
  <2> DEFINE kept == IF DfRead(b, shown) THEN Tail(df[b]) ELSE df[b]
             come == IF b \in replies THEN <<Head(pend[b])>> ELSE <<>>
  <2>1. df[b] \in Seq(Word) /\ pend[b] \in Seq(Word)
    BY DEF RouterInv
  <2>2. /\ kept \in Seq(Word)
        /\ Len(kept) = Len(df[b]) - (IF DfRead(b, shown) THEN 1 ELSE 0)
    BY <2>1, HeadTailProperties DEF DfRead
  <2>3. /\ come \in Seq(Word)
        /\ Len(come) = IF b \in replies THEN 1 ELSE 0
    BY <2>1 DEF Answering
  <2>4. df'[b] = kept \o come
    BY DEF DataFifos
  <2> HIDE DEF kept, come
  <2>5. df'[b] \in Seq(Word) /\ Len(df'[b]) = Len(kept) + Len(come)
    BY <2>2, <2>3, <2>4, ConcatProperties
  <2> QED
    BY <2>1, <2>2, <2>3, <2>5
<1>2. df' = [b \in Banks |-> df'[b]]
  BY DEF DataFifos
<1> QED
  BY <1>1, <1>2

\* A bank owes the words of the burst it took and not the one it returned.
LEMMA BankWorkStep ==
    ASSUME RouterInv, NEW ready, NEW replies, Answering(replies),
           BankWork(ready, replies)
    PROVE  /\ pend' \in [Banks -> Seq(Word)]
           /\ \A b \in Banks :
                Len(pend'[b]) =
                    Len(pend[b]) - (IF b \in replies THEN 1 ELSE 0)
                    + (IF Reading /\ Accepted(ready) /\ Selected(b)
                       THEN req.burst ELSE 0)
<1>1. ASSUME NEW b \in Banks
      PROVE  /\ pend'[b] \in Seq(Word)
             /\ Len(pend'[b]) =
                    Len(pend[b]) - (IF b \in replies THEN 1 ELSE 0)
                    + (IF Reading /\ Accepted(ready) /\ Selected(b)
                       THEN req.burst ELSE 0)
  <2> DEFINE take == Reading /\ Accepted(ready) /\ Selected(b)
             kept == IF b \in replies THEN Tail(pend[b]) ELSE pend[b]
             burst == [i \in 1..req.burst |->
                          <<b, Place[mode][req.address][2] + i - 1>>]
             come == IF take THEN burst ELSE <<>>
  <2>1. pend[b] \in Seq(Word)
    BY DEF RouterInv
  <2>2. /\ kept \in Seq(Word)
        /\ Len(kept) = Len(pend[b]) - (IF b \in replies THEN 1 ELSE 0)
    BY <2>1, HeadTailProperties DEF Answering
  <2>3. /\ come \in Seq(Word)
        /\ Len(come) = IF take THEN req.burst ELSE 0
    <3>1. CASE take
      <4>1. req.burst \in Nat
        BY <3>1, AcceptedHasRoom
      <4>2. Place[mode][req.address][2] \in Int
        BY <3>1, PlaceIsInt DEF RouterInv, Reading
      <4>3. \A i \in 1..req.burst :
               <<b, Place[mode][req.address][2] + i - 1>> \in Word
        BY <4>1, <4>2 DEF Word, Banks
      <4> QED
        BY <3>1, <4>1, <4>3
    <3>2. CASE ~take
      BY <3>2
    <3> QED
      BY <3>1, <3>2
  <2>4. pend'[b] = kept \o come
    BY DEF BankWork
  <2> HIDE DEF kept, come
  <2>5. pend'[b] \in Seq(Word) /\ Len(pend'[b]) = Len(kept) + Len(come)
    BY <2>2, <2>3, <2>4, ConcatProperties
  <2> QED
    BY <2>2, <2>3, <2>5
<1>2. pend' = [b \in Banks |-> pend'[b]]
  BY DEF BankWork
<1> QED
  BY <1>1, <1>2

\* The bank-select FIFO is never read empty nor written full.
LEMMA BankSelectStep ==
    ASSUME RouterInv, NEW ready, NEW shown, BankSelect(ready, shown)
    PROVE  SelectFifoIsSound'
<1> DEFINE read == BsRead(shown) /\ DoneBurst
           write == Reading /\ Accepted(ready)
<1>1. PICK n \in 0..SelectDepth : LlHolds(bs, SelectDepth, n)
  BY DEF RouterInv, SelectFifoIsSound
<1>2. read \in BOOLEAN /\ write \in BOOLEAN
  BY DEF BsRead, DoneBurst, Reading, Accepted
<1>3. read => n > 0
  BY <1>1, DepthIsNat DEF BsRead, DfRead, LlEmpty, LlHolds
<1>4. write => n < SelectDepth
  BY <1>1, AcceptedHasRoom, DepthIsNat DEF LlFull, LlHolds
<1>5. PICK in : bs' = LlStep(bs, SelectDepth, read, write, in)
  BY DEF BankSelect
<1> DEFINE m == IF read = write THEN n ELSE IF read THEN n - 1 ELSE n + 1
<1> HIDE DEF read, write
<1>6. m \in 0..SelectDepth
  BY <1>2, <1>3, <1>4, DepthIsNat
<1>7. LlHolds(LlStep(bs, SelectDepth, read, write, in), SelectDepth, m)
  BY <1>1, <1>2, <1>3, <1>4, LlPointerMoves, DepthIsNat
<1> QED
  BY <1>5, <1>6, <1>7, DepthIsNat DEF SelectFifoIsSound

LEMMA NextRouterInv == RouterInv /\ [Next]_vars => RouterInv'
<1> SUFFICES ASSUME RouterInv, [Next]_vars PROVE RouterInv'
  OBVIOUS
<1>1. ASSUME NEW ready \in AllOrNone, NEW shown \in AllOrNone,
             NEW replies \in SUBSET Banks, Clock(ready, replies, shown)
      PROVE  RouterInv'
  <2>1. req' \in Requests \cup {None} /\ mode' \in BOOLEAN
    BY <1>1 DEF Clock, NextRequest, SetMode, RouterInv
  <2>2. /\ Answering(replies) /\ DataFifos(replies, shown)
        /\ BankWork(ready, replies) /\ Free(ready, shown)
        /\ BankSelect(ready, shown)
    BY <1>1 DEF Clock
  <2>3. df' \in [Banks -> Seq(Word)] /\ pend' \in [Banks -> Seq(Word)]
    BY <2>2, DataFifosStep, BankWorkStep
  <2>4. ASSUME NEW b \in Banks
        PROVE  /\ free'[b] \in Int /\ free'[b] >= 0
               /\ free'[b] + Len(df'[b]) + Len(pend'[b]) = DataDepth - 1
    <3> DEFINE take == IF Reading /\ Accepted(ready) /\ Selected(b)
                       THEN req.burst ELSE 0
               read == IF DfRead(b, shown) THEN 1 ELSE 0
               come == IF b \in replies THEN 1 ELSE 0
    <3>1. /\ free[b] \in Int /\ free[b] >= 0
          /\ free[b] + Len(df[b]) + Len(pend[b]) = DataDepth - 1
          /\ Len(df[b]) \in Nat /\ Len(pend[b]) \in Nat
      BY DEF RouterInv, Credits
    <3>2. take \in Nat /\ free[b] >= take
      BY <3>1, AcceptedHasRoom
    <3>3. read \in 0..1 /\ come \in 0..1
      OBVIOUS
    <3>4. free'[b] = free[b] + read - take
      BY <2>2 DEF Free
    <3>5. Len(df'[b]) = Len(df[b]) - read + come
      BY <2>2, DataFifosStep
    <3>6. Len(pend'[b]) = Len(pend[b]) - come + take
      BY <2>2, BankWorkStep
    <3> HIDE DEF take, read, come
    <3>7. /\ free'[b] \in Int /\ free'[b] >= 0
          /\ Len(df'[b]) \in Int /\ Len(pend'[b]) \in Int
      BY ONLY <3>1, <3>2, <3>3, <3>4, <3>5, <3>6
    <3>8. free'[b] + Len(df'[b]) + Len(pend'[b])
              = free[b] + Len(df[b]) + Len(pend[b])
      <4>1. PICK f \in Int, l \in Int, p \in Int :
                f = free[b] /\ l = Len(df[b]) /\ p = Len(pend[b])
        BY ONLY <3>1
      <4>2. PICK t \in Int, r \in Int, c \in Int :
                t = take /\ r = read /\ c = come
        BY ONLY <3>2, <3>3
      <4>3. /\ free'[b] = f + r - t /\ Len(df'[b]) = l - r + c
            /\ Len(pend'[b]) = p - c + t
        BY ONLY <3>4, <3>5, <3>6, <4>1, <4>2
      <4>4. (f + r - t) + (l - r + c) + (p - c + t) = f + l + p
        BY ONLY f \in Int, l \in Int, p \in Int,
                t \in Int, r \in Int, c \in Int
      <4> QED
        BY ONLY <4>1, <4>3, <4>4
    <3> QED
      BY ONLY <3>1, <3>7, <3>8
  <2>5. free' \in [Banks -> Int]
    BY <2>2, <2>4 DEF Free
  <2>6. Credits'
    BY <2>4, DepthIsNat DEF Credits, DataDepth
  <2>7. SelectFifoIsSound'
    BY <2>2, BankSelectStep
  <2> QED
    BY <2>1, <2>3, <2>5, <2>6, <2>7 DEF RouterInv
<1>2. ASSUME UNCHANGED vars PROVE RouterInv'
  BY <1>2 DEF vars, readVars, writeVars, RouterInv, Credits,
              SelectFifoIsSound, LlHolds
<1> QED
  BY <1>1, <1>2 DEF Next

LEMMA RouterInvariance == Spec => []RouterInv
BY InitRouterInv, NextRouterInv, PTL DEF Spec

\* The free counters count exactly: however the banks answer, a word that a
\* bank returns finds room in its data FIFO.
THEOREM DataFifosNeverOverflow == Spec => []Credits
<1>1. RouterInv => Credits
  BY DEF RouterInv
<1> QED
  BY <1>1, RouterInvariance, PTL

\* The write pointer of the bank-select FIFO stays one-hot, so that it is a
\* FIFO in the sense of LlFifoIsFifo.
THEOREM SelectFifoIsAFifo == Spec => []SelectFifoIsSound
<1>1. RouterInv => SelectFifoIsSound
  BY DEF RouterInv
<1> QED
  BY <1>1, RouterInvariance, PTL

----------------------------------------------------------------------------
(* The acknowledges *)

\* A bank and a word of it, put together in one address, are found again.
LEMMA Recovered ==
    ASSUME NEW W \in Nat \ {0}, NEW k \in Nat, NEW w \in 0..W-1
    PROVE  (k * W + w) \div W = k
<1>1. k * W \in Nat
  OBVIOUS
<1>2. k * W <= k * W + w /\ k * W + w < (k + 1) * W
  <2>1. (k + 1) * W = k * W + W
    OBVIOUS
  <2> QED
    BY <1>1, <2>1
<1> DEFINE q == (k * W + w) \div W
<1>3. q \in Int /\ q * W <= k * W + w /\ k * W + w < (q + 1) * W
  OBVIOUS
<1>4. ~(q < k) /\ ~(q > k)
  OBVIOUS
<1> QED
  BY <1>3, <1>4

\* Interleaving keeps an address within the words of a bank.
LEMMA InterleavedFits ==
    ASSUME NEW a \in Addresses
    PROVE  Interleaved(a)[2] \in 0..BankWords-1
<1> DEFINE S == MaxBurst * NumBanks
           n == BankWords \div MaxBurst
           q == a \div S
           r == a % MaxBurst
<1> USE SizesAssumption
<1>1. a \in Nat /\ a < NumBanks * BankWords
  BY DEF Addresses
<1>2. n \in Nat /\ BankWords = n * MaxBurst
  OBVIOUS
<1>3. S \in Nat \ {0}
  OBVIOUS
<1>4. q \in Nat /\ q * S <= a
  BY <1>1, <1>3
<1>5. r \in 0..MaxBurst-1
  BY <1>1
<1>6. q < n
  <2>1. NumBanks * BankWords = n * S
    BY <1>2
  <2>2. q * S < n * S
    BY <1>1, <1>2, <1>3, <1>4, <2>1
  <2> HIDE DEF q, n, S
  <2> QED
    BY <1>2, <1>3, <1>4, <2>2
<1>7. q * MaxBurst + r \in 0..n * MaxBurst - 1
  <2> HIDE DEF q, n, r
  <2>1. (q + 1) * MaxBurst <= n * MaxBurst
    BY <1>2, <1>4, <1>6
  <2>2. (q + 1) * MaxBurst = q * MaxBurst + MaxBurst
    BY <1>4
  <2>3. q * MaxBurst \in Nat /\ n * MaxBurst \in Nat
    BY <1>2, <1>4
  <2> QED
    BY <1>5, <2>1, <2>2, <2>3
<1> QED
  BY <1>2, <1>7 DEF Interleaved

\* Every address is in one of the banks.
LEMMA PlaceInBank ==
    ASSUME NEW m \in BOOLEAN, NEW a \in Addresses
    PROVE  Place[m][a][1] \in Banks
<1> DEFINE s == IF m THEN Consecutive(a) ELSE Interleaved(a)
<1> USE SizesAssumption
<1>1. a \in Nat
  BY DEF Addresses
<1>2. s[1] \in Banks
  <2>1. a \div BankWords \in Nat /\ a \div MaxBurst \in Nat
    BY <1>1
  <2> QED
    BY <2>1 DEF Consecutive, Interleaved, Banks
<1>3. s[2] \in 0..BankWords-1
  BY <1>1, InterleavedFits DEF Consecutive
<1> HIDE DEF s
<1>4. (s[1] * BankWords + s[2]) \div BankWords = s[1]
  BY <1>2, <1>3, Recovered DEF Banks
<1>5. Transformed[m][a] = s[1] * BankWords + s[2]
  BY DEF Transformed, s
<1> QED
  BY <1>2, <1>4, <1>5 DEF Place

\* The inductive invariant of the acknowledge counters.
WriteInv ==
    /\ ack \in [Banks -> BOOLEAN]
    /\ acks \in Int /\ acks >= -1
    /\ ackFree \in Int /\ ackFree >= -1
    /\ WriteCredits

LEMMA BanksFinite == IsFiniteSet(Banks)
BY FS_Interval, SizesAssumption DEF Banks

LEMMA InitWriteInv == Init => WriteInv
<1> SUFFICES ASSUME Init PROVE WriteInv
  OBVIOUS
<1>1. {b \in Banks : ack[b]} = {}
  BY DEF Init
<1>2. Cardinality({b \in Banks : ack[b]}) = 0
  BY <1>1, FS_EmptySet
<1>3. AckDepth \in Nat
  BY SizesAssumption DEF AckDepth
<1> QED
  BY <1>2, <1>3 DEF Init, WriteInv, WriteCredits

\* A write goes to one bank, which acknowledges it in the next cycle.
LEMMA OneAcknowledge ==
    ASSUME RouterInv, ackFree \in Int, NEW ready, Ack(ready)
    PROVE  Cardinality({b \in Banks : ack'[b]})
               = IF Writing /\ ~ReqStall(ready) /\ ackFree >= 0 THEN 1 ELSE 0
<1>1. \A b \in Banks : ack'[b] = WriteTaken(ready, b)
  BY DEF Ack
<1>2. \A b : WriteTaken(ready, b) <=>
                 Writing /\ ~ReqStall(ready) /\ ackFree >= 0 /\ Selected(b)
  BY DEF WriteTaken, Accepted, RrpStall, WrpStall, Reading, Writing
<1>3. CASE Writing /\ ~ReqStall(ready) /\ ackFree >= 0
  <2>1. req \in Requests /\ mode \in BOOLEAN
    BY <1>3 DEF Writing, RouterInv
  <2> DEFINE b == Place[mode][req.address][1]
  <2>2. b \in Banks
    BY <2>1, PlaceInBank, RequestsAssumption
  <2>3. {c \in Banks : ack'[c]} = {b}
    BY <1>1, <1>2, <1>3, <2>2 DEF Selected, Writing
  <2> QED
    BY <1>3, <2>3, FS_Singleton
<1>4. CASE ~(Writing /\ ~ReqStall(ready) /\ ackFree >= 0)
  <2>1. {c \in Banks : ack'[c]} = {}
    BY <1>1, <1>2, <1>4
  <2> QED
    BY <1>4, <2>1, FS_EmptySet
<1> QED
  BY <1>3, <1>4

LEMMA NextWriteInv == RouterInv /\ WriteInv /\ [Next]_vars => WriteInv'
<1> SUFFICES ASSUME RouterInv, WriteInv, [Next]_vars PROVE WriteInv'
  OBVIOUS
<1>1. ASSUME NEW ready, Ack(ready), Acks, AckFree(ready) PROVE WriteInv'
  <2> DEFINE old == Cardinality({b \in Banks : ack[b]})
             new == Cardinality({b \in Banks : ack'[b]})
             sent == IF acks >= 0 THEN 1 ELSE 0
  <2>1. old \in Nat
    <3>1. {b \in Banks : ack[b]} \subseteq Banks
      OBVIOUS
    <3> QED
      BY <3>1, BanksFinite, FS_Subset, FS_CardinalityType
  <2>2. /\ new \in 0..1 /\ ackFree' = ackFree + sent - new
        /\ new = 1 => ackFree >= 0
    BY <1>1, OneAcknowledge DEF AckFree, WriteInv
  <2>3. acks' = acks + old - sent
    BY <1>1 DEF Acks
  <2>4. ackFree + (acks + 1) + old = AckDepth - 1
    BY DEF WriteInv, WriteCredits
  <2>5. ack' \in [Banks -> BOOLEAN]
    BY <1>1 DEF Ack, WriteTaken, Writing, Accepted
  <2> HIDE DEF old, new
  <2>6. /\ acks' \in Int /\ acks' >= -1
        /\ ackFree' \in Int /\ ackFree' >= -1
        /\ ackFree' + (acks' + 1) + new = AckDepth - 1
    BY <2>1, <2>2, <2>3, <2>4, SizesAssumption DEF WriteInv, AckDepth
  <2> QED
    BY <2>5, <2>6 DEF WriteInv, WriteCredits, new
<1>2. ASSUME UNCHANGED vars PROVE WriteInv'
  BY <1>2 DEF vars, writeVars, WriteInv, WriteCredits
<1> QED
  BY <1>1, <1>2 DEF Next, Clock

\* The counters of the acknowledges add up: a write that was accepted holds
\* its place from the bank's acknowledge until the master has been given it,
\* so that no acknowledge is lost or sent twice.
THEOREM AcknowledgesAddUp == Spec => []WriteCredits
<1>1. WriteInv => WriteCredits
  BY DEF WriteInv
<1> QED
  BY <1>1, InitWriteInv, NextWriteInv, RouterInvariance, PTL DEF Spec

----------------------------------------------------------------------------
(* The places of a burst *)

\* What an address is made of.
LEMMA Divided ==
    ASSUME NEW W \in Nat \ {0}, NEW a \in Nat
    PROVE  /\ a \div W \in Nat /\ a % W \in 0..W-1
           /\ a = (a \div W) * W + (a % W)
OBVIOUS

LEMMA InNat ==
    ASSUME NEW W \in Nat \ {0}, NEW a \in Nat
    PROVE  a \div W \in Nat /\ a % W \in Nat
OBVIOUS

\* The same, with names for the parts.
LEMMA Parts ==
    ASSUME NEW W \in Nat \ {0}, NEW a \in Nat
    PROVE  \E k \in Nat, w \in 0..W-1 :
              k = a \div W /\ w = a % W /\ a = k * W + w
BY Divided

\* A word in its block is what is left of its address.
LEMMA RecoveredRest ==
    ASSUME NEW W \in Nat \ {0}, NEW k \in Nat, NEW w \in 0..W-1
    PROVE  (k * W + w) % W = w
<1>1. (k * W + w) \div W = k
  BY Recovered
<1>2. PICK x \in Nat : x = k * W + w
  OBVIOUS
<1>3. x % W \in 0..W-1 /\ x = (x \div W) * W + (x % W)
  BY <1>2, Divided
<1>4. x = k * W + (x % W)
  BY <1>1, <1>2, <1>3
<1>5. PICK y \in Nat, z \in Nat : y = k * W /\ z = x % W
  BY <1>3
<1> QED
  BY <1>2, <1>4, <1>5

\* Some words further in the same stripe of M words.
LEMMA InStripe ==
    ASSUME NEW M \in Nat \ {0}, NEW a \in Nat, NEW d \in Nat,
           (a % M) + d < M
    PROVE  (a + d) \div M = a \div M /\ (a + d) % M = (a % M) + d
<1>1. /\ a \div M \in Nat /\ a % M \in 0..M-1
      /\ a = (a \div M) * M + (a % M)
  BY Divided
<1>2. PICK k \in Nat, w \in 0..M-1 : k = a \div M /\ w = (a % M) + d
  <2>1. a % M \in Nat
    BY <1>1
  <2>2. (a % M) + d \in 0..M-1
    BY <2>1
  <2> QED
    BY <1>1, <2>2
<1>3. a + d = k * M + w
  <2>1. PICK z \in Nat : z = k * M
    OBVIOUS
  <2>2. a = z + (a % M)
    BY <1>1, <1>2, <2>1
  <2> QED
    BY <1>1, <1>2, <2>1, <2>2
<1> QED
  BY <1>2, <1>3, Recovered, RecoveredRest

\* A stripe of M words lies within one block of n stripes.
LEMMA StripeInBlock ==
    ASSUME NEW M \in Nat \ {0}, NEW n \in Nat \ {0}, NEW a \in Nat,
           NEW d \in Nat, (a % M) + d < M, NEW B \in Nat \ {0}, B = n * M
    PROVE  (a % B) + d < B
<1>1. PICK k \in Nat, w \in 0..M-1 : k = a \div M /\ w = a % M /\ a = k * M + w
  BY Parts
<1>2. PICK j \in Nat, v \in 0..B-1 : j = a \div B /\ v = a % B /\ a = j * B + v
  BY Parts
<1>3. PICK t \in Int : t = k - j * n
  OBVIOUS
<1>4. PICK u \in Int : u = t * M
  OBVIOUS
<1>5. v = u + w
  <2>1. t * M = k * M - (j * n) * M
    BY <1>3
  <2>2. j * B = (j * n) * M
    OBVIOUS
  <2>3. PICK x \in Int, y \in Int : x = k * M /\ y = j * B
    OBVIOUS
  <2>4. u = x - y
    BY <1>4, <2>1, <2>2, <2>3
  <2>5. x = u + y
    BY <2>3, <2>4
  <2>6. a = x + w /\ a = y + v
    BY <1>1, <1>2, <2>3
  <2>7. w \in Int /\ v \in Int
    OBVIOUS
  <2>8. x + w = y + v /\ x = u + y
    BY <2>5, <2>6
  <2> QED
    BY ONLY <2>7, <2>8, u \in Int, x \in Int, y \in Int
<1>6. t < n
  <2>1. SUFFICES ASSUME t >= n PROVE FALSE
    OBVIOUS
  <2>2. t * M >= n * M
    BY <2>1
  <2>3. u >= B
    BY <1>4, <2>2
  <2> QED
    BY <1>1, <1>2, <1>5, <2>3
<1>7. u + M <= B
  <2>1. (t + 1) * M <= n * M
    BY <1>6
  <2>2. (t + 1) * M = t * M + M
    OBVIOUS
  <2> QED
    BY <1>4, <2>1, <2>2
<1>8. w + d < M /\ v + d < B
  BY <1>1, <1>5, <1>7
<1> QED
  BY <1>2, <1>8

IsProduct(B, M, N) == B \in Nat \ {0} /\ B = M * N

\* A quotient by a product is the quotient of the quotient.
LEMMA QuotientOfQuotient ==
    ASSUME NEW M \in Nat \ {0}, NEW N \in Nat \ {0}, NEW a \in Nat,
           NEW B, IsProduct(B, M, N)
    PROVE  a \div M = (a \div B) * N + ((a \div M) % N)
<1> USE DEF IsProduct
<1>1. PICK k \in Nat, w \in 0..M-1 : k = a \div M /\ w = a % M /\ a = k * M + w
  BY Parts
<1>2. PICK q \in Nat, s \in 0..N-1 : q = k \div N /\ s = k % N /\ k = q * N + s
  BY <1>1, Parts
<1>3. PICK e \in Nat : e = s * M + w
  BY <1>1
<1>4. e < B
  <2>1. (s + 1) * M <= N * M
    BY <1>2
  <2>2. (s + 1) * M = s * M + M /\ N * M = B
    BY <1>2
  <2> QED
    BY <1>1, <1>3, <2>1, <2>2
<1>5. a = q * B + e
  <2>1. k * M = (q * N + s) * M
    BY <1>2
  <2>2. (q * N + s) * M = (q * N) * M + s * M
    BY <1>2
  <2>3. (q * N) * M = q * B
    OBVIOUS
  <2>4. PICK x \in Nat, y \in Nat : x = q * B /\ y = s * M
    BY <1>2
  <2>5. k * M = x + y
    BY <2>1, <2>2, <2>3, <2>4
  <2> QED
    BY <1>1, <1>3, <2>4, <2>5
<1>6. a \div B = q
  BY <1>3, <1>4, <1>5, Recovered
<1> QED
  BY <1>1, <1>2, <1>6

\* The bank and the word of an address, before they are put together.
Split(m, a) == IF m THEN Consecutive(a) ELSE Interleaved(a)

\* How many stripes a bank has, and the words of all banks, for the bounds.
LEMMA Stripes ==
    /\ BankWords \div MaxBurst \in Nat \ {0}
    /\ BankWords = (BankWords \div MaxBurst) * MaxBurst
    /\ NumBanks * BankWords \in Nat \ {0}
    /\ MaxBurst * NumBanks \in Nat \ {0}
<1> USE SizesAssumption
<1>1. PICK k \in Nat, w \in 0..MaxBurst-1 :
          k = BankWords \div MaxBurst /\ w = BankWords % MaxBurst
          /\ BankWords = k * MaxBurst + w
  BY Parts
<1>2. w = 0
  BY <1>1
<1>3. BankWords = k * MaxBurst
  BY <1>1, <1>2
<1>4. k # 0
  BY <1>3
<1> QED
  BY <1>1, <1>3, <1>4

\* The router finds the bank and the word that mem_splitter put in the address.
LEMMA PlaceIsSplit ==
    ASSUME NEW m \in BOOLEAN, NEW a \in Addresses
    PROVE  /\ Place[m][a] = <<Split(m, a)[1], Split(m, a)[2]>>
           /\ Split(m, a)[1] \in Banks /\ Split(m, a)[2] \in 0..BankWords-1
<1> DEFINE s == Split(m, a)
<1> USE SizesAssumption
<1>1. a \in Nat
  BY DEF Addresses
<1>2. s[1] \in Banks
  <2>1. a \div BankWords \in Nat /\ a \div MaxBurst \in Nat
    BY <1>1
  <2> QED
    BY <2>1 DEF Split, Consecutive, Interleaved, Banks
<1>3. s[2] \in 0..BankWords-1
  BY <1>1, InterleavedFits DEF Split, Consecutive
<1>4. PICK k \in Nat, w \in 0..BankWords-1 : k = s[1] /\ w = s[2]
  BY <1>2, <1>3 DEF Banks
<1>5. (k * BankWords + w) \div BankWords = k
      /\ (k * BankWords + w) % BankWords = w
  BY Recovered, RecoveredRest
<1>6. Transformed[m][a] = s[1] * BankWords + s[2]
  BY DEF Transformed, Split
<1>7. Transformed[m][a] = k * BankWords + w
  BY <1>4, <1>6
<1>8. Place[m][a] = <<Transformed[m][a] \div BankWords,
                      Transformed[m][a] % BankWords>>
  BY DEF Place
<1>9. Place[m][a] = <<k, w>>
  BY <1>5, <1>7, <1>8
<1> QED
  BY <1>2, <1>3, <1>4, <1>9

\* Every place is a word of a bank.
LEMMA PlaceIsWord ==
    ASSUME NEW m \in BOOLEAN, NEW a \in Addresses
    PROVE  Place[m][a] \in Words
<1>1. PICK k \in Banks, w \in 0..BankWords-1 : Place[m][a] = <<k, w>>
  BY PlaceIsSplit
<1> QED
  BY <1>1 DEF Words

\* A burst that stays in its stripe is a run of addresses of the port ...
LEMMA BurstInRange ==
    ASSUME NEW a \in Addresses, NEW d \in Nat, (a % MaxBurst) + d < MaxBurst
    PROVE  a + d \in Addresses
<1> USE SizesAssumption
<1>1. a \in Nat /\ a < NumBanks * BankWords
  BY DEF Addresses
<1>2. PICK B \in Nat \ {0} : B = NumBanks * BankWords
  BY Stripes
<1>3. PICK n \in Nat \ {0} : n = NumBanks * (BankWords \div MaxBurst)
  BY Stripes
<1>4. B = n * MaxBurst
  BY <1>2, <1>3, Stripes
<1>5. (a % B) + d < B
  BY <1>1, <1>4, StripeInBlock
<1>6. a % B = a
  BY <1>1, <1>2
<1>7. a + d < B /\ a + d \in Nat
  BY <1>1, <1>5, <1>6
<1> QED
  BY <1>2, <1>7 DEF Addresses

\* ... and of words of one bank.
LEMMA SplitOfBurst ==
    ASSUME NEW m \in BOOLEAN, NEW a \in Addresses, NEW d \in Nat,
           (a % MaxBurst) + d < MaxBurst
    PROVE  /\ Split(m, a + d)[1] = Split(m, a)[1]
           /\ Split(m, a + d)[2] = Split(m, a)[2] + d
<1> USE SizesAssumption
<1>1. a \in Nat
  BY DEF Addresses
<1>2. CASE m
  <2>1. (a % BankWords) + d < BankWords
    BY <1>1, Stripes, StripeInBlock
  <2>2. (a + d) \div BankWords = a \div BankWords
        /\ (a + d) % BankWords = (a % BankWords) + d
    BY <1>1, <2>1, InStripe
  <2> QED
    BY <1>2, <2>2 DEF Split, Consecutive
<1>3. CASE ~m
  <2>1. PICK B \in Nat \ {0} : B = MaxBurst * NumBanks
    BY Stripes
  <2>2. B = NumBanks * MaxBurst /\ NumBanks \in Nat \ {0}
    BY <2>1
  <2>3. (a % B) + d < B
    BY <1>1, <2>2, StripeInBlock
  <2>4. (a + d) \div B = a \div B
    BY <1>1, <2>3, InStripe
  <2>5. (a + d) \div MaxBurst = a \div MaxBurst
        /\ (a + d) % MaxBurst = (a % MaxBurst) + d
    BY <1>1, InStripe
  <2>6. PICK x \in Nat, y \in Nat :
            x = (a \div B) * MaxBurst /\ y = a % MaxBurst
    <3>1. a \div B \in Nat /\ a % MaxBurst \in Nat
      <4>1. MaxBurst \in Nat \ {0}
        OBVIOUS
      <4> QED
        BY <1>1, <4>1, InNat, Zenon
    <3>2. (a \div B) * MaxBurst \in Nat
      BY <3>1
    <3> QED
      BY <3>1, <3>2
  <2>7. Interleaved(a)[2] = x + y /\ Interleaved(a + d)[2] = x + (y + d)
    BY <2>1, <2>4, <2>5, <2>6 DEF Interleaved
  <2>8. Interleaved(a + d)[1] = Interleaved(a)[1]
    BY <2>5 DEF Interleaved
  <2>9. Interleaved(a + d)[2] = Interleaved(a)[2] + d
    BY <2>6, <2>7
  <2> QED
    BY <1>3, <2>8, <2>9 DEF Split
<1> QED
  BY <1>2, <1>3

LEMMA PlaceOfBurst ==
    ASSUME NEW m \in BOOLEAN, NEW a \in Addresses, NEW d \in Nat,
           (a % MaxBurst) + d < MaxBurst
    PROVE  /\ a + d \in Addresses
           /\ Place[m][a + d] = <<Place[m][a][1], Place[m][a][2] + d>>
<1>1. a + d \in Addresses
  BY BurstInRange
<1>2. /\ Place[m][a] = <<Split(m, a)[1], Split(m, a)[2]>>
      /\ Place[m][a + d] = <<Split(m, a + d)[1], Split(m, a + d)[2]>>
  BY <1>1, PlaceIsSplit
<1> QED
  BY <1>1, <1>2, SplitOfBurst

\* Two addresses never share a place, in either organisation: consecutive ...
LEMMA ConsecutiveIsOneToOne ==
    ASSUME NEW a \in Addresses
    PROVE  a = Consecutive(a)[1] * BankWords + Consecutive(a)[2]
<1> USE SizesAssumption
<1>1. a \in Nat /\ a < NumBanks * BankWords
  BY DEF Addresses
<1>2. PICK k \in Nat, w \in 0..BankWords-1 :
          k = a \div BankWords /\ w = a % BankWords /\ a = k * BankWords + w
  BY <1>1, Parts
<1>3. k < NumBanks
  <2>1. SUFFICES ASSUME k >= NumBanks PROVE FALSE
    OBVIOUS
  <2>2. k * BankWords >= NumBanks * BankWords
    BY <2>1
  <2> QED
    BY <1>1, <1>2, <2>2
<1>4. k % NumBanks = k
  BY <1>3
<1> QED
  BY <1>2, <1>4 DEF Consecutive

\* ... or interleaved.
LEMMA InterleavedIsOneToOne ==
    ASSUME NEW a \in Addresses
    PROVE  a = ((Interleaved(a)[2] \div MaxBurst) * NumBanks
                  + Interleaved(a)[1]) * MaxBurst
               + (Interleaved(a)[2] % MaxBurst)
<1> USE SizesAssumption
<1>1. a \in Nat
  BY DEF Addresses
<1>2. PICK k \in Nat, w \in 0..MaxBurst-1 :
          k = a \div MaxBurst /\ w = a % MaxBurst /\ a = k * MaxBurst + w
  BY <1>1, Parts
<1>3. PICK B \in Nat \ {0} : B = MaxBurst * NumBanks
  BY Stripes
<1>4. PICK q \in Nat : q = a \div B
  BY <1>1
<1>5. k = q * NumBanks + (k % NumBanks)
  <2>1. NumBanks \in Nat \ {0}
    OBVIOUS
  <2>2. a \div MaxBurst = (a \div B) * NumBanks
                           + ((a \div MaxBurst) % NumBanks)
    <3>1. MaxBurst \in Nat \ {0}
      OBVIOUS
    <3>2. IsProduct(B, MaxBurst, NumBanks)
      BY <1>3 DEF IsProduct
    <3> QED
      BY ONLY <1>1, <2>1, <3>1, <3>2, QuotientOfQuotient, Zenon
  <2> QED
    BY <1>2, <1>4, <2>2
<1>6. Interleaved(a)[1] = k % NumBanks /\ Interleaved(a)[2] = q * MaxBurst + w
  BY <1>2, <1>3, <1>4 DEF Interleaved
<1>7. (q * MaxBurst + w) \div MaxBurst = q /\ (q * MaxBurst + w) % MaxBurst = w
  BY Recovered, RecoveredRest
<1>8. /\ Interleaved(a)[2] \div MaxBurst = q
      /\ Interleaved(a)[2] % MaxBurst = w
  BY <1>6, <1>7
<1> QED
  BY <1>2, <1>5, <1>6, <1>8

\* Every address has a word of its own: in either organisation of the banks
\* (mem_org_mode) the splitter sends no two addresses to one place of one bank.
THEOREM PlacesAreDistinct ==
    ASSUME NEW m \in BOOLEAN, NEW a \in Addresses, NEW b \in Addresses,
           Place[m][a] = Place[m][b]
    PROVE  a = b
<1>1. Split(m, a)[1] = Split(m, b)[1] /\ Split(m, a)[2] = Split(m, b)[2]
  BY PlaceIsSplit
<1>2. CASE m
  <2>1. /\ Consecutive(a)[1] = Consecutive(b)[1]
        /\ Consecutive(a)[2] = Consecutive(b)[2]
    BY <1>1, <1>2 DEF Split
  <2> QED
    BY <2>1, ConsecutiveIsOneToOne
<1>3. CASE ~m
  <2>1. /\ Interleaved(a)[1] = Interleaved(b)[1]
        /\ Interleaved(a)[2] = Interleaved(b)[2]
    BY <1>1, <1>3 DEF Split
  <2> QED
    BY <2>1, InterleavedIsOneToOne
<1> QED
  BY <1>2, <1>3

----------------------------------------------------------------------------
(* Counting the words of a bank *)

\* A set of numbers has a least one: what replaces induction here.
LEMMA LeastNumber ==
    ASSUME NEW S \in SUBSET Nat, S # {}
    PROVE  \E x \in S : \A y \in S : x <= y
<1>1. IsWellFoundedOn(OpToRel(<, Nat), Nat)
  BY NatLessThanWellFounded
<1>2. PICK x \in S : \A y \in S : ~(<<y, x>> \in OpToRel(<, Nat))
  BY <1>1, WFMin
<1>3. \A y \in S : ~(y < x)
  BY <1>2 DEF OpToRel
<1> QED
  BY <1>3

\* How many of the first i words of s are in bank b.
Rank(s, b, i) == Cardinality({j \in 1..i : s[j][1] = b})

LEMMA RankIsNat ==
    ASSUME NEW s, NEW b, NEW i \in Nat
    PROVE  Rank(s, b, i) \in Nat
<1>1. IsFiniteSet({j \in 1..i : s[j][1] = b})
  <2>1. IsFiniteSet(1..i)
    BY FS_Interval
  <2> QED
    BY <2>1, FS_Subset
<1> QED
  BY <1>1, FS_CardinalityType DEF Rank

LEMMA RankOfNone ==
    ASSUME NEW s, NEW b
    PROVE  Rank(s, b, 0) = 0
<1>1. {j \in 1..0 : s[j][1] = b} = {}
  OBVIOUS
<1> QED
  BY <1>1, FS_EmptySet DEF Rank

\* One word more counts if it is in the bank.
LEMMA RankStep ==
    ASSUME NEW s, NEW b, NEW i \in Nat
    PROVE  Rank(s, b, i + 1)
               = Rank(s, b, i) + (IF s[i + 1][1] = b THEN 1 ELSE 0)
<1> DEFINE A == {j \in 1..i : s[j][1] = b}
           B == {j \in 1..i+1 : s[j][1] = b}
<1>1. IsFiniteSet(A)
  <2>1. IsFiniteSet(1..i)
    BY FS_Interval
  <2> QED
    BY <2>1, FS_Subset
<1>2. CASE s[i + 1][1] = b
  <2>1. B = A \cup {i + 1} /\ i + 1 \notin A
    BY <1>2
  <2>2. Cardinality(B) = Cardinality(A) + 1
    BY <1>1, <2>1, FS_AddElement
  <2> QED
    BY <1>2, <2>2 DEF Rank
<1>3. CASE s[i + 1][1] # b
  <2>1. B = A
    BY <1>3
  <2>2. Rank(s, b, i + 1) = Rank(s, b, i)
    BY <2>1 DEF Rank
  <2> HIDE DEF A, B
  <2> QED
    BY <1>3, <2>2, RankIsNat
<1> QED
  BY <1>2, <1>3

\* The rank depends on the words that are counted only.
LEMMA RankOfSame ==
    ASSUME NEW s, NEW t, NEW b, NEW i \in Nat, \A j \in 1..i : t[j] = s[j]
    PROVE  Rank(t, b, i) = Rank(s, b, i)
<1>1. {j \in 1..i : t[j][1] = b} = {j \in 1..i : s[j][1] = b}
  OBVIOUS
<1> QED
  BY <1>1 DEF Rank

\* A word of the bank is not further than the words that are counted.
LEMMA RankWithin ==
    ASSUME NEW s, NEW b, NEW p \in Nat, NEW i \in 1..p, s[i][1] = b
    PROVE  Rank(s, b, i) \in 1..Rank(s, b, p)
<1> DEFINE A == {j \in 1..i : s[j][1] = b}
           B == {j \in 1..p : s[j][1] = b}
<1>1. i - 1 \in Nat /\ (i - 1) + 1 = i
  OBVIOUS
<1>2. Rank(s, b, (i - 1) + 1) = Rank(s, b, i - 1) + 1
  BY <1>1, RankStep
<1>3. Rank(s, b, i) >= 1
  BY <1>1, <1>2, RankIsNat
<1>4. A \subseteq B /\ IsFiniteSet(B)
  <2>1. IsFiniteSet(1..p)
    BY FS_Interval
  <2> QED
    BY <2>1, FS_Subset
<1>5. Cardinality(A) <= Cardinality(B)
  BY <1>4, FS_Subset
<1>6. Rank(s, b, i) <= Rank(s, b, p)
  BY <1>5 DEF Rank
<1>7. Rank(s, b, i) \in Nat /\ Rank(s, b, p) \in Nat
  BY RankIsNat
<1> HIDE DEF A, B
<1> QED
  BY <1>3, <1>6, <1>7

\* t is s without its first word, as far as the n words of t.
WithoutFirst(s, t, n) == \A j \in 1..n : t[j] = s[j + 1]

\* Without the first word the others move one place down.
LEMMA RankOfRest ==
    ASSUME NEW s, NEW t, NEW b, NEW n \in Nat, WithoutFirst(s, t, n)
    PROVE  \A i \in 0..n :
              Rank(s, b, i + 1)
                  = Rank(t, b, i) + (IF s[1][1] = b THEN 1 ELSE 0)
<1> DEFINE first == IF s[1][1] = b THEN 1 ELSE 0
           Holds(i) == Rank(s, b, i + 1) = Rank(t, b, i) + first
           Bad == {i \in 0..n : ~Holds(i)}
<1>1. Holds(0)
  <2>1. Rank(s, b, 0 + 1) = Rank(s, b, 0) + (IF s[0 + 1][1] = b THEN 1 ELSE 0)
    BY RankStep
  <2> QED
    BY <2>1, RankOfNone
<1>2. SUFFICES ASSUME Bad # {} PROVE FALSE
  OBVIOUS
<1>3. PICK i \in Bad : \A k \in Bad : i <= k
  <2>1. Bad \in SUBSET Nat
    OBVIOUS
  <2> HIDE DEF Bad
  <2> QED
    BY <1>2, <2>1, LeastNumber
<1>4. i \in 1..n
  BY <1>1
<1>5. PICK k \in Nat : k = i - 1
  BY <1>4
<1>6. Holds(k)
  BY <1>3, <1>4, <1>5
<1>7. /\ Rank(s, b, i + 1)
             = Rank(s, b, i) + (IF s[i + 1][1] = b THEN 1 ELSE 0)
      /\ Rank(t, b, k + 1)
             = Rank(t, b, k) + (IF t[k + 1][1] = b THEN 1 ELSE 0)
  BY <1>4, <1>5, RankStep
<1>8. k + 1 = i /\ t[i] = s[i + 1]
  BY <1>4, <1>5 DEF WithoutFirst
<1>9. /\ Rank(s, b, i) \in Nat /\ Rank(t, b, k) \in Nat
      /\ Rank(s, b, i + 1) \in Nat /\ Rank(t, b, i) \in Nat
  BY <1>4, <1>5, RankIsNat
<1>10. Holds(i)
  BY <1>6, <1>7, <1>8, <1>9
<1> QED
  BY <1>10

\* The n words of s after the first p are in bank c.
RunIn(s, p, n, c) == \A j \in 1..n : s[p + j][1] = c

RunCounts(s, p, n, c, b) ==
    \A i \in 0..n :
        Rank(s, b, p + i) = Rank(s, b, p) + (IF b = c THEN i ELSE 0)

\* A run of words of one bank counts in full for it and not for another.
LEMMA RankOfRun ==
    ASSUME NEW s, NEW b, NEW c, NEW p \in Nat, NEW n \in Nat,
           RunIn(s, p, n, c)
    PROVE  RunCounts(s, p, n, c, b)
<1> USE DEF RunCounts
<1> DEFINE Holds(i) ==
               Rank(s, b, p + i) = Rank(s, b, p) + (IF b = c THEN i ELSE 0)
           Bad == {i \in 0..n : ~Holds(i)}
<1>1. Holds(0)
  BY RankIsNat
<1>2. SUFFICES ASSUME Bad # {} PROVE FALSE
  OBVIOUS
<1>3. PICK i \in Bad : \A k \in Bad : i <= k
  <2>1. Bad \in SUBSET Nat
    OBVIOUS
  <2> HIDE DEF Bad
  <2> QED
    BY <1>2, <2>1, LeastNumber
<1>4. i \in 1..n
  BY <1>1
<1>5. PICK k \in Nat : k = i - 1
  BY <1>4
<1>6. Holds(k)
  BY <1>3, <1>4, <1>5
<1>7. Rank(s, b, (p + k) + 1)
          = Rank(s, b, p + k) + (IF s[(p + k) + 1][1] = b THEN 1 ELSE 0)
  BY <1>5, RankStep
<1>8. (p + k) + 1 = p + i /\ s[p + i][1] = c
  BY <1>4, <1>5 DEF RunIn
<1>9. Rank(s, b, p) \in Nat /\ Rank(s, b, p + k) \in Nat
  BY <1>5, RankIsNat
<1>10. Holds(i)
  BY <1>4, <1>5, <1>6, <1>7, <1>8, <1>9
<1> QED
  BY <1>10

----------------------------------------------------------------------------
(* The words of a bank on their way *)

\* The line of a bank, l words, is what p words that are owed take from it.
Lined(s, p, line, l, b) ==
    /\ p \in Nat /\ l \in Nat /\ l = Rank(s, b, p)
    /\ \A i \in 1..p : s[i][1] = b => line[Rank(s, b, i)] = s[i]

\* The first word of the line is the first one that is owed from the bank ...
LEMMA LineHead ==
    ASSUME NEW s, NEW p, NEW line, NEW l, NEW b, Lined(s, p, line, l, b),
           p > 0, s[1][1] = b
    PROVE  l > 0 /\ line[1] = s[1]
<1>1. p \in Nat /\ 1 \in 1..p
  BY DEF Lined
<1>2. Rank(s, b, 0 + 1) = Rank(s, b, 0) + 1
  BY RankStep
<1>3. Rank(s, b, 1) = 1
  BY <1>2, RankOfNone
<1>4. Rank(s, b, 1) \in 1..Rank(s, b, p)
  BY <1>1, RankWithin
<1>5. l > 0
  BY <1>3, <1>4, RankIsNat, <1>1 DEF Lined
<1> QED
  BY <1>1, <1>3, <1>5 DEF Lined

\* ... and what is left after it is what is left to be owed.
LEMMA LineRest ==
    ASSUME NEW s, NEW n \in Nat, NEW line, NEW l, NEW b,
           Lined(s, n + 1, line, l, b), NEW t, WithoutFirst(s, t, n),
           NEW rest, NEW k \in Nat,
           s[1][1] = b => k = l - 1 /\ WithoutFirst(line, rest, k),
           s[1][1] # b => k = l /\ (\A j \in 1..k : rest[j] = line[j])
    PROVE  Lined(t, n, rest, k, b)
<1> DEFINE first == IF s[1][1] = b THEN 1 ELSE 0
<1>1. \A i \in 0..n : Rank(s, b, i + 1) = Rank(t, b, i) + first
  BY ONLY n \in Nat, WithoutFirst(s, t, n), RankOfRest
<1>2. k = Rank(t, b, n)
  <2>1. l = Rank(t, b, n) + first /\ l \in Nat
    BY <1>1 DEF Lined
  <2>2. Rank(t, b, n) \in Nat
    BY RankIsNat
  <2> QED
    BY <2>1, <2>2
<1>3. ASSUME NEW i \in 1..n, t[i][1] = b
      PROVE  rest[Rank(t, b, i)] = t[i]
  <2>1. t[i] = s[i + 1] /\ i + 1 \in 1..n+1
    BY DEF WithoutFirst
  <2>2. PICK r \in 1..k : r = Rank(t, b, i)
    BY <1>2, <1>3, RankWithin
  <2>3. Rank(s, b, i + 1) = r + first
    BY <1>1, <2>2
  <2>4. line[r + first] = t[i]
    BY <1>3, <2>1, <2>3 DEF Lined
  <2>5. rest[r] = line[r + first]
    <3>1. CASE s[1][1] = b
      BY <3>1 DEF WithoutFirst
    <3>2. CASE s[1][1] # b
      BY <3>2
    <3> QED
      BY <3>1, <3>2
  <2> QED
    BY <2>2, <2>4, <2>5
<1> QED
  BY <1>2, <1>3 DEF Lined

\* t has n words of bank c more than s, and more those of them that are in b
\* more than line.
Grows(s, p, line, l, b, n, c, t, more, k) ==
    /\ n \in Nat
    /\ \A j \in 1..p : t[j] = s[j]
    /\ \A j \in 1..n : t[p + j][1] = c
    /\ \A j \in 1..l : more[j] = line[j]
    /\ b = c => \A j \in 1..n : more[l + j] = t[p + j]
    /\ k = l + (IF b = c THEN n ELSE 0)

\* A burst of n words of bank c makes the line of c longer and no other.
LEMMA LineMore ==
    ASSUME NEW s, NEW p, NEW line, NEW l, NEW b, Lined(s, p, line, l, b),
           NEW n, NEW c, NEW t, NEW more, NEW k,
           Grows(s, p, line, l, b, n, c, t, more, k)
    PROVE  Lined(t, p + n, more, k, b)
<1> USE DEF Grows
<1>1. p \in Nat /\ l \in Nat /\ l = Rank(s, b, p)
  BY DEF Lined
<1>2. \A i \in 0..n :
          Rank(t, b, p + i) = Rank(t, b, p) + (IF b = c THEN i ELSE 0)
  <2>1. RunIn(t, p, n, c)
    BY DEF RunIn
  <2>2. p \in Nat
    BY <1>1
  <2>3. RunCounts(t, p, n, c, b)
    BY ONLY <2>2, n \in Nat, <2>1, RankOfRun
  <2> QED
    BY <2>3 DEF RunCounts
<1>3. \A i \in 1..p : Rank(t, b, i) = Rank(s, b, i)
  BY <1>1, RankOfSame
<1>4. Rank(t, b, p) = l
  BY <1>1, RankOfSame
<1>5. k = Rank(t, b, p + n) /\ k \in Nat
  BY <1>1, <1>2, <1>4
<1>6. ASSUME NEW i \in 1..p+n, t[i][1] = b
      PROVE  more[Rank(t, b, i)] = t[i]
  <2>1. CASE i \in 1..p
    <3>1. t[i] = s[i] /\ s[i][1] = b
      BY <1>6, <2>1
    <3>2. PICK r \in 1..l : r = Rank(s, b, i)
      BY <1>1, <2>1, <3>1, RankWithin
    <3>3. line[r] = s[i]
      BY <2>1, <3>1, <3>2 DEF Lined
    <3> QED
      BY <1>3, <2>1, <3>1, <3>2, <3>3
  <2>2. CASE i \notin 1..p
    <3>1. PICK j \in 1..n : i = p + j
      <4>1. i - p \in 1..n /\ i = p + (i - p)
        BY <1>1, <2>2
      <4> QED
        BY <4>1
    <3>2. b = c
      BY <1>6, <3>1
    <3>3. Rank(t, b, i) = l + j
      BY <1>2, <1>4, <3>1, <3>2
    <3> QED
      BY <3>1, <3>2, <3>3
  <2> QED
    BY <2>1, <2>2
<1> QED
  BY <1>1, <1>5, <1>6 DEF Lined

----------------------------------------------------------------------------
(* The turns of the banks *)

\* The words of s after place lo and up to place hi are in the bank whose turn
\* it is.
InTurn(turn, s, lo, hi) ==
    \E b \in Banks : /\ turn.banks = {b}
                     /\ \A i \in Nat \ {0} : lo < i /\ i <= hi => s[i][1] = b

\* n turns share out the p words that are owed: turn k has the words after
\* off[k], and c - 1 words of the first turn have come back.
Shared(turns, n, s, p, c, off) ==
    /\ n \in Nat /\ p \in Nat /\ c \in Nat \ {0}
    /\ \A k \in 1..n+1 : off[k] \in Int
    /\ off[1] = 1 - c /\ off[n + 1] = p
    /\ n = 0 => c = 1
    /\ n > 0 => c <= turns[1].burst
    /\ \A k \in 1..n : turns[k].burst \in 1..MaxBurst
    /\ \A k \in 1..n : off[k + 1] = off[k] + turns[k].burst
    /\ \A j, k \in 1..n+1 : j <= k => off[j] <= off[k]
    /\ \A k \in 1..n : InTurn(turns[k], s, off[k], off[k + 1])

\* While a bank has its turn the first word that is owed is one of its own.
LEMMA TurnHead ==
    ASSUME NEW turns, NEW n, NEW s, NEW p, NEW c, NEW off,
           Shared(turns, n, s, p, c, off), n > 0
    PROVE  p > 0 /\ \E b \in Banks : turns[1].banks = {b} /\ s[1][1] = b
<1>1. /\ n \in Nat /\ p \in Nat /\ c \in Nat \ {0} /\ off[1] = 1 - c
      /\ off[n + 1] = p /\ c <= turns[1].burst
  BY DEF Shared
<1>2. 1 \in 1..n /\ 1 + 1 \in 1..n+1 /\ n + 1 \in 1..n+1 /\ 1 + 1 <= n + 1
  BY <1>1
<1>3. turns[1].burst \in Nat
  BY <1>2 DEF Shared
<1>4. off[1 + 1] = off[1] + turns[1].burst /\ off[1 + 1] <= off[n + 1]
  BY <1>2 DEF Shared
<1>5. off[1] < 1 /\ 1 <= off[1 + 1] /\ p > 0
  BY <1>1, <1>3, <1>4
<1>6. InTurn(turns[1], s, off[1], off[1 + 1])
  BY <1>2 DEF Shared
<1>7. PICK b \in Banks : /\ turns[1].banks = {b}
                         /\ \A i \in Nat \ {0} :
                               off[1] < i /\ i <= off[1 + 1] => s[i][1] = b
  BY <1>6 DEF InTurn
<1> QED
  BY <1>5, <1>7

\* A word that has come back moves the words of every turn one place down.
LEMMA TurnShift ==
    ASSUME NEW turn, NEW s, NEW t, NEW lo \in Int, NEW hi \in Int,
           NEW p \in Nat, WithoutFirst(s, t, p), hi <= p + 1,
           InTurn(turn, s, lo, hi)
    PROVE  InTurn(turn, t, lo - 1, hi - 1)
<1>1. PICK b \in Banks :
          /\ turn.banks = {b}
          /\ \A i \in Nat \ {0} : lo < i /\ i <= hi => s[i][1] = b
  BY DEF InTurn
<1>2. ASSUME NEW i \in Nat \ {0}, lo - 1 < i, i <= hi - 1
      PROVE  t[i][1] = b
  <2>1. i \in 1..p /\ i + 1 \in Nat \ {0} /\ lo < i + 1 /\ i + 1 <= hi
    BY <1>2
  <2>2. t[i] = s[i + 1] /\ s[i + 1][1] = b
    BY <1>1, <2>1 DEF WithoutFirst
  <2> QED
    BY <2>2
<1> QED
  BY <1>1, <1>2 DEF InTurn

\* Words that come later change nothing for a turn.
LEMMA TurnStays ==
    ASSUME NEW turn, NEW s, NEW t, NEW lo \in Int, NEW hi \in Int,
           \A i \in 1..hi : t[i] = s[i], InTurn(turn, s, lo, hi)
    PROVE  InTurn(turn, t, lo, hi)
<1>1. PICK b \in Banks :
          /\ turn.banks = {b}
          /\ \A i \in Nat \ {0} : lo < i /\ i <= hi => s[i][1] = b
  BY DEF InTurn
<1>2. ASSUME NEW i \in Nat \ {0}, lo < i, i <= hi
      PROVE  t[i][1] = b
  <2>1. i \in 1..hi
    BY <1>2
  <2> QED
    BY <1>1, <1>2, <2>1
<1> QED
  BY <1>1, <1>2 DEF InTurn

\* A word comes back that is not the last of its turn ...
LEMMA TurnWord ==
    ASSUME NEW turns, NEW n, NEW s, NEW p, NEW c, NEW off,
           Shared(turns, n, s, p, c, off), n > 0, c # turns[1].burst,
           NEW t, NEW q \in Nat, q = p - 1, WithoutFirst(s, t, q)
    PROVE  \E new : Shared(turns, n, t, q, c + 1, new)
<1>1. /\ n \in Nat /\ p \in Nat /\ c \in Nat \ {0} /\ off[1] = 1 - c
      /\ off[n + 1] = p /\ c <= turns[1].burst
  BY DEF Shared
<1>2. \A k \in 1..n+1 : off[k] \in Int
  BY DEF Shared
<1>3. PICK new : new = [k \in 1..n+1 |-> off[k] - 1]
  OBVIOUS
<1>4. \A k \in 1..n+1 : new[k] = off[k] - 1 /\ new[k] \in Int
  BY <1>2, <1>3
<1>5. new[1] = 1 - (c + 1) /\ new[n + 1] = q /\ c + 1 \in Nat \ {0}
  <2>1. 1 \in 1..n+1 /\ n + 1 \in 1..n+1
    BY <1>1
  <2> QED
    BY <1>1, <1>4, <2>1
<1>6. c + 1 <= turns[1].burst /\ ~(n = 0)
  <2>1. 1 \in 1..n
    BY <1>1
  <2>2. turns[1].burst \in Nat
    BY <2>1 DEF Shared
  <2> QED
    BY <1>1, <2>2
<1>7. \A k \in 1..n : turns[k].burst \in 1..MaxBurst
  BY DEF Shared
<1>8. ASSUME NEW k \in 1..n
      PROVE  /\ new[k + 1] = new[k] + turns[k].burst
             /\ InTurn(turns[k], t, new[k], new[k + 1])
  <2>1. k \in 1..n+1 /\ k + 1 \in 1..n+1 /\ n + 1 \in 1..n+1 /\ k + 1 <= n + 1
    BY <1>1
  <2>2. /\ new[k] = off[k] - 1 /\ new[k + 1] = off[k + 1] - 1
        /\ off[k] \in Int /\ off[k + 1] \in Int
    BY <1>2, <1>4, <2>1
  <2>3. off[k + 1] = off[k] + turns[k].burst /\ turns[k].burst \in 1..MaxBurst
    BY DEF Shared
  <2>4. off[k + 1] <= q + 1
    <3>1. off[k + 1] <= off[n + 1]
      BY <2>1 DEF Shared
    <3> QED
      BY <1>1, <3>1
  <2>5. InTurn(turns[k], s, off[k], off[k + 1])
    BY DEF Shared
  <2>6. InTurn(turns[k], t, off[k] - 1, off[k + 1] - 1)
    BY <2>2, <2>4, <2>5, TurnShift
  <2> QED
    BY <2>2, <2>3, <2>6
<1>9. ASSUME NEW j \in 1..n+1, NEW k \in 1..n+1, j <= k
      PROVE  new[j] <= new[k]
  <2>1. off[j] <= off[k]
    BY <1>9 DEF Shared
  <2> QED
    BY <1>2, <1>4, <2>1
<1> QED
  BY <1>1, <1>4, <1>5, <1>6, <1>7, <1>8, <1>9 DEF Shared

\* ... or the last: the next bank has its turn.
LEMMA TurnLast ==
    ASSUME NEW turns, NEW n, NEW s, NEW p, NEW c, NEW off,
           Shared(turns, n, s, p, c, off), n > 0, c = turns[1].burst,
           NEW t, NEW q \in Nat, q = p - 1, WithoutFirst(s, t, q),
           NEW rest, NEW m \in Nat, m = n - 1, WithoutFirst(turns, rest, m)
    PROVE  \E new : Shared(rest, m, t, q, 1, new)
<1>1. /\ n \in Nat /\ p \in Nat /\ c \in Nat \ {0} /\ off[1] = 1 - c
      /\ off[n + 1] = p /\ n = m + 1
  BY DEF Shared
<1>2. \A k \in 1..n+1 : off[k] \in Int
  BY DEF Shared
<1>3. PICK new : new = [k \in 1..n |-> off[k + 1] - 1]
  OBVIOUS
<1>4. \A k \in 1..m+1 : /\ k + 1 \in 1..n+1
                        /\ new[k] = off[k + 1] - 1 /\ new[k] \in Int
  BY <1>1, <1>2, <1>3, SMTT(30)
<1>5. off[2] = 1
  <2>1. 1 \in 1..n
    BY <1>1
  <2>2. off[1 + 1] = off[1] + turns[1].burst
    BY <2>1 DEF Shared
  <2> QED
    BY <1>1, <2>2
<1>6. new[1] = 1 - 1 /\ new[m + 1] = q
  <2>1. 1 \in 1..m+1 /\ m + 1 \in 1..m+1
    BY <1>1
  <2>2. new[1] = off[1 + 1] - 1 /\ new[m + 1] = off[(m + 1) + 1] - 1
    BY <1>4, <2>1
  <2> QED
    BY <1>1, <1>5, <2>2
<1>7. \A k \in 1..m : rest[k] = turns[k + 1] /\ k + 1 \in 1..n
  BY <1>1 DEF WithoutFirst
<1>8. \A k \in 1..m : rest[k].burst \in 1..MaxBurst
  BY <1>7 DEF Shared
<1>9. m > 0 => 1 <= rest[1].burst
  <2>1. SUFFICES ASSUME m > 0 PROVE 1 <= rest[1].burst
    OBVIOUS
  <2>2. 1 \in 1..m
    BY <2>1
  <2> QED
    BY <1>8, <2>2
<1>10. ASSUME NEW k \in 1..m
       PROVE  /\ new[k + 1] = new[k] + rest[k].burst
              /\ InTurn(rest[k], t, new[k], new[k + 1])
  <2>1. /\ k \in 1..m+1 /\ k + 1 \in 1..m+1 /\ k + 1 \in 1..n
        /\ (k + 1) + 1 \in 1..n+1 /\ k + 1 \in 1..n+1
        /\ n + 1 \in 1..n+1 /\ (k + 1) + 1 <= n + 1
    BY <1>1
  <2>2. /\ new[k] = off[k + 1] - 1 /\ new[k + 1] = off[(k + 1) + 1] - 1
        /\ off[k + 1] \in Int /\ off[(k + 1) + 1] \in Int
    BY <1>2, <1>4, <2>1
  <2>3. /\ off[(k + 1) + 1] = off[k + 1] + turns[k + 1].burst
        /\ turns[k + 1].burst \in 1..MaxBurst
    BY <2>1 DEF Shared
  <2>4. off[(k + 1) + 1] <= q + 1
    <3>1. off[(k + 1) + 1] <= off[n + 1]
      BY <2>1 DEF Shared
    <3> QED
      BY <1>1, <3>1
  <2>5. InTurn(turns[k + 1], s, off[k + 1], off[(k + 1) + 1])
    BY <2>1 DEF Shared
  <2>6. InTurn(turns[k + 1], t, off[k + 1] - 1, off[(k + 1) + 1] - 1)
    BY <2>2, <2>4, <2>5, TurnShift
  <2> QED
    BY <1>7, <2>2, <2>3, <2>6
<1>11. ASSUME NEW j \in 1..m+1, NEW k \in 1..m+1, j <= k
       PROVE  new[j] <= new[k]
  <2>1. off[j + 1] <= off[k + 1]
    <3>1. j + 1 \in 1..n+1 /\ k + 1 \in 1..n+1 /\ j + 1 <= k + 1
      BY <1>4, <1>11
    <3> QED
      BY <3>1 DEF Shared
  <2>2. off[j + 1] \in Int /\ off[k + 1] \in Int
    BY <1>2, <1>4
  <2> QED
    BY <1>4, <2>1, <2>2
<1> QED
  BY <1>4, <1>6, <1>8, <1>9, <1>10, <1>11 DEF Shared

\* An accepted read gives its bank one more turn, after all others.
LEMMA TurnMore ==
    ASSUME NEW turns, NEW n, NEW s, NEW p, NEW c, NEW off,
           Shared(turns, n, s, p, c, off), NEW turn, NEW b \in Banks,
           turn.burst \in 1..MaxBurst, turn.banks = {b}, NEW t,
           \A i \in 1..p : t[i] = s[i], RunIn(t, p, turn.burst, b),
           NEW more, \A k \in 1..n : more[k] = turns[k], more[n + 1] = turn
    PROVE  \E new : Shared(more, n + 1, t, p + turn.burst, c, new)
<1>0. PICK d \in 1..MaxBurst : d = turn.burst
  OBVIOUS
<1>1. /\ n \in Nat /\ p \in Nat /\ c \in Nat \ {0} /\ off[1] = 1 - c
      /\ off[n + 1] = p
  BY DEF Shared
<1>2. \A k \in 1..n+1 : off[k] \in Int
  BY DEF Shared
<1>3. PICK new :
          new = [k \in 1..(n+1)+1 |-> IF k <= n + 1 THEN off[k] ELSE p + d]
  OBVIOUS
<1>4. /\ \A k \in 1..n+1 : new[k] = off[k]
      /\ new[(n + 1) + 1] = p + d
      /\ \A k \in 1..(n+1)+1 : new[k] \in Int
      /\ \A k \in 1..(n+1)+1 : k \in 1..n+1 \/ k = (n + 1) + 1
  BY <1>0, <1>1, <1>2, <1>3, SMTT(30)
<1>5. new[1] = 1 - c /\ n + 1 \in Nat /\ p + d \in Nat
  <2>1. 1 \in 1..n+1
    BY <1>1
  <2> QED
    BY <1>0, <1>1, <1>4, <2>1
<1>6. c <= more[1].burst
  <2>1. CASE n = 0
    <3>1. c = 1 /\ more[1] = turn
      BY <2>1 DEF Shared
    <3> QED
      BY <3>1
  <2>2. CASE n > 0
    <3>1. 1 \in 1..n /\ c <= turns[1].burst
      BY <1>1, <2>2 DEF Shared
    <3> QED
      BY <3>1
  <2> QED
    BY <1>1, <2>1, <2>2
<1>7. ASSUME NEW k \in 1..n+1
      PROVE  /\ more[k].burst \in 1..MaxBurst
             /\ new[k + 1] = new[k] + more[k].burst
             /\ InTurn(more[k], t, new[k], new[k + 1])
  <2>1. CASE k = n + 1
    <3>1. new[k] = p /\ new[k + 1] = p + d /\ more[k] = turn
      BY <1>1, <1>4, <2>1
    <3>2. ASSUME NEW i \in Nat \ {0}, p < i, i <= p + d
          PROVE  t[i][1] = b
      <4>1. PICK j \in 1..d : i = p + j
        <5>1. i - p \in 1..d /\ i = p + (i - p)
          BY <1>0, <1>1, <3>2
        <5> QED
          BY <5>1
      <4> QED
        BY <1>0, <4>1 DEF RunIn
    <3> QED
      BY <1>0, <3>1, <3>2 DEF InTurn
  <2>2. CASE k # n + 1
    <3>1. k \in 1..n /\ k + 1 \in 1..n+1
      BY <1>1, <2>2
    <3>2. /\ more[k] = turns[k] /\ new[k] = off[k] /\ new[k + 1] = off[k + 1]
          /\ off[k] \in Int /\ off[k + 1] \in Int
      BY <1>2, <1>4, <3>1
    <3>3. /\ turns[k].burst \in 1..MaxBurst
          /\ off[k + 1] = off[k] + turns[k].burst
          /\ InTurn(turns[k], s, off[k], off[k + 1])
      BY <3>1 DEF Shared
    <3>4. off[k + 1] <= p
      <4>1. n + 1 \in 1..n+1 /\ k + 1 <= n + 1
        BY <1>1, <3>1
      <4>2. off[k + 1] <= off[n + 1]
        BY <3>1, <4>1 DEF Shared
      <4> QED
        BY <1>1, <4>2
    <3>5. \A i \in 1..off[k + 1] : t[i] = s[i]
      BY <1>1, <3>2, <3>4
    <3>6. InTurn(turns[k], t, off[k], off[k + 1])
      BY <3>2, <3>3, <3>5, TurnStays
    <3> QED
      BY <3>2, <3>3, <3>6
  <2> QED
    BY <2>1, <2>2
<1>8. ASSUME NEW j \in 1..(n+1)+1, NEW k \in 1..(n+1)+1, j <= k
      PROVE  new[j] <= new[k]
  <2>1. CASE k \in 1..n+1
    <3>1. j \in 1..n+1
      BY <1>1, <1>8, <2>1
    <3>2. off[j] <= off[k]
      BY <1>8, <2>1, <3>1 DEF Shared
    <3> QED
      BY <1>4, <2>1, <3>1, <3>2
  <2>2. CASE k = (n + 1) + 1 /\ j \in 1..n+1
    <3>1. n + 1 \in 1..n+1 /\ j <= n + 1
      BY <1>1, <2>2
    <3>2. off[j] <= off[n + 1]
      BY <2>2, <3>1 DEF Shared
    <3>3. new[j] = off[j] /\ off[j] \in Int
      BY <1>2, <1>4, <2>2
    <3>4. new[j] <= p
      BY <1>1, <3>2, <3>3
    <3> QED
      BY <1>0, <1>1, <1>4, <2>2, <3>3, <3>4
  <2>3. CASE k = (n + 1) + 1 /\ j = (n + 1) + 1
    BY <1>0, <1>1, <1>4, <2>3
  <2> QED
    BY <1>4, <2>1, <2>2, <2>3
<1>9. Shared(more, n + 1, t, p + d, c, new)
  <2>1. n + 1 # 0
    BY <1>1
  <2> QED
    BY <1>1, <1>4, <1>5, <1>6, <1>7, <1>8, <2>1 DEF Shared
<1> QED
  BY <1>0, <1>9

----------------------------------------------------------------------------
(* The words of a clock *)

\* The bank of the request, and the words that an accepted read asks for.
BankOf == Place[mode][req.address][1]
Took(ready) == Reading /\ Accepted(ready)
Asking(ready) ==
    IF Took(ready)
    THEN [i \in 1..req.burst |-> Place[mode][req.address + i - 1]]
    ELSE <<>>

\* A request is for words of one bank.
LEMMA BurstOfRequest ==
    ASSUME RouterInv, Reading
    PROVE  /\ req \in Requests /\ req.burst \in 1..MaxBurst
           /\ req.address \in Addresses /\ BankOf \in Banks
           /\ \A i \in 1..req.burst :
                 /\ Place[mode][req.address + i - 1] \in Words
                 /\ Place[mode][req.address + i - 1]
                        = <<BankOf, Place[mode][req.address][2] + i - 1>>
<1>1. req \in Requests /\ mode \in BOOLEAN
  BY DEF RouterInv, Reading
<1>2. /\ req.burst \in 1..MaxBurst /\ req.address \in Addresses
      /\ (req.address % MaxBurst) + req.burst <= MaxBurst
  BY <1>1, RequestsAssumption
<1>3. BankOf \in Banks
  BY <1>1, <1>2, PlaceInBank DEF BankOf
<1>4. ASSUME NEW i \in 1..req.burst
      PROVE  /\ Place[mode][req.address + i - 1] \in Words
             /\ Place[mode][req.address + i - 1]
                    = <<BankOf, Place[mode][req.address][2] + i - 1>>
  <2>1. req.address \in Nat /\ req.burst \in Nat /\ MaxBurst \in Nat \ {0}
    BY <1>2, SizesAssumption DEF Addresses
  <2>2. req.address % MaxBurst \in Nat
    BY <2>1, InNat
  <2>3. PICK d \in Nat : d = i - 1
    OBVIOUS
  <2>4. (req.address % MaxBurst) + d < MaxBurst
    <3>1. PICK x \in Nat : x = req.address % MaxBurst
      BY <2>2
    <3>2. x + req.burst <= MaxBurst
      BY <1>2, <3>1
    <3>3. x + d < MaxBurst
      BY <2>1, <2>3, <3>2
    <3> QED
      BY <3>1, <3>3
  <2>5. req.address + i - 1 = req.address + d
    BY <2>1, <2>3
  <2>6. /\ req.address + d \in Addresses
        /\ Place[mode][req.address + d]
               = <<Place[mode][req.address][1],
                   Place[mode][req.address][2] + d>>
    BY <1>1, <1>2, <2>4, PlaceOfBurst
  <2>7. Place[mode][req.address + d] \in Words
    BY <1>1, <2>6, PlaceIsWord
  <2>8. Place[mode][req.address][2] + i - 1 = Place[mode][req.address][2] + d
    <3>1. Place[mode][req.address][2] \in Int
      BY <1>1, PlaceIsInt
    <3> QED
      BY <2>3, <3>1
  <2> QED
    BY <2>5, <2>6, <2>7, <2>8 DEF BankOf
<1> QED
  BY <1>1, <1>2, <1>3, <1>4

LEMMA AskedWords ==
    ASSUME RouterInv, NEW ready
    PROVE  /\ Asking(ready) \in Seq(Words)
           /\ Len(Asking(ready)) = IF Took(ready) THEN req.burst ELSE 0
           /\ Len(Asking(ready)) \in Nat
           /\ \A i \in 1..Len(Asking(ready)) : Asking(ready)[i][1] = BankOf
<1>1. CASE Took(ready)
  <2>1. Reading
    BY <1>1 DEF Took
  <2>2. PICK d \in Nat : d = req.burst
    BY <2>1, BurstOfRequest
  <2>3. \A i \in 1..d : /\ Place[mode][req.address + i - 1] \in Words
                        /\ Place[mode][req.address + i - 1][1] = BankOf
    BY <2>1, <2>2, BurstOfRequest
  <2>4. Asking(ready) = [i \in 1..d |-> Place[mode][req.address + i - 1]]
    BY <1>1, <2>2 DEF Asking
  <2> QED
    BY <1>1, <2>2, <2>3, <2>4
<1>2. CASE ~Took(ready)
  <2>1. Asking(ready) = <<>>
    BY <1>2 DEF Asking
  <2> QED
    BY <1>2, <2>1
<1> QED
  BY <1>1, <1>2

\* One clock of a bank and its data FIFO: a word may leave the FIFO, one may
\* move into it, and new words may be asked for.
Kept(s, x) == IF x THEN Tail(s) ELSE s
First(s, x) == IF x THEN <<Head(s)>> ELSE <<>>
Chain(s, t) == s \o t
Count(x) == IF x THEN 1 ELSE 0

\* z, long lz, is s from its word u + 1 on; z is s and then t.
From(s, u, z, lz) == \A i \in 1..lz : z[i] = s[i + u]
Then(s, ls, t, lt, z) ==
    /\ \A i \in 1..ls : z[i] = s[i]
    /\ \A i \in 1..lt : z[ls + i] = t[i]

LEMMA KeptIs ==
    ASSUME NEW S, NEW s \in Seq(S), NEW x \in BOOLEAN, x => s # <<>>
    PROVE  /\ Kept(s, x) \in Seq(S)
           /\ Len(Kept(s, x)) = Len(s) - Count(x)
           /\ Len(s) - Count(x) \in Nat
           /\ From(s, Count(x), Kept(s, x), Len(s) - Count(x))
<1>1. CASE x
  <2>1. /\ Tail(s) \in Seq(S) /\ Len(Tail(s)) = Len(s) - 1
        /\ Len(s) - 1 \in Nat
        /\ \A i \in 1..Len(s)-1 : Tail(s)[i] = s[i + 1]
    BY <1>1, HeadTailProperties
  <2> QED
    BY <1>1, <2>1 DEF Kept, Count, From
<1>2. CASE ~x
  BY <1>2 DEF Kept, Count, From
<1> QED
  BY <1>1, <1>2

LEMMA FirstIs ==
    ASSUME NEW S, NEW s \in Seq(S), NEW x \in BOOLEAN, x => s # <<>>
    PROVE  /\ First(s, x) \in Seq(S)
           /\ Len(First(s, x)) = Count(x)
           /\ x => First(s, x)[1] = s[1]
<1>1. CASE x
  BY <1>1, HeadTailProperties DEF First, Count
<1>2. CASE ~x
  BY <1>2 DEF First, Count
<1> QED
  BY <1>1, <1>2

LEMMA ChainIs ==
    ASSUME NEW S, NEW s \in Seq(S), NEW t \in Seq(S)
    PROVE  /\ Chain(s, t) \in Seq(S)
           /\ Len(Chain(s, t)) = Len(s) + Len(t)
           /\ Then(s, Len(s), t, Len(t), Chain(s, t))
BY ConcatProperties DEF Chain, Then

\* The pieces of a line, its FIFO and then its bank, before and after a clock.
Pieces(s, t, new, kept, first, left, s2, t2, old, line, ls, lt, ln, u, v) ==
    /\ ls \in Nat /\ lt \in Nat /\ ln \in Nat
    /\ u \in 0..1 /\ v \in 0..1 /\ u <= ls /\ v <= lt
    /\ From(s, u, kept, ls - u) /\ From(t, v, left, lt - v)
    /\ v = 1 => first[1] = t[1]
    /\ Then(kept, ls - u, first, v, s2) /\ Then(left, lt - v, new, ln, t2)
    /\ Then(s, ls, t, lt, old) /\ Then(s2, ls - u + v, t2, lt - v + ln, line)

LEMMA ChainMoves ==
    ASSUME NEW s, NEW t, NEW new, NEW kept, NEW first, NEW left,
           NEW s2, NEW t2, NEW old, NEW line,
           NEW ls, NEW lt, NEW ln, NEW u, NEW v,
           Pieces(s, t, new, kept, first, left, s2, t2, old, line,
                  ls, lt, ln, u, v)
    PROVE  /\ From(old, u, line, ls + lt - u)
           /\ \A i \in 1..ln : line[ls + lt - u + i] = new[i]
<1> USE DEF Pieces
<1>1. PICK a \in Nat, b \in Nat, k \in Nat, r \in Nat :
          a = ls - u + v /\ b = lt - v + ln /\ k = ls + lt - u /\ r = lt - v
  OBVIOUS
<1>2. ASSUME NEW i \in 1..k PROVE line[i] = old[i + u]
  <2>1. CASE i <= ls - u
    <3>1. i \in 1..ls-u /\ i \in 1..a /\ i + u \in 1..ls
      BY <1>1, <2>1
    <3>2. line[i] = s2[i] /\ s2[i] = kept[i] /\ kept[i] = s[i + u]
      BY <1>1, <3>1 DEF From, Then
    <3>3. old[i + u] = s[i + u]
      BY <3>1 DEF Then
    <3> QED
      BY <3>2, <3>3
  <2>2. CASE i = (ls - u) + 1 /\ v = 1
    <3>1. i \in 1..a /\ i + u = ls + 1 /\ 1 \in 1..lt /\ 1 \in 1..v
      BY <1>1, <2>2
    <3>2. line[i] = s2[i] /\ s2[(ls - u) + 1] = first[1]
      BY <1>1, <3>1 DEF Then
    <3>3. old[ls + 1] = t[1]
      BY <3>1 DEF Then
    <3> QED
      BY <2>2, <3>1, <3>2, <3>3
  <2>3. CASE i > a
    <3>1. PICK j \in Nat : i = a + j /\ j \in 1..r /\ j \in 1..b
      <4>1. /\ i - a \in Nat /\ i = a + (i - a)
            /\ i - a \in 1..r /\ i - a \in 1..b
        BY <1>1, <2>3
      <4> QED
        BY <4>1
    <3>2. j + v \in 1..lt /\ i + u = ls + (j + v) /\ j \in 1..lt-v
      BY <1>1, <3>1
    <3>3. line[i] = t2[j]
      BY <1>1, <3>1 DEF Then
    <3>4. t2[j] = left[j] /\ left[j] = t[j + v]
      BY <3>2 DEF From, Then
    <3>5. old[ls + (j + v)] = t[j + v]
      BY <3>2 DEF Then
    <3> QED
      BY <3>2, <3>3, <3>4, <3>5
  <2>4. i <= ls - u \/ (i = (ls - u) + 1 /\ v = 1) \/ i > a
    BY <1>1
  <2> QED
    BY <2>1, <2>2, <2>3, <2>4
<1>3. ASSUME NEW i \in 1..ln PROVE line[k + i] = new[i]
  <2>1. PICK j \in Nat : j = r + i
    BY <1>1
  <2>2. j \in 1..b /\ k + i = a + j
    BY <1>1, <2>1
  <2>3. line[a + j] = t2[j]
    BY <1>1, <2>2 DEF Then
  <2>4. t2[r + i] = new[i]
    BY <1>1 DEF Then
  <2> QED
    BY <2>1, <2>2, <2>3, <2>4
<1>4. From(old, u, line, k)
  BY <1>2 DEF From
<1> QED
  BY <1>1, <1>3, <1>4

Flows(S, s, t, new, x, y, s2, t2, k) ==
    /\ s \in Seq(S) /\ t \in Seq(S) /\ new \in Seq(S)
    /\ x \in BOOLEAN /\ y \in BOOLEAN
    /\ x => s # <<>>
    /\ y => t # <<>>
    /\ s2 = Chain(Kept(s, x), First(t, y))
    /\ t2 = Chain(Kept(t, y), new)
    /\ k = Len(s) + Len(t) - Count(x)

LEMMA LineMoves ==
    ASSUME NEW S, NEW s, NEW t, NEW new, NEW x, NEW y, NEW s2, NEW t2, NEW k,
           Flows(S, s, t, new, x, y, s2, t2, k)
    PROVE  /\ s2 \in Seq(S) /\ t2 \in Seq(S) /\ k \in Nat
           /\ Len(s2) + Len(t2) = k + Len(new)
           /\ From(Chain(s, t), Count(x), Chain(s2, t2), k)
           /\ \A i \in 1..Len(new) : Chain(s2, t2)[k + i] = new[i]
<1>0. /\ s \in Seq(S) /\ t \in Seq(S) /\ new \in Seq(S)
      /\ x \in BOOLEAN /\ y \in BOOLEAN
      /\ x => s # <<>>
      /\ y => t # <<>>
      /\ s2 = Chain(Kept(s, x), First(t, y))
      /\ t2 = Chain(Kept(t, y), new)
      /\ k = Len(s) + Len(t) - Count(x)
  BY DEF Flows
<1>1. PICK ls \in Nat, lt \in Nat, ln \in Nat, u \in 0..1, v \in 0..1 :
          /\ ls = Len(s) /\ lt = Len(t) /\ ln = Len(new)
          /\ u = Count(x) /\ v = Count(y)
  BY <1>0 DEF Count
<1>2. /\ Kept(s, x) \in Seq(S) /\ Len(Kept(s, x)) = ls - u
      /\ ls - u \in Nat /\ From(s, u, Kept(s, x), ls - u)
  BY ONLY <1>0, <1>1, KeptIs
<1>3. /\ Kept(t, y) \in Seq(S) /\ Len(Kept(t, y)) = lt - v
      /\ lt - v \in Nat /\ From(t, v, Kept(t, y), lt - v)
  BY ONLY <1>0, <1>1, KeptIs
<1>4. /\ First(t, y) \in Seq(S) /\ Len(First(t, y)) = v
      /\ v = 1 => First(t, y)[1] = t[1]
  <2>1. /\ First(t, y) \in Seq(S) /\ Len(First(t, y)) = Count(y)
        /\ y => First(t, y)[1] = t[1]
    BY ONLY <1>0, FirstIs
  <2> QED
    BY <1>1, <2>1 DEF Count
<1>5. /\ s2 \in Seq(S) /\ Len(s2) = ls - u + v
      /\ Then(Kept(s, x), ls - u, First(t, y), v, s2)
  BY ONLY <1>0, <1>2, <1>4, ChainIs
<1>6. /\ t2 \in Seq(S) /\ Len(t2) = lt - v + ln
      /\ Then(Kept(t, y), lt - v, new, ln, t2)
  BY ONLY <1>0, <1>1, <1>3, ChainIs
<1>7. Then(s, ls, t, lt, Chain(s, t))
  BY ONLY <1>0, <1>1, ChainIs
<1>8. Then(s2, ls - u + v, t2, lt - v + ln, Chain(s2, t2))
  BY ONLY <1>5, <1>6, ChainIs
<1>9. u <= ls /\ v <= lt
  BY ONLY <1>2, <1>3, ls \in Nat, lt \in Nat, u \in 0..1, v \in 0..1
<1>10. /\ From(Chain(s, t), u, Chain(s2, t2), ls + lt - u)
       /\ \A i \in 1..ln : Chain(s2, t2)[ls + lt - u + i] = new[i]
  <2>1. Pieces(s, t, new, Kept(s, x), First(t, y), Kept(t, y), s2, t2,
               Chain(s, t), Chain(s2, t2), ls, lt, ln, u, v)
    BY ONLY <1>2, <1>3, <1>4, <1>5, <1>6, <1>7, <1>8, <1>9,
            ls \in Nat, lt \in Nat, ln \in Nat, u \in 0..1, v \in 0..1
       DEF Pieces
  <2> QED
    BY ONLY <2>1, ChainMoves
<1>11. k = ls + lt - u
  BY <1>0, <1>1
<1>12. /\ ls + lt - u \in Nat
       /\ Len(s2) + Len(t2) = ls + lt - u + ln
  BY ONLY <1>5, <1>6, <1>9, ls \in Nat, lt \in Nat, ln \in Nat,
          u \in 0..1, v \in 0..1
<1> QED
  BY ONLY <1>1, <1>5, <1>6, <1>10, <1>11, <1>12

----------------------------------------------------------------------------
(* The order of the words *)

Turn == [burst : 0..MaxBurst, banks : SUBSET Banks]

\* The line of a bank has what is owed from it.
LineOf(b) == Lined(owed, Len(owed), Chain(df[b], pend[b]),
                   Len(df[b]) + Len(pend[b]), b)

\* The turns in the bank-select FIFO share out what is owed.
TurnsShare(n) ==
    /\ LlHolds(bs, SelectDepth, n)
    /\ \E off : Shared(LlItems(bs, n), n, owed, Len(owed), counter, off)

\* The inductive invariant of the words.
FlowInv ==
    /\ owed \in Seq(Words)
    /\ df \in [Banks -> Seq(Words)] /\ pend \in [Banks -> Seq(Words)]
    /\ bs.wptr \in [0..SelectDepth -> BOOLEAN]
    /\ bs.data \in [0..SelectDepth-1 -> Turn]
    /\ out \in Words \cup {None}
    /\ \E n \in 0..SelectDepth : TurnsShare(n)
    /\ \A b \in Banks : LineOf(b)

LEMMA InitFlow == Init => FlowInv
<1> SUFFICES ASSUME Init PROVE FlowInv
  OBVIOUS
<1>1. owed = <<>> /\ owed \in Seq(Words) /\ Len(owed) = 0
  BY DEF Init
<1>2. \A b \in Banks : df[b] = <<>> /\ pend[b] = <<>>
  BY DEF Init
<1>3. df \in [Banks -> Seq(Words)] /\ pend \in [Banks -> Seq(Words)]
  BY EmptySeq DEF Init
<1>4. /\ bs.wptr = [k \in 0..SelectDepth |-> k = 0]
      /\ bs.data = [k \in 0..SelectDepth-1 |-> NoTurn]
  BY DEF Init, LlReset
<1>5. NoTurn \in Turn
  BY SizesAssumption DEF NoTurn, Turn
<1>6. bs.wptr \in [0..SelectDepth -> BOOLEAN]
      /\ bs.data \in [0..SelectDepth-1 -> Turn]
  BY <1>4, <1>5
<1>7. 0 \in 0..SelectDepth /\ TurnsShare(0)
  <2>1. 0 \in 0..SelectDepth /\ LlHolds(bs, SelectDepth, 0)
    <3>1. 0 \in 0..SelectDepth
      BY DepthIsNat
    <3>2. \A k \in 0..SelectDepth : bs.wptr[k] <=> k = 0
      BY <1>4
    <3> QED
      BY <3>1, <3>2 DEF LlHolds
  <2>2. PICK off : off = [k \in 1..1 |-> 0]
    OBVIOUS
  <2>3. Shared(LlItems(bs, 0), 0, owed, 0, 1, off)
    BY <2>2 DEF Shared
  <2>4. counter = 1
    BY DEF Init
  <2> QED
    BY <1>1, <2>1, <2>3, <2>4 DEF TurnsShare
<1>8. ASSUME NEW b \in Banks PROVE LineOf(b)
  <2>1. Len(df[b]) + Len(pend[b]) = 0
    <3>1. df[b] = <<>> /\ pend[b] = <<>>
      BY <1>2
    <3>2. Len(df[b]) = 0 /\ Len(pend[b]) = 0
      BY ONLY <3>1
    <3> QED
      BY ONLY <3>2
  <2>2. Lined(owed, 0, Chain(df[b], pend[b]), 0, b)
    BY RankOfNone DEF Lined
  <2> QED
    BY <1>1, <2>1, <2>2 DEF LineOf
<1> QED
  BY <1>1, <1>3, <1>6, <1>7, <1>8 DEF Init, FlowInv

\* The word that the router returns is the first one that is owed, and only
\* the data FIFO of its bank is read.
LEMMA FrontWord ==
    ASSUME FlowInv, NEW shown, BsRead(shown)
    PROVE  /\ owed # <<>> /\ Len(owed) > 0
           /\ owed[1][1] \in Banks
           /\ \A b \in Banks : DfRead(b, shown) <=> b = owed[1][1]
           /\ Head(df[owed[1][1]]) = owed[1]
<1>1. PICK b \in Banks : DfRead(b, shown)
  BY DEF BsRead
<1>2. PICK n \in 0..SelectDepth : TurnsShare(n)
  BY DEF FlowInv
<1>3. PICK off : Shared(LlItems(bs, n), n, owed, Len(owed), counter, off)
  BY <1>2 DEF TurnsShare
<1>4. n > 0
  <2>1. ~bs.wptr[0]
    BY <1>1 DEF DfRead, LlEmpty
  <2>2. bs.wptr[0] <=> 0 = n
    BY <1>2, DepthIsNat DEF TurnsShare, LlHolds
  <2> QED
    BY <2>1, <2>2
<1>5. LlItems(bs, n)[1] = LlOut(bs)
  BY <1>4 DEF LlItems, LlOut
<1>6. PICK c \in Banks : LlOut(bs).banks = {c} /\ owed[1][1] = c
  BY <1>3, <1>4, <1>5, TurnHead
<1>7. Len(owed) > 0
  BY <1>3, <1>4, TurnHead
<1>8. owed \in Seq(Words)
  BY DEF FlowInv
<1>9. owed # <<>>
  BY <1>7, <1>8
<1>10. \A a \in Banks : DfRead(a, shown) => a = c
  BY <1>6 DEF DfRead
<1>11. b = c
  BY <1>1, <1>10
<1>12. Head(df[c]) = owed[1]
  <2>1. df[c] \in Seq(Words) /\ pend[c] \in Seq(Words)
    BY DEF FlowInv
  <2>2. df[c] # <<>>
    BY <1>1, <1>11 DEF DfRead
  <2>3. Chain(df[c], pend[c])[1] = owed[1]
    <3>1. LineOf(c)
      BY DEF FlowInv
    <3>2. PICK p, l : p > 0 /\ Lined(owed, p, Chain(df[c], pend[c]), l, c)
      BY <1>7, <3>1 DEF LineOf
    <3>3. owed[1][1] = c
      BY <1>6
    <3> QED
      BY ONLY <3>2, <3>3, LineHead
  <2>4. Head(df[c]) = df[c][1] /\ 1 \in 1..Len(df[c])
    BY <2>1, <2>2
  <2>5. Then(df[c], Len(df[c]), pend[c], Len(pend[c]), Chain(df[c], pend[c]))
    BY <2>1, ChainIs
  <2>6. Chain(df[c], pend[c])[1] = df[c][1]
    BY <2>4, <2>5 DEF Then
  <2> QED
    BY <2>3, <2>4, <2>6
<1> QED
  BY <1>1, <1>6, <1>7, <1>9, <1>10, <1>11, <1>12

\* What the master waits for after a clock.
LEMMA OwedStep ==
    ASSUME RouterInv, FlowInv, NEW ready, NEW shown, Owe(ready, shown),
           NEW p, p = Len(owed) - Count(BsRead(shown))
    PROVE  /\ p \in Nat /\ owed' \in Seq(Words)
           /\ Len(owed') = p + Len(Asking(ready))
           /\ From(owed, Count(BsRead(shown)), Kept(owed, BsRead(shown)), p)
           /\ Then(Kept(owed, BsRead(shown)), p,
                   Asking(ready), Len(Asking(ready)), owed')
<1> DEFINE x == BsRead(shown)
<1>1. owed' = Chain(Kept(owed, x), Asking(ready))
  BY DEF Owe, Chain, Kept, Asking, Took
<1>2. owed \in Seq(Words) /\ x \in BOOLEAN /\ (x => owed # <<>>)
  BY FrontWord DEF FlowInv, BsRead
<1>3. Asking(ready) \in Seq(Words)
  BY AskedWords
<1> HIDE DEF x
<1>4. /\ Kept(owed, x) \in Seq(Words) /\ Len(Kept(owed, x)) = Len(owed) - Count(x)
      /\ Len(owed) - Count(x) \in Nat
      /\ From(owed, Count(x), Kept(owed, x), Len(owed) - Count(x))
  BY ONLY <1>2, KeptIs
<1>5. p = Len(owed) - Count(x)
  BY DEF x
<1>6. /\ Chain(Kept(owed, x), Asking(ready)) \in Seq(Words)
      /\ Len(Chain(Kept(owed, x), Asking(ready)))
             = Len(Kept(owed, x)) + Len(Asking(ready))
      /\ Then(Kept(owed, x), Len(Kept(owed, x)), Asking(ready),
              Len(Asking(ready)), Chain(Kept(owed, x), Asking(ready)))
  BY ONLY <1>3, <1>4, ChainIs
<1>7. /\ p \in Nat /\ owed' \in Seq(Words)
      /\ Len(owed') = p + Len(Asking(ready))
      /\ From(owed, Count(x), Kept(owed, x), p)
      /\ Then(Kept(owed, x), p, Asking(ready), Len(Asking(ready)), owed')
  BY ONLY <1>1, <1>4, <1>5, <1>6
<1> QED
  BY <1>7 DEF x

\* What a bank is asked for is what the master waits for from it.
ForBank(ready, b) ==
    IF Took(ready) /\ Selected(b)
    THEN [i \in 1..req.burst |-> <<b, Place[mode][req.address][2] + i - 1>>]
    ELSE <<>>

LEMMA ForBankIs ==
    ASSUME RouterInv, NEW ready, NEW b \in Banks
    PROVE  /\ ForBank(ready, b) \in Seq(Words)
           /\ Len(ForBank(ready, b))
                  = IF b = BankOf THEN Len(Asking(ready)) ELSE 0
           /\ b = BankOf => ForBank(ready, b) = Asking(ready)
<1>1. CASE Took(ready)
  <2>1. Reading /\ req # None
    BY <1>1 DEF Took, Reading
  <2>2. Selected(b) <=> b = BankOf
    BY <2>1 DEF Selected, BankOf
  <2>3. CASE b = BankOf
    <3>1. /\ Asking(ready)
                 = [i \in 1..req.burst |-> Place[mode][req.address + i - 1]]
          /\ ForBank(ready, b)
                 = [i \in 1..req.burst |->
                       <<b, Place[mode][req.address][2] + i - 1>>]
      BY <1>1, <2>2, <2>3 DEF Asking, ForBank
    <3>2. \A i \in 1..req.burst :
             Place[mode][req.address + i - 1]
                 = <<b, Place[mode][req.address][2] + i - 1>>
      BY <2>1, <2>3, BurstOfRequest
    <3>3. ForBank(ready, b) = Asking(ready)
      BY ONLY <3>1, <3>2
    <3> QED
      BY <2>3, <3>3, AskedWords
  <2>4. CASE b # BankOf
    <3>1. ForBank(ready, b) = <<>>
      BY <2>2, <2>4 DEF ForBank
    <3> QED
      BY <2>4, <3>1
  <2> QED
    BY <2>3, <2>4
<1>2. CASE ~Took(ready)
  <2>1. ForBank(ready, b) = <<>> /\ Asking(ready) = <<>>
    BY <1>2 DEF ForBank, Asking
  <2>2. ForBank(ready, b) \in Seq(Words) /\ Len(ForBank(ready, b)) = 0
        /\ Len(Asking(ready)) = 0
    BY ONLY <2>1
  <2> QED
    BY <2>1, <2>2
<1> QED
  BY <1>1, <1>2

\* How many words of the line are left when one is read.
LeftIn(b, shown) == Len(df[b]) + Len(pend[b]) - Count(DfRead(b, shown))

\* What a clock does to the line of bank b.
LineMoved(ready, shown, b) ==
    LET k == LeftIn(b, shown)
        more == Chain(df'[b], pend'[b])
    IN  /\ df'[b] \in Seq(Words) /\ pend'[b] \in Seq(Words) /\ k \in Nat
        /\ Len(df'[b]) + Len(pend'[b]) = k + Len(ForBank(ready, b))
        /\ From(Chain(df[b], pend[b]), Count(DfRead(b, shown)), more, k)
        /\ \A i \in 1..Len(ForBank(ready, b)) :
              more[k + i] = ForBank(ready, b)[i]

\* The line of a bank after a clock: the word that was read is gone, a word
\* that the bank returned stays in it, and the burst comes at its end.
LEMMA LineClock ==
    ASSUME RouterInv, FlowInv, NEW ready, NEW replies, NEW shown,
           Clock(ready, replies, shown), NEW b \in Banks
    PROVE  LineMoved(ready, shown, b)
<1> DEFINE k == LeftIn(b, shown)
           x == DfRead(b, shown)
           y == b \in replies
           new == ForBank(ready, b)
<1>0. /\ Answering(replies) /\ DataFifos(replies, shown)
      /\ BankWork(ready, replies)
  BY DEF Clock
<1>1. df[b] \in Seq(Words) /\ pend[b] \in Seq(Words)
  BY DEF FlowInv
<1>2. x \in BOOLEAN /\ y \in BOOLEAN
  BY DEF DfRead
<1>3. (x => df[b] # <<>>) /\ (y => pend[b] # <<>>)
  BY <1>0 DEF DfRead, Answering
<1>4. df'[b] = Chain(Kept(df[b], x), First(pend[b], y))
  BY <1>0 DEF DataFifos, Chain, Kept, First
<1>5. pend'[b] = Chain(Kept(pend[b], y), new)
  BY <1>0 DEF BankWork, Chain, Kept, ForBank, Took
<1>6. new \in Seq(Words)
  BY ForBankIs
<1> HIDE DEF k, x, y, new
<1>7. k = Len(df[b]) + Len(pend[b]) - Count(x)
  BY DEF k, x, LeftIn
<1>8. /\ df'[b] \in Seq(Words) /\ pend'[b] \in Seq(Words) /\ k \in Nat
      /\ Len(df'[b]) + Len(pend'[b]) = k + Len(new)
      /\ From(Chain(df[b], pend[b]), Count(x), Chain(df'[b], pend'[b]), k)
      /\ \A i \in 1..Len(new) : Chain(df'[b], pend'[b])[k + i] = new[i]
  <2>1. Flows(Words, df[b], pend[b], new, x, y, df'[b], pend'[b], k)
    BY ONLY <1>1, <1>2, <1>3, <1>4, <1>5, <1>6, <1>7 DEF Flows
  <2>2. PICK s, t, s2, t2 :
            s = df[b] /\ t = pend[b] /\ s2 = df'[b] /\ t2 = pend'[b]
    OBVIOUS
  <2>3. Flows(Words, s, t, new, x, y, s2, t2, k)
    BY ONLY <2>1, <2>2
  <2>4. /\ s2 \in Seq(Words) /\ t2 \in Seq(Words) /\ k \in Nat
        /\ Len(s2) + Len(t2) = k + Len(new)
        /\ From(Chain(s, t), Count(x), Chain(s2, t2), k)
        /\ \A i \in 1..Len(new) : Chain(s2, t2)[k + i] = new[i]
    BY ONLY <2>3, LineMoves
  <2> QED
    BY ONLY <2>2, <2>4
<1> QED
  BY <1>8 DEF k, x, new, LineMoved

\* So the lines go on matching what is owed.
LEMMA LineStep ==
    ASSUME RouterInv, FlowInv, NEW ready, NEW replies, NEW shown,
           Clock(ready, replies, shown), NEW b \in Banks
    PROVE  df'[b] \in Seq(Words) /\ pend'[b] \in Seq(Words) /\ LineOf(b)'
<1> DEFINE x == DfRead(b, shown)
           r == BsRead(shown)
           s == Kept(owed, r)
           line == Chain(df[b], pend[b])
           more == Chain(df'[b], pend'[b])
           d == Len(Asking(ready))
<1>0. /\ Answering(replies) /\ DataFifos(replies, shown)
      /\ BankWork(ready, replies) /\ Owe(ready, shown)
  BY DEF Clock
<1>1. PICK k : k = LeftIn(b, shown)
  OBVIOUS
<1>a. k = Len(df[b]) + Len(pend[b]) - Count(x)
  BY <1>1 DEF LeftIn
<1>2. PICK p : p = Len(owed) - Count(r)
  OBVIOUS
<1>3. /\ df'[b] \in Seq(Words) /\ pend'[b] \in Seq(Words) /\ k \in Nat
      /\ Len(df'[b]) + Len(pend'[b]) = k + Len(ForBank(ready, b))
      /\ From(line, Count(x), more, k)
      /\ \A i \in 1..Len(ForBank(ready, b)) :
            more[k + i] = ForBank(ready, b)[i]
  <2>1. LineMoved(ready, shown, b)
    BY LineClock
  <2> QED
    BY <1>1, <2>1 DEF LineMoved
<1>4. /\ p \in Nat /\ Len(owed') = p + d
      /\ From(owed, Count(r), s, p)
      /\ Then(s, p, Asking(ready), d, owed')
  BY <1>0, <1>2, OwedStep
<1>5. /\ Len(ForBank(ready, b)) = IF b = BankOf THEN d ELSE 0
      /\ b = BankOf => ForBank(ready, b) = Asking(ready)
      /\ d \in Nat /\ \A i \in 1..d : Asking(ready)[i][1] = BankOf
  BY ForBankIs, AskedWords
<1>6. PICK l : l = Len(df[b]) + Len(pend[b])
  OBVIOUS
<1>7. Lined(owed, Len(owed), line, l, b)
  BY <1>6 DEF FlowInv, LineOf
<1>8. x => r
  BY DEF BsRead
<1>9. r => (x <=> owed[1][1] = b)
  BY FrontWord
<1>10. s = Kept(owed, r)
  OBVIOUS
<1> HIDE DEF x, r, s, line, more, d
<1>11. PICK rest : rest = IF x THEN [i \in 1..k |-> line[i + 1]] ELSE line
  OBVIOUS
<1>12. Lined(s, p, rest, k, b)
  <2>1. CASE r
    <3>1. Len(owed) = p + 1
      <4>1. Count(r) = 1
        BY <2>1 DEF Count
      <4>2. Len(owed) \in Nat
        BY <1>7 DEF Lined
      <4> QED
        BY ONLY <1>2, <1>4, <4>1, <4>2
    <3>2. WithoutFirst(owed, s, p)
      BY <1>4, <2>1 DEF From, WithoutFirst, Count
    <3>3. owed[1][1] = b => k = l - 1 /\ WithoutFirst(line, rest, k)
      BY <1>a, <1>6, <1>9, <1>11, <2>1 DEF Count, WithoutFirst
    <3>4. l \in Nat
      BY <1>7 DEF Lined
    <3>5. owed[1][1] # b => k = l /\ (\A j \in 1..k : rest[j] = line[j])
      <4>1. SUFFICES ASSUME owed[1][1] # b
                     PROVE  k = l /\ (\A j \in 1..k : rest[j] = line[j])
        OBVIOUS
      <4>2. ~x /\ rest = line
        BY <1>9, <1>11, <2>1, <4>1
      <4>3. Count(x) = 0
        BY <4>2 DEF Count
      <4>4. k = l
        BY ONLY <1>a, <1>6, <3>4, <4>3
      <4> QED
        BY <4>2, <4>4
    <3>6. Lined(owed, p + 1, line, l, b)
      BY <1>7, <3>1
    <3> QED
      BY ONLY <3>2, <3>3, <3>5, <3>6, <1>3, <1>4, LineRest, SMTT(30)
  <2>2. CASE ~r
    <3>1. ~x /\ rest = line /\ s = owed
      BY <1>8, <1>10, <1>11, <2>2 DEF Kept
    <3>2. l \in Nat /\ Len(owed) \in Nat
      BY <1>7 DEF Lined
    <3>3. k = l /\ p = Len(owed)
      BY <1>a, <1>2, <1>6, <2>2, <3>1, <3>2 DEF Count
    <3> QED
      BY <1>7, <3>1, <3>3
  <2> QED
    BY <2>1, <2>2
<1>13. \A j \in 1..k : more[j] = rest[j]
  BY <1>3, <1>11 DEF From, Count
<1>14. \A j \in 1..p : owed'[j] = s[j]
  BY <1>4 DEF Then
<1>15. \A j \in 1..d : owed'[p + j] = Asking(ready)[j]
  BY <1>4 DEF Then
<1>16. \A j \in 1..d : owed'[p + j][1] = BankOf
  BY <1>5, <1>15
<1>17. b = BankOf => \A j \in 1..d : more[k + j] = owed'[p + j]
  BY <1>3, <1>5, <1>15
<1>18. PICK l2 : l2 = Len(df'[b]) + Len(pend'[b])
  OBVIOUS
<1>19. l2 = k + (IF b = BankOf THEN d ELSE 0)
  BY <1>3, <1>5, <1>18
<1>20. PICK c, t : c = BankOf /\ t = owed'
  OBVIOUS
<1>21. /\ \A j \in 1..p : t[j] = s[j]
       /\ \A j \in 1..d : t[p + j][1] = c
       /\ b = c => \A j \in 1..d : more[k + j] = t[p + j]
       /\ l2 = k + (IF b = c THEN d ELSE 0)
  BY <1>14, <1>16, <1>17, <1>19, <1>20
<1>22. Lined(t, p + d, more, l2, b)
  <2>1. Grows(s, p, rest, k, b, d, c, t, more, l2)
    BY ONLY <1>5, <1>13, <1>21 DEF Grows
  <2> QED
    BY ONLY <1>12, <2>1, LineMore
<1>23. Lined(owed', Len(owed'), more, l2, b)
  BY <1>4, <1>20, <1>22
<1> QED
  BY <1>3, <1>18, <1>23 DEF LineOf, more

\* The registers of the bank-select FIFO keep their types.
LEMMA LlTypes ==
    ASSUME NEW S, NEW D \in Nat \ {0}, NEW f,
           f.wptr \in [0..D -> BOOLEAN], f.data \in [0..D-1 -> S],
           NEW read \in BOOLEAN, NEW write \in BOOLEAN, NEW in \in S
    PROVE  /\ LlStep(f, D, read, write, in).wptr \in [0..D -> BOOLEAN]
           /\ LlStep(f, D, read, write, in).data \in [0..D-1 -> S]
<1>1. LlPointer(f, D, read, write) \in [0..D -> BOOLEAN]
  <2>1. CASE read = write
    BY <2>1 DEF LlPointer
  <2>2. CASE read # write /\ read
    <3>1. \A k \in 0..D : (k < D /\ f.wptr[k + 1]) \in BOOLEAN
      OBVIOUS
    <3> QED
      BY <2>2, <3>1 DEF LlPointer
  <2>3. CASE read # write /\ ~read
    <3>1. \A k \in 0..D : (k > 0 /\ f.wptr[k - 1]) \in BOOLEAN
      OBVIOUS
    <3> QED
      BY <2>3, <3>1 DEF LlPointer
  <2> QED
    BY <2>1, <2>2, <2>3
<1>2. LlData(f, D, read, write, in) \in [0..D-1 -> S]
  <2>1. ASSUME NEW k \in 0..D-1
        PROVE  (IF ~(read \/ (write /\ f.wptr[k])) THEN f.data[k]
                ELSE IF ~read \/ f.wptr[k + 1] \/ k = D - 1 THEN in
                ELSE f.data[k + 1]) \in S
    <3>1. f.data[k] \in S
      OBVIOUS
    <3>2. k # D - 1 => f.data[k + 1] \in S
      <4>1. k # D - 1 => k + 1 \in 0..D-1
        OBVIOUS
      <4> QED
        BY <4>1
    <3> QED
      BY <3>1, <3>2
  <2> QED
    BY <2>1 DEF LlData
<1> QED
  BY <1>1, <1>2 DEF LlStep

\* What the bank-select FIFO is given.
TurnIn(ready) ==
    IF Took(ready)
    THEN [burst |-> req.burst, banks |-> {b \in Banks : Selected(b)}]
    ELSE NoTurn

LEMMA TurnInIs ==
    ASSUME RouterInv, NEW ready
    PROVE  /\ TurnIn(ready) \in Turn
           /\ Took(ready) => /\ TurnIn(ready).burst \in 1..MaxBurst
                             /\ TurnIn(ready).burst = Len(Asking(ready))
                             /\ TurnIn(ready).banks = {BankOf}
                             /\ BankOf \in Banks
<1>1. CASE Took(ready)
  <2>1. Reading /\ req # None
    BY <1>1 DEF Took, Reading
  <2>2. BankOf \in Banks /\ req.burst \in 1..MaxBurst
    BY <2>1, BurstOfRequest
  <2>3. {b \in Banks : Selected(b)} = {BankOf}
    BY <2>1, <2>2 DEF Selected, BankOf
  <2>4. TurnIn(ready) = [burst |-> req.burst, banks |-> {BankOf}]
    BY <1>1, <2>3 DEF TurnIn
  <2>5. Len(Asking(ready)) = req.burst
    BY <1>1, AskedWords
  <2>6. TurnIn(ready) \in Turn
    <3>1. req.burst \in 0..MaxBurst /\ {BankOf} \in SUBSET Banks
      BY <2>2
    <3> QED
      BY <2>4, <3>1 DEF Turn
  <2> QED
    BY <2>2, <2>4, <2>5, <2>6
<1>2. CASE ~Took(ready)
  <2>1. NoTurn \in Turn
    BY SizesAssumption DEF NoTurn, Turn
  <2> QED
    BY <1>2, <2>1 DEF TurnIn
<1> QED
  BY <1>1, <1>2

\* There is a turn whenever a word is read.
LEMMA ReadInTurn ==
    ASSUME NEW n \in 0..SelectDepth, TurnsShare(n), NEW shown, BsRead(shown)
    PROVE  n > 0 /\ LlItems(bs, n)[1] = LlOut(bs)
<1>1. ~bs.wptr[0]
  BY DEF BsRead, DfRead, LlEmpty
<1>2. bs.wptr[0] <=> 0 = n
  BY DepthIsNat DEF TurnsShare, LlHolds
<1>3. n > 0
  BY <1>1, <1>2
<1> QED
  BY <1>3 DEF LlItems, LlOut

\* The turns after the word that is read, before a new one comes.
LEMMA TurnsRead ==
    ASSUME FlowInv, NEW n \in 0..SelectDepth, TurnsShare(n),
           LlItems(bs, n) \in Seq(Turn), Len(LlItems(bs, n)) = n,
           NEW shown, Counter(shown),
           NEW read, read = (BsRead(shown) /\ DoneBurst),
           NEW p \in Nat, p = Len(owed) - Count(BsRead(shown)),
           NEW s, From(owed, Count(BsRead(shown)), s, p),
           ~BsRead(shown) => s = owed,
           NEW m \in Nat, m = n - Count(read)
    PROVE  \E off : Shared(Kept(LlItems(bs, n), read), m, s, p, counter', off)
<1> DEFINE items == LlItems(bs, n)
           r == BsRead(shown)
<1>1. PICK off : Shared(items, n, owed, Len(owed), counter, off)
  BY DEF TurnsShare
<1>2. r \in BOOLEAN /\ read \in BOOLEAN
  BY DEF BsRead, DoneBurst
<1>3. r => n > 0 /\ items[1] = LlOut(bs)
  BY ReadInTurn
<1>4. Len(owed) \in Nat
  BY DEF FlowInv
<1>5. CASE r
  <2>1. p = Len(owed) - 1
    BY <1>4, <1>5 DEF Count
  <2>2. WithoutFirst(owed, s, p)
    BY <1>5 DEF From, WithoutFirst, Count
  <2>3. n > 0 /\ items[1] = LlOut(bs)
    BY <1>3, <1>5
  <2>4. CASE DoneBurst
    <3>1. read /\ counter' = 1 /\ counter = items[1].burst
      BY <1>5, <2>3, <2>4 DEF Counter, DoneBurst
    <3>2. m = n - 1
      BY <3>1 DEF Count
    <3>3. items # <<>>
      BY <2>3
    <3>4. WithoutFirst(items, Tail(items), m)
      <4>1. /\ Tail(items) \in Seq(Turn) /\ Len(Tail(items)) = n - 1
            /\ \A i \in 1..Len(Tail(items)) : Tail(items)[i] = items[i + 1]
        <5> HIDE DEF items
        <5>1. items \in Seq(Turn) /\ Len(items) = n
          BY DEF items
        <5> QED
          BY <3>3, <5>1, HeadTailProperties
      <4> HIDE DEF items
      <4> QED
        BY <3>2, <4>1 DEF WithoutFirst
    <3>5. Kept(items, read) = Tail(items)
      BY <3>1 DEF Kept
    <3> HIDE DEF items
    <3>6. PICK q : q = Len(owed)
      OBVIOUS
    <3>7. Shared(items, n, owed, q, counter, off) /\ p = q - 1
      BY <1>1, <2>1, <3>6
    <3>8. PICK rest : rest = Tail(items)
      OBVIOUS
    <3>9. WithoutFirst(items, rest, m)
      BY <3>4, <3>8
    <3>10. \E new : Shared(rest, m, s, p, 1, new)
      BY ONLY <2>2, <2>3, <3>1, <3>2, <3>7, <3>9, TurnLast,
              p \in Nat, m \in Nat
    <3> QED
      BY <3>1, <3>5, <3>8, <3>10 DEF items
  <2>5. CASE ~DoneBurst
    <3>1. ~read /\ counter' = counter + 1 /\ counter # items[1].burst
      BY <1>5, <2>3, <2>5 DEF Counter, DoneBurst
    <3>2. m = n /\ Kept(items, read) = items
      BY <3>1 DEF Count, Kept
    <3> HIDE DEF items
    <3>3. PICK q : q = Len(owed)
      OBVIOUS
    <3>4. Shared(items, n, owed, q, counter, off) /\ p = q - 1
      BY <1>1, <2>1, <3>3
    <3>5. \E new : Shared(items, n, s, p, counter + 1, new)
      BY ONLY <2>2, <2>3, <3>1, <3>4, TurnWord, p \in Nat
    <3> QED
      BY <3>1, <3>2, <3>5 DEF items
  <2> QED
    BY <2>4, <2>5
<1>6. CASE ~r
  <2>1. ~read /\ counter' = counter /\ s = owed
    BY <1>6 DEF Counter
  <2>2. m = n /\ Kept(items, read) = items
    BY <2>1 DEF Count, Kept
  <2>3. p = Len(owed)
    BY <1>4, <1>6 DEF Count
  <2> QED
    BY <1>1, <2>1, <2>2, <2>3
<1> QED
  BY <1>5, <1>6

\* The turns go on sharing out what is owed.
LEMMA TurnStep ==
    ASSUME RouterInv, FlowInv, NEW ready, NEW replies, NEW shown,
           Clock(ready, replies, shown)
    PROVE  /\ bs'.wptr \in [0..SelectDepth -> BOOLEAN]
           /\ bs'.data \in [0..SelectDepth-1 -> Turn]
           /\ (\E n \in 0..SelectDepth : TurnsShare(n))'
<1> DEFINE r == BsRead(shown)
           read == r /\ DoneBurst
           write == Took(ready)
           in == TurnIn(ready)
           s == Kept(owed, r)
<1>1. PICK n \in 0..SelectDepth : TurnsShare(n)
  BY DEF FlowInv
<1>2. /\ Counter(shown) /\ Owe(ready, shown) /\ BankSelect(ready, shown)
  BY DEF Clock
<1>3. bs' = LlStep(bs, SelectDepth, read, write, in)
  BY <1>2 DEF BankSelect, TurnIn, Took
<1>4. read \in BOOLEAN /\ write \in BOOLEAN /\ r \in BOOLEAN /\ in \in Turn
  BY TurnInIs DEF BsRead, DoneBurst, Took, Reading, Accepted
<1>5. read => n > 0
  BY <1>1, ReadInTurn
<1>6. LlHolds(bs, SelectDepth, n)
  BY <1>1 DEF TurnsShare
<1>7. write => n < SelectDepth
  BY <1>6, AcceptedHasRoom, DepthIsNat DEF LlFull, LlHolds, Took
<1>8. /\ bs.wptr \in [0..SelectDepth -> BOOLEAN]
      /\ bs.data \in [0..SelectDepth-1 -> Turn]
  BY DEF FlowInv
<1>9. PICK p : p = Len(owed) - Count(r)
  OBVIOUS
<1>10. /\ p \in Nat /\ Len(owed') = p + Len(Asking(ready))
       /\ From(owed, Count(r), s, p)
       /\ Then(s, p, Asking(ready), Len(Asking(ready)), owed')
  BY <1>2, <1>9, OwedStep
<1>11. ~r => s = owed
  BY DEF Kept
<1>12. r = BsRead(shown) /\ read = (BsRead(shown) /\ DoneBurst)
  OBVIOUS
<1> DEFINE items == LlItems(bs, n)
<1>13. items \in Seq(Turn) /\ Len(items) = n
  <2>1. \A k \in 1..n : bs.data[k - 1] \in Turn
    <3>1. \A k \in 1..n : k - 1 \in 0..SelectDepth-1
      BY DepthIsNat
    <3> QED
      BY <1>8, <3>1
  <2> QED
    BY <2>1 DEF LlItems
<1>14. SelectDepth \in Nat \ {0}
  BY DepthIsNat
<1>15. items = LlItems(bs, n)
  OBVIOUS
<1>16. PICK m : m = n - Count(read)
  OBVIOUS
<1>17. write = Took(ready) /\ in = TurnIn(ready)
  OBVIOUS
<1> HIDE DEF r, read, write, in, s, items
<1>18. m \in Nat
  BY <1>5, <1>16 DEF Count
<1> DEFINE rest == Kept(items, read)
<1>19. PICK off : Shared(rest, m, s, p, counter', off)
  BY <1>1, <1>2, <1>9, <1>10, <1>11, <1>12, <1>13, <1>15, <1>16, <1>18,
     TurnsRead
<1>20. rest \in Seq(Turn) /\ Len(rest) = m
  <2>1. read => items # <<>>
    BY <1>5, <1>13
  <2>2. /\ Kept(items, read) \in Seq(Turn)
        /\ Len(Kept(items, read)) = Len(items) - Count(read)
    BY ONLY <1>4, <1>13, <2>1, KeptIs
  <2> QED
    BY <1>13, <1>16, <2>2
<1>21. PICK h : h = IF write THEN m + 1 ELSE m
  OBVIOUS
<1>22. h = (IF read = write THEN n ELSE IF read THEN n - 1 ELSE n + 1)
  BY <1>4, <1>16, <1>21 DEF Count
<1>23. h \in 0..SelectDepth
  BY <1>4, <1>5, <1>7, <1>14, <1>22
<1>24. LlHolds(bs', SelectDepth, h)
  BY ONLY <1>3, <1>4, <1>5, <1>6, <1>7, <1>14, <1>22, LlPointerMoves,
          n \in 0..SelectDepth
<1>25. LlItems(bs', h) = IF write THEN Append(rest, in) ELSE rest
  <2>1. \A k \in 0..SelectDepth-1 : bs.data[k] \in Turn
    BY <1>8
  <2>2. LlItems(bs', h) = IF write THEN Append(IF read THEN Tail(items)
                                               ELSE items, in)
                          ELSE IF read THEN Tail(items) ELSE items
    BY ONLY <1>3, <1>4, <1>5, <1>6, <1>7, <1>14, <1>15, <1>22, <2>1,
            LlFifoIsFifo, n \in 0..SelectDepth
  <2> QED
    BY <2>2 DEF Kept
<1> HIDE DEF rest
<1>26. \E new : Shared(LlItems(bs', h), h, owed', Len(owed'), counter', new)
  <2>1. CASE write
    <3>1. PICK d : d = Len(Asking(ready))
      OBVIOUS
    <3>2. /\ in.burst \in 1..MaxBurst /\ in.burst = d
          /\ in.banks = {BankOf} /\ BankOf \in Banks
      BY <1>17, <2>1, <3>1, TurnInIs
    <3>3. PICK t, c, b : t = owed' /\ c = counter' /\ b = BankOf
      OBVIOUS
    <3>4. \A i \in 1..p : t[i] = s[i]
      BY <1>10, <3>3 DEF Then
    <3>5. RunIn(t, p, in.burst, b)
      <4>1. \A i \in 1..d : owed'[p + i] = Asking(ready)[i]
        BY <1>10, <3>1 DEF Then
      <4>2. \A i \in 1..d : Asking(ready)[i][1] = BankOf
        BY <3>1, AskedWords
      <4> QED
        BY <3>2, <3>3, <4>1, <4>2 DEF RunIn
    <3>6. PICK more : more = Append(rest, in)
      OBVIOUS
    <3>7. (\A k \in 1..m : more[k] = rest[k]) /\ more[m + 1] = in
      BY ONLY <1>4, <1>18, <1>20, <3>6, AppendProperties
    <3>8. Shared(rest, m, s, p, c, off)
      BY <1>19, <3>3
    <3>9. \E new : Shared(more, m + 1, t, p + in.burst, c, new)
      BY ONLY <3>2, <3>3, <3>4, <3>5, <3>7, <3>8, TurnMore
    <3>10. h = m + 1 /\ LlItems(bs', h) = more /\ Len(owed') = p + in.burst
      BY <1>10, <1>21, <1>25, <2>1, <3>1, <3>2, <3>6
    <3> QED
      BY <3>3, <3>9, <3>10
  <2>2. CASE ~write
    <3>1. Asking(ready) = <<>>
      BY <1>17, <2>2 DEF Asking
    <3>2. s \in Seq(Words)
      <4>1. owed \in Seq(Words) /\ (r => owed # <<>>)
        BY <1>12, FrontWord DEF FlowInv
      <4> QED
        BY <1>4, <4>1, KeptIs DEF s
    <3>3. owed' = s \o <<>>
      BY <1>2, <1>12, <3>1 DEF Owe, Asking, Took, s, Kept
    <3>4. owed' = s /\ Len(owed') = p
      BY <1>10, <3>1, <3>2, <3>3
    <3>5. h = m /\ LlItems(bs', h) = rest
      BY <1>21, <1>25, <2>2
    <3> QED
      BY <1>19, <3>4, <3>5
  <2> QED
    BY <2>1, <2>2
<1>27. TurnsShare(h)'
  BY <1>24, <1>26, <1>14 DEF TurnsShare
<1>28. /\ bs'.wptr \in [0..SelectDepth -> BOOLEAN]
       /\ bs'.data \in [0..SelectDepth-1 -> Turn]
  BY ONLY <1>3, <1>4, <1>8, <1>14, LlTypes
<1> QED
  BY <1>23, <1>27, <1>28

\* The master gets the first word that is owed to it, or none.
LEMMA OutStep ==
    ASSUME FlowInv, NEW shown, Output(shown)
    PROVE  /\ BsRead(shown) => owed # <<>> /\ out' = Head(owed)
           /\ ~BsRead(shown) => out' = None
           /\ out' \in Words \cup {None}
<1>1. CASE BsRead(shown)
  <2>1. PICK c \in Banks : c = owed[1][1]
    BY <1>1, FrontWord
  <2>2. (\A b \in Banks : DfRead(b, shown) <=> b = c) /\ Head(df[c]) = owed[1]
    BY <1>1, <2>1, FrontWord
  <2>3. (CHOOSE b \in Banks : DfRead(b, shown)) = c
    BY <2>2
  <2>4. out' = owed[1]
    BY <1>1, <2>2, <2>3 DEF Output
  <2>5. owed \in Seq(Words) /\ owed # <<>>
    BY <1>1, FrontWord DEF FlowInv
  <2>6. Head(owed) = owed[1] /\ owed[1] \in Words
    BY ONLY <2>5
  <2> QED
    BY <1>1, <2>4, <2>5, <2>6
<1>2. CASE ~BsRead(shown)
  BY <1>2 DEF Output
<1> QED
  BY <1>1, <1>2

LEMMA NextFlow == RouterInv /\ FlowInv /\ [Next]_vars => FlowInv'
<1> SUFFICES ASSUME RouterInv, FlowInv, [Next]_vars PROVE FlowInv'
  OBVIOUS
<1>1. ASSUME NEW ready \in AllOrNone, NEW shown \in AllOrNone,
             NEW replies \in SUBSET Banks, Clock(ready, replies, shown)
      PROVE  FlowInv'
  <2>1. owed' \in Seq(Words)
    <3>1. Owe(ready, shown)
      BY <1>1 DEF Clock
    <3> QED
      BY <3>1, OwedStep
  <2>2. \A b \in Banks :
            df'[b] \in Seq(Words) /\ pend'[b] \in Seq(Words) /\ LineOf(b)'
    BY <1>1, LineStep
  <2>3. /\ df' = [b \in Banks |-> df'[b]]
        /\ pend' = [b \in Banks |-> pend'[b]]
    BY <1>1 DEF Clock, DataFifos, BankWork
  <2>4. df' \in [Banks -> Seq(Words)] /\ pend' \in [Banks -> Seq(Words)]
    BY <2>2, <2>3
  <2>5. /\ bs'.wptr \in [0..SelectDepth -> BOOLEAN]
        /\ bs'.data \in [0..SelectDepth-1 -> Turn]
        /\ (\E n \in 0..SelectDepth : TurnsShare(n))'
    BY <1>1, TurnStep
  <2>6. out' \in Words \cup {None}
    BY <1>1, OutStep DEF Clock
  <2>7. (\A b \in Banks : LineOf(b))'
    BY <2>2
  <2> QED
    BY <2>1, <2>4, <2>5, <2>6, <2>7 DEF FlowInv
<1>2. ASSUME UNCHANGED vars PROVE FlowInv'
  <2>1. /\ bs' = bs /\ counter' = counter /\ df' = df /\ out' = out
        /\ pend' = pend /\ owed' = owed
    BY <1>2 DEF vars, readVars
  <2>2. (\E n \in 0..SelectDepth : TurnsShare(n))'
    BY <2>1 DEF FlowInv, TurnsShare
  <2>3. (\A b \in Banks : LineOf(b))'
    BY <2>1 DEF FlowInv, LineOf
  <2> QED
    BY <2>1, <2>2, <2>3 DEF FlowInv
<1> QED
  BY <1>1, <1>2 DEF Next

LEMMA FlowInvariance == Spec => []FlowInv
BY InitFlow, NextFlow, RouterInvariance, PTL DEF Spec

\* Whatever the order in which the banks answer, what waits in the data FIFO
\* of a bank and what the bank still returns are the words that the master
\* waits for from it, in order.
THEOREM StreamsStayInOrder == Spec => []StreamsMatch
<1>1. FlowInv => StreamsMatch
  <2> SUFFICES ASSUME FlowInv PROVE StreamsMatch
    OBVIOUS
  <2>1. ASSUME NEW b \in Banks
        PROVE  /\ Len(df[b] \o pend[b]) = FromBank(b, Len(owed))
               /\ \A i \in 1..Len(owed) :
                     owed[i][1] = b
                         => (df[b] \o pend[b])[FromBank(b, i)] = owed[i]
    <3>1. \A i : FromBank(b, i) = Rank(owed, b, i)
      BY DEF FromBank, Rank
    <3>2. Lined(owed, Len(owed), Chain(df[b], pend[b]),
                Len(df[b]) + Len(pend[b]), b)
      BY DEF FlowInv, LineOf
    <3>3. Len(Chain(df[b], pend[b])) = Len(df[b]) + Len(pend[b])
      BY ChainIs DEF FlowInv
    <3> QED
      BY <3>1, <3>2, <3>3 DEF Lined, Chain
  <2> QED
    BY <2>1 DEF StreamsMatch
<1> QED
  BY <1>1, FlowInvariance, PTL

\* The registers of the router keep their types: no counter leaves its range,
\* and every word is a place of some bank.
THEOREM RouterTypes == Spec => []TypeOK
<1>1. RouterInv /\ WriteInv /\ FlowInv => TypeOK
  <2> SUFFICES ASSUME RouterInv, WriteInv, FlowInv PROVE TypeOK
    OBVIOUS
  <2>1. mode \in BOOLEAN /\ req \in Requests \cup {None}
    BY DEF RouterInv
  <2>2. counter \in 1..MaxBurst
    <3>1. PICK n \in 0..SelectDepth : TurnsShare(n)
      BY DEF FlowInv
    <3>2. PICK off : Shared(LlItems(bs, n), n, owed, Len(owed), counter, off)
      BY <3>1 DEF TurnsShare
    <3>3. /\ counter \in Nat \ {0}
          /\ n = 0 => counter = 1
          /\ n > 0 => counter <= LlItems(bs, n)[1].burst
          /\ n > 0 => LlItems(bs, n)[1].burst \in 1..MaxBurst
      <4>1. n > 0 => 1 \in 1..n
        OBVIOUS
      <4> QED
        BY <3>2, <4>1 DEF Shared
    <3> QED
      BY <3>3, SizesAssumption
  <2>3. free \in [Banks -> 0..DataDepth-1]
    <3>1. ASSUME NEW b \in Banks PROVE free[b] \in 0..DataDepth-1
      <4>1. /\ free[b] >= 0 /\ free[b] \in Int
            /\ free[b] + Len(df[b]) + Len(pend[b]) = DataDepth - 1
        BY DEF RouterInv, Credits
      <4>2. Len(df[b]) \in Nat /\ Len(pend[b]) \in Nat
        BY DEF RouterInv
      <4>3. DataDepth \in Nat
        BY DepthIsNat
      <4> QED
        BY ONLY <4>1, <4>2, <4>3
    <3> QED
      BY <3>1 DEF RouterInv
  <2>4. acks \in -1..AckDepth-1 /\ ackFree \in -1..AckDepth-1
    <3>1. PICK n \in Nat : n = Cardinality({b \in Banks : ack[b]})
      <4>1. {b \in Banks : ack[b]} \subseteq Banks
        OBVIOUS
      <4>2. Cardinality({b \in Banks : ack[b]}) \in Nat
        BY <4>1, BanksFinite, FS_Subset, FS_CardinalityType
      <4> QED
        BY <4>2
    <3>2. /\ acks \in Int /\ acks >= -1 /\ ackFree \in Int /\ ackFree >= -1
          /\ ackFree + (acks + 1) + n = AckDepth - 1
      BY <3>1 DEF WriteInv, WriteCredits
    <3>3. AckDepth \in Nat
      BY SizesAssumption DEF AckDepth
    <3> QED
      BY ONLY <3>1, <3>2, <3>3
  <2>5. ack \in [Banks -> BOOLEAN]
    BY DEF WriteInv
  <2> QED
    BY <2>1, <2>2, <2>3, <2>4, <2>5 DEF FlowInv, Turn, TypeOK
<1>2. Spec => []WriteInv
  BY InitWriteInv, NextWriteInv, RouterInvariance, PTL DEF Spec
<1> QED
  BY <1>1, <1>2, RouterInvariance, FlowInvariance, PTL

----------------------------------------------------------------------------
(* The memory that the master sees *)

LEMMA InitMapped == Init => Single!MInit
<1> SUFFICES ASSUME Init PROVE Single!MInit
  OBVIOUS
<1>1. \A p \in {Place[m] : m \in BOOLEAN} : Single!OneToOne(p)
  <2>1. ASSUME NEW m \in BOOLEAN PROVE Single!OneToOne(Place[m])
    <3>1. DOMAIN Place[m] = Addresses
      BY DEF Place
    <3> QED
      BY <3>1, PlacesAreDistinct DEF Single!OneToOne
  <2> QED
    BY <2>1
<1>2. mode \in BOOLEAN /\ owed = <<>> /\ out = None
  BY DEF Init
<1> QED
  BY <1>1, <1>2 DEF Single!MInit

LEMMA NextMapped ==
    RouterInv /\ FlowInv /\ [Next]_vars
        => [Single!MNext]_(Single!mvars)
<1> SUFFICES ASSUME RouterInv, FlowInv, [Next]_vars
             PROVE  [Single!MNext]_(Single!mvars)
  OBVIOUS
<1>1. ASSUME NEW ready \in AllOrNone, NEW shown \in AllOrNone,
             NEW replies \in SUBSET Banks, Clock(ready, replies, shown)
      PROVE  Single!MNext
  <2>1. /\ Owe(ready, shown) /\ Output(shown) /\ SetMode
    BY <1>1 DEF Clock
  <2>2. Place[mode'] \in {Place[m] : m \in BOOLEAN}
    BY <2>1 DEF SetMode
  <2>3. Asking(ready) \in Single!Asked \cup {<<>>}
    <3>1. CASE Took(ready)
      <4>1. Reading
        BY <3>1 DEF Took
      <4>2. req \in Requests
        BY <4>1, BurstOfRequest
      <4>3. PICK q : q = <<req.address, req.burst>>
        OBVIOUS
      <4>4. /\ q \in {<<x.address, x.burst>> : x \in Requests}
            /\ q[1] = req.address /\ q[2] = req.burst
        BY <4>2, <4>3
      <4>5. Asking(ready) = [i \in 1..q[2] |-> Place[mode][q[1] + i - 1]]
        BY <3>1, <4>4 DEF Asking
      <4> QED
        BY <4>4, <4>5 DEF Single!Asked
    <3>2. CASE ~Took(ready)
      BY <3>2 DEF Asking
    <3> QED
      BY <3>1, <3>2
  <2>4. owed' = Kept(owed, BsRead(shown)) \o Asking(ready)
    BY <2>1 DEF Owe, Kept, Asking, Took
  <2>5. CASE BsRead(shown)
    <3>1. owed # <<>> /\ out' = Head(owed)
      BY <2>1, <2>5, OutStep
    <3>2. owed' = Tail(owed) \o Asking(ready)
      BY <2>4, <2>5 DEF Kept
    <3> QED
      BY <2>2, <2>3, <3>1, <3>2 DEF Single!MNext
  <2>6. CASE ~BsRead(shown)
    <3>1. out' = None
      BY <2>1, <2>6, OutStep
    <3>2. owed' = owed \o Asking(ready)
      BY <2>4, <2>6 DEF Kept
    <3> QED
      BY <2>2, <2>3, <3>1, <3>2 DEF Single!MNext
  <2> QED
    BY <2>5, <2>6
<1>2. ASSUME UNCHANGED vars PROVE UNCHANGED Single!mvars
  BY <1>2 DEF vars, readVars, Single!mvars
<1> QED
  BY <1>1, <1>2 DEF Next

\* The router with its banks is one memory to its master: every word comes
\* back in the order of the requests, from the place that its own address had
\* when the request was accepted, and no two addresses share a place.
THEOREM RouterIsOneMemory == Spec => ImplementsInOrderMemory
<1>1. RouterInv /\ FlowInv /\ [Next]_vars => [Single!MNext]_(Single!mvars)
  BY NextMapped
<1> QED
  BY <1>1, InitMapped, RouterInvariance, FlowInvariance, PTL
     DEF Spec, ImplementsInOrderMemory, Single!MSpec

=============================================================================
