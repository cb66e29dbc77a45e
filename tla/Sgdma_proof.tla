---------------------------- MODULE Sgdma_proof -----------------------------
(***************************************************************************)
(* The FIFOs and the queues of the SGDMA never overflow, for every length  *)
(* of the transfers, depth of the FIFOs and burst; and every transfer of a *)
(* host that neither stops, resets nor parks gets its own words and its    *)
(* own interrupt.                                                          *)
(***************************************************************************)
EXTENDS Sgdma, SequenceTheorems, TLAPS

\* What is on its way to the FIFO of the read master.
Occupied == Len(rd.fifo) + Len(rd.pending)

\* A request on the bus has room for its burst.  The command is that of a
\* descriptor while there are words left.
RequestHasRoom ==
    /\ rd.left > 0 => rd.desc \in Descs /\ rd.left <= Length[rd.desc]
    /\ rd.asks /\ rd.left > 0 => Occupied <= ReadDepth - MaxBurst

IInv == TypeOK /\ RequestHasRoom /\ ReadsHaveRoom

----------------------------------------------------------------------------
(* The parts of a cycle *)

\* A command that is issued is a descriptor.
LEMMA IssuedIsDesc ==
    ASSUME DispatcherTypeOK, NEW m \in Masters, NEW ready, Issues(m, ready)
    PROVE  Command(m) \in Descs
<1>1. head[m] \in [1 .. 2 -> Descs \cup {NoDesc}]
  BY DEF DispatcherTypeOK
<1>2. head[m][2] # NoDesc
  BY DEF Issues, CommandValid
<1> QED BY <1>1, <1>2 DEF Command

LEMMA QueueTypes ==
    ASSUME DispatcherTypeOK, NEW access \in Access, Admitted(access),
           NEW readReady, NEW writeReady, DispatcherAssumption,
           QueueEdge(access, readReady, writeReady)
    PROVE  /\ queue' \in [Masters -> Seq(Descs)]
           /\ \A m \in Masters : Len(queue'[m]) <= QueueDepth
           /\ head' \in [Masters -> [1 .. 2 -> Descs \cup {NoDesc}]]
<1> DEFINE ready == [m \in Masters |->
                        IF m = "read" THEN readReady ELSE writeReady]
           kept(m) == IF Pops(m, ready[m]) THEN Tail(queue[m]) ELSE queue[m]
<1>1. ASSUME NEW m \in Masters
      PROVE  /\ queue[m] \in Seq(Descs) /\ Len(queue[m]) <= QueueDepth
             /\ kept(m) \in Seq(Descs) /\ Len(kept(m)) <= Len(queue[m])
  <2>1. queue[m] \in Seq(Descs) /\ Len(queue[m]) <= QueueDepth
    BY DEF DispatcherTypeOK
  <2>2. CASE Pops(m, ready[m])
    <3>1. queue[m] # <<>>
      BY <2>2 DEF Pops, Issues, CommandValid, HeadNow
    <3> QED BY <2>1, <2>2, <3>1
  <2>3. CASE ~Pops(m, ready[m])
    BY <2>1, <2>3
  <2> QED BY <2>1, <2>2, <2>3
<1>2. queue' = [m \in Masters |->
                   IF swReset THEN <<>>
                   ELSE IF access.op = "push" THEN Append(kept(m), access.desc)
                   ELSE kept(m)]
  BY DEF QueueEdge
<1>3. ASSUME NEW m \in Masters
      PROVE  queue'[m] \in Seq(Descs) /\ Len(queue'[m]) <= QueueDepth
  <2>1. CASE access.op = "push" /\ ~swReset
    <3>1. access.desc \in Descs
      BY <2>1 DEF Access
    <3>2. Len(queue[m]) < QueueDepth
      BY <2>1 DEF Admitted
    <3>3. queue'[m] = Append(kept(m), access.desc)
      BY <1>2, <2>1
    <3> HIDE DEF kept
    <3>4. /\ queue'[m] \in Seq(Descs)
          /\ Len(queue'[m]) = Len(kept(m)) + 1
      BY <1>1, <3>1, <3>3
    <3>5. Len(kept(m)) \in Nat /\ Len(queue[m]) \in Nat
      BY <1>1
    <3> QED BY <1>1, <3>2, <3>4, <3>5 DEF DispatcherAssumption
  <2>2. CASE swReset
    <3>1. queue'[m] = <<>>
      BY <1>2, <2>2
    <3> QED BY <3>1 DEF DispatcherAssumption
  <2>3. CASE access.op # "push" /\ ~swReset
    <3>1. queue'[m] = kept(m)
      BY <1>2, <2>3
    <3> HIDE DEF kept
    <3>2. Len(kept(m)) \in Nat /\ Len(queue[m]) \in Nat
      BY <1>1
    <3> QED BY <1>1, <3>1, <3>2 DEF DispatcherAssumption
  <2> QED BY <2>1, <2>2, <2>3
<1>4. DOMAIN queue' = Masters /\ queue' = [m \in Masters |-> queue'[m]]
  BY <1>2
<1>5. queue' \in [Masters -> Seq(Descs)]
  BY <1>3, <1>4
<1>6. ASSUME NEW m \in Masters
      PROVE  <<HeadNow(m), head[m][1]>> \in [1 .. 2 -> Descs \cup {NoDesc}]
  <2>1. head[m][1] \in Descs \cup {NoDesc}
    BY DEF DispatcherTypeOK
  <2>2. HeadNow(m) \in Descs \cup {NoDesc}
    BY <1>1 DEF HeadNow
  <2> QED BY <2>1, <2>2
<1>7. head' = [m \in Masters |-> <<HeadNow(m), head[m][1]>>]
  BY DEF QueueEdge
<1>8. head' \in [Masters -> [1 .. 2 -> Descs \cup {NoDesc}]]
  BY <1>6, <1>7
<1> QED BY <1>3, <1>5, <1>8

LEMMA DispatcherTypes ==
    ASSUME DispatcherTypeOK, NEW access \in Access, DispatcherAssumption,
           NEW readReady \in BOOLEAN, NEW writeReady \in BOOLEAN,
           NEW stalled \in BOOLEAN, NEW done \in BOOLEAN,
           DispatcherEdge(access, readReady, writeReady, stalled, done)
    PROVE  DispatcherTypeOK'
<1> USE DEF DispatcherEdge
<1>1. Admitted(access) /\ QueueEdge(access, readReady, writeReady)
  OBVIOUS
<1>2. /\ queue' \in [Masters -> Seq(Descs)]
      /\ \A m \in Masters : Len(queue'[m]) <= QueueDepth
      /\ head' \in [Masters -> [1 .. 2 -> Descs \cup {NoDesc}]]
  BY <1>1, QueueTypes
<1>3. control' \in Control /\ swReset' \in BOOLEAN
  <2>1. access.op = "control" => access.to \in Control
    BY DEF Access
  <2>2. Off \in Control /\ control \in Control
    BY DEF Off, Control, DispatcherTypeOK
  <2>3. control' \in Control
    BY <2>1, <2>2 DEF ControlEdge
  <2>4. swReset' \in BOOLEAN
    BY DEF ControlEdge
  <2> QED BY <2>3, <2>4
<1>4. mask' \in BOOLEAN
  <2>1. mask \in BOOLEAN
    BY DEF DispatcherTypeOK
  <2>2. CASE Issues("write", writeReady)
    BY <2>2 DEF MaskEdge
  <2>3. CASE ~Issues("write", writeReady)
    BY <2>1, <2>3 DEF MaskEdge
  <2> QED BY <2>2, <2>3
<1>5. irq' \in BOOLEAN
  BY DEF IrqEdge
<1> QED BY <1>2, <1>3, <1>4, <1>5 DEF DispatcherTypeOK

\* The words of a burst, and how many they are.
LEMMA BurstTypes ==
    ASSUME RdTypeOK, RequestHasRoom, rd.left > 0,
           DescriptorsAssumption, ReadMasterAssumption
    PROVE  /\ BurstCount \in Nat /\ BurstCount <= rd.left
           /\ BurstCount <= MaxBurst
           /\ Burst \in Seq(Word) /\ Len(Burst) = BurstCount
<1>1. /\ rd.left \in Nat /\ rd.desc \in Descs
      /\ Length[rd.desc] \in Nat /\ rd.left <= Length[rd.desc]
  BY DEF RdTypeOK, RequestHasRoom, DescriptorsAssumption
<1>2. /\ BurstCount \in Nat /\ BurstCount <= rd.left
      /\ BurstCount <= MaxBurst
  BY <1>1 DEF BurstCount, ReadMasterAssumption
<1>3. \A i \in 1 .. BurstCount :
          <<rd.desc, Length[rd.desc] - rd.left + i>> \in Word
  BY <1>1, <1>2 DEF Word
<1>4. Burst \in [1 .. BurstCount -> Word]
  BY <1>3 DEF Burst
<1>5. Burst \in Seq(Word) /\ Len(Burst) = BurstCount
  BY <1>2, <1>4
<1> QED BY <1>2, <1>5

\* What the read master has when a clock edge comes.
ReaderHasRoom == RdTypeOK /\ RequestHasRoom /\ ReadsHaveRoom

\* An edge of the read master, and its inputs in the cycle before.
ReaderClocks(go, cmd, stop, reset, waits, returns, sinkReady) ==
    /\ go \in BOOLEAN /\ (go => cmd \in Descs)
    /\ stop \in BOOLEAN /\ reset \in BOOLEAN /\ waits \in BOOLEAN
    /\ returns \in BOOLEAN /\ sinkReady \in BOOLEAN
    /\ ReadEdge(go, cmd, stop, reset, waits, returns, sinkReady)

\* One edge of the read master keeps the room, whatever the memory, the sink
\* and the dispatcher do in the cycle.
LEMMA ReaderStep ==
    ASSUME ReaderHasRoom,
           NEW go, NEW cmd, NEW stop, NEW reset, NEW waits, NEW returns,
           NEW sinkReady,
           ReaderClocks(go, cmd, stop, reset, waits, returns, sinkReady)
    PROVE  ReaderHasRoom'
<1> USE DescriptorsAssumption, ReadMasterAssumption
<1>a. /\ RdTypeOK /\ RequestHasRoom /\ ReadsHaveRoom
      /\ go \in BOOLEAN /\ (go => cmd \in Descs)
      /\ stop \in BOOLEAN /\ reset \in BOOLEAN /\ waits \in BOOLEAN
      /\ returns \in BOOLEAN /\ sinkReady \in BOOLEAN
      /\ ReadEdge(go, cmd, stop, reset, waits, returns, sinkReady)
  BY DEF ReaderHasRoom, ReaderClocks
<1> USE <1>a
<1> DEFINE returned == IF returns THEN Tail(rd.pending) ELSE rd.pending
           asked == IF RdAccepted(waits) THEN Burst ELSE <<>>
           kept == IF RdPasses(sinkReady) THEN Tail(rd.fifo) ELSE rd.fifo
           arrived == IF returns THEN <<Head(rd.pending)>> ELSE <<>>
<1>1. /\ rd.pending \in Seq(Word) /\ rd.fifo \in Seq(Word)
      /\ rd.left \in Nat /\ rd.desc \in Descs \cup {NoDesc}
      /\ rd.ready \in BOOLEAN /\ rd.asks \in BOOLEAN /\ rd.flush \in BOOLEAN
      /\ rd.stopped \in BOOLEAN /\ rd.returned \in BOOLEAN
      /\ rd.response \in BOOLEAN
  BY DEF RdTypeOK
<1>2. returns => rd.pending # <<>>
  BY DEF ReadEdge
<1>3. rd'.pending = returned \o asked /\ rd'.fifo = kept \o arrived
  BY DEF ReadEdge
<1>4. /\ rd'.left = IF FlushEnds THEN 0 ELSE IF go THEN Length[cmd]
                    ELSE IF RdAccepted(waits) THEN rd.left - BurstCount
                    ELSE rd.left
      /\ rd'.desc = IF go THEN cmd ELSE rd.desc
      /\ rd'.asks = RdRequest(stop, reset, waits)
  BY DEF ReadEdge
<1>5. RdAccepted(waits) => rd.asks /\ rd.left > 0
  BY <1>1 DEF RdAccepted, RdRead, RdDone
<1>6. /\ returned \in Seq(Word) /\ arrived \in Seq(Word)
      /\ Len(returned) + Len(arrived) = Len(rd.pending)
  <2>1. CASE returns
    BY <1>1, <1>2, <2>1
  <2>2. CASE ~returns
    BY <1>1, <2>2
  <2> QED BY <2>1, <2>2
<1>7. kept \in Seq(Word) /\ Len(kept) <= Len(rd.fifo)
  <2>1. CASE RdPasses(sinkReady)
    <3>1. rd.fifo # <<>>
      BY <2>1 DEF RdPasses
    <3> QED BY <1>1, <2>1, <3>1
  <2>2. CASE ~RdPasses(sinkReady)
    BY <1>1, <2>2
  <2> QED BY <2>1, <2>2
<1>8. /\ asked \in Seq(Word)
      /\ RdAccepted(waits) => Len(asked) <= MaxBurst
      /\ ~RdAccepted(waits) => Len(asked) = 0
      /\ RdAccepted(waits) => BurstCount \in Nat /\ BurstCount <= rd.left
  <2>1. CASE RdAccepted(waits)
    BY <1>5, <2>1, BurstTypes
  <2>2. CASE ~RdAccepted(waits)
    BY <2>2
  <2> QED BY <2>1, <2>2
<1>9. /\ rd'.pending \in Seq(Word) /\ rd'.fifo \in Seq(Word)
      /\ Len(rd'.pending) = Len(returned) + Len(asked)
      /\ Len(rd'.fifo) = Len(kept) + Len(arrived)
  <2> HIDE DEF returned, asked, kept, arrived
  <2> QED BY <1>3, <1>6, <1>7, <1>8
<1>10. /\ Occupied' <= Occupied + (IF RdAccepted(waits) THEN MaxBurst ELSE 0)
       /\ Occupied \in Nat /\ Occupied' \in Nat
  <2> DEFINE fifo == Len(rd.fifo)
             pending == Len(rd.pending)
             fifoNext == Len(rd'.fifo)
             pendingNext == Len(rd'.pending)
  <2>1. Occupied = fifo + pending /\ Occupied' = fifoNext + pendingNext
    BY DEF Occupied
  <2>2. /\ fifo \in Nat /\ pending \in Nat
        /\ fifoNext \in Nat /\ pendingNext \in Nat
    <3>1. \A s \in Seq(Word) : Len(s) \in Nat
      OBVIOUS
    <3> QED BY <1>1, <1>9, <3>1, Zenon
  <2>3. /\ Len(returned) + Len(arrived) = pending /\ Len(kept) <= fifo
        /\ fifoNext = Len(kept) + Len(arrived)
        /\ pendingNext = Len(returned) + Len(asked)
    BY <1>6, <1>7, <1>9
  <2> HIDE DEF returned, asked, kept, arrived
  <2>4. /\ Len(returned) \in Nat /\ Len(asked) \in Nat
        /\ Len(kept) \in Nat /\ Len(arrived) \in Nat
    BY <1>6, <1>7, <1>8
  <2> HIDE DEF fifo, pending, fifoNext, pendingNext
  <2>5. /\ Occupied' <= Occupied + Len(asked)
        /\ Occupied \in Nat /\ Occupied' \in Nat
    BY <2>1, <2>2, <2>3, <2>4
  <2>6. CASE RdAccepted(waits)
    BY <1>8, <2>4, <2>5, <2>6 DEF ReadMasterAssumption
  <2>7. CASE ~RdAccepted(waits)
    BY <1>8, <2>4, <2>5, <2>7
  <2> QED BY <2>5, <2>6, <2>7
<1>11. /\ rd'.left \in Nat
       /\ rd'.left > 0 => rd'.desc \in Descs /\ rd'.left <= Length[rd'.desc]
  <2>1. CASE FlushEnds
    BY <1>4, <2>1
  <2>2. CASE ~FlushEnds /\ go
    BY <1>4, <2>2 DEF DescriptorsAssumption
  <2>3. CASE ~FlushEnds /\ ~go
    <3>1. /\ rd'.left \in Nat /\ rd'.left <= rd.left /\ rd'.desc = rd.desc
      BY <1>1, <1>4, <1>8, <2>3
    <3>2. rd.left > 0 => rd.desc \in Descs /\ Length[rd.desc] \in Nat
                         /\ rd.left <= Length[rd.desc]
      BY DEF RequestHasRoom, DescriptorsAssumption
    <3> QED BY <1>1, <3>1, <3>2
  <2> QED BY <2>1, <2>2, <2>3
<1>12. RdTypeOK'
  <2>1. rd'.desc \in Descs \cup {NoDesc}
    BY <1>1, <1>4
  <2>2. /\ rd'.ready \in BOOLEAN /\ rd'.asks \in BOOLEAN
        /\ rd'.flush \in BOOLEAN /\ rd'.stopped \in BOOLEAN
        /\ rd'.returned \in BOOLEAN /\ rd'.response \in BOOLEAN
    <3>1. rd'.asks \in BOOLEAN
      BY <1>4 DEF RdRequest
    <3>2. rd'.returned \in BOOLEAN
      BY DEF ReadEdge, AllReturned
    <3> QED BY <3>1, <3>2 DEF ReadEdge
  <2>3. rd' = [ready |-> rd'.ready, desc |-> rd'.desc, left |-> rd'.left,
               asks |-> rd'.asks, pending |-> rd'.pending, fifo |-> rd'.fifo,
               flush |-> rd'.flush, stopped |-> rd'.stopped,
               returned |-> rd'.returned, response |-> rd'.response]
    BY DEF ReadEdge
  <2> QED BY <1>9, <1>11, <2>1, <2>2, <2>3 DEF RdTypeOK
<1>13. ReadsHaveRoom'
  <2>1. RdAccepted(waits) => Occupied <= ReadDepth - MaxBurst
    BY <1>5 DEF RequestHasRoom
  <2>2. Occupied <= ReadDepth
    BY DEF ReadsHaveRoom, Occupied
  <2>3. Occupied' <= ReadDepth
    BY <1>10, <2>1, <2>2 DEF ReadMasterAssumption
  <2> QED BY <2>3 DEF ReadsHaveRoom, Occupied
<1>14. rd'.asks => Occupied' <= ReadDepth - MaxBurst
  <2>1. CASE ~Crowded
    <3>1. ~(Occupied > ReadDepth - 2 * MaxBurst)
      BY <2>1 DEF Crowded, Occupied
    <3> QED BY <1>10, <3>1 DEF ReadMasterAssumption
  <2>2. CASE Crowded /\ rd'.asks
    <3>1. rd.asks /\ ~RdDone /\ ~RdAccepted(waits)
      BY <1>4, <2>2 DEF RdRequest
    <3>2. Occupied <= ReadDepth - MaxBurst
      BY <1>1, <3>1 DEF RequestHasRoom, RdDone
    <3> QED BY <1>10, <3>1, <3>2 DEF ReadMasterAssumption
  <2> QED BY <2>1, <2>2
<1> QED BY <1>11, <1>12, <1>13, <1>14 DEF RequestHasRoom, ReaderHasRoom

\* An edge of the write master, and its inputs in the cycle before.
WriterClocks(go, cmd, stop, reset, waits, arrives) ==
    /\ go \in BOOLEAN /\ (go => cmd \in Descs)
    /\ stop \in BOOLEAN /\ reset \in BOOLEAN /\ waits \in BOOLEAN
    /\ arrives \in Seq(Word)
    /\ Len(arrives) = IF SinkReady /\ arrives # <<>> THEN 1 ELSE 0
    /\ WriteEdge(go, cmd, stop, reset, waits, arrives)

LEMMA WriterTypes ==
    ASSUME WrTypeOK,
           NEW go, NEW cmd, NEW stop, NEW reset, NEW waits, NEW arrives,
           WriterClocks(go, cmd, stop, reset, waits, arrives)
    PROVE  WrTypeOK'
<1> USE DescriptorsAssumption, WriteMasterAssumption
<1>a. /\ go \in BOOLEAN /\ (go => cmd \in Descs)
      /\ stop \in BOOLEAN /\ reset \in BOOLEAN /\ waits \in BOOLEAN
      /\ arrives \in Seq(Word)
      /\ Len(arrives) = IF SinkReady /\ arrives # <<>> THEN 1 ELSE 0
      /\ WriteEdge(go, cmd, stop, reset, waits, arrives)
  BY DEF WriterClocks
<1> USE <1>a
<1> DEFINE kept == IF WrPops(waits) THEN Tail(wr.fifo) ELSE wr.fifo
<1>1. /\ wr.fifo \in Seq(Word) /\ Len(wr.fifo) <= WriteDepth
      /\ wr.left \in Nat /\ wr.desc \in Descs \cup {NoDesc}
      /\ wr.finished \in Descs \cup {NoDesc}
      /\ wr.ready \in BOOLEAN /\ wr.stopped \in BOOLEAN
      /\ wr.response \in BOOLEAN /\ wr.done \in BOOLEAN /\ wr.taken \in BOOLEAN
  BY DEF WrTypeOK
<1>2. kept \in Seq(Word) /\ Len(kept) <= Len(wr.fifo)
  <2>1. CASE WrPops(waits)
    <3>1. wr.fifo # <<>>
      BY <2>1 DEF WrPops
    <3> QED BY <1>1, <2>1, <3>1
  <2>2. CASE ~WrPops(waits)
    BY <1>1, <2>2
  <2> QED BY <2>1, <2>2
<1>3. wr'.fifo = kept \o arrives
  BY DEF WriteEdge
<1>4. wr'.fifo \in Seq(Word) /\ Len(wr'.fifo) <= WriteDepth
  <2> HIDE DEF kept
  <2>1. wr'.fifo \in Seq(Word) /\ Len(wr'.fifo) = Len(kept) + Len(arrives)
    <3>1. kept \in Seq(Word) /\ arrives \in Seq(Word)
      BY ONLY <1>2, <1>a
    <3> QED
      BY ONLY <1>3, <3>1
  <2>2. Len(kept) \in Nat /\ Len(wr.fifo) \in Nat
    BY <1>1, <1>2
  <2>3. SinkReady => Len(wr.fifo) < WriteDepth
    BY DEF SinkReady
  <2> QED BY <1>1, <1>2, <2>1, <2>2, <2>3 DEF WriteMasterAssumption
<1>5. wr'.left \in Nat
  <2>1. WrCompleted(waits) => wr.left - 1 \in Nat
    BY <1>1 DEF WrCompleted, WrWrite, WrDone
  <2>2. go => Length[cmd] \in Nat
    BY DEF DescriptorsAssumption
  <2> QED BY <1>1, <2>1, <2>2 DEF WriteEdge
<1>6. wr'.desc \in Descs \cup {NoDesc} /\ wr'.finished \in Descs \cup {NoDesc}
  BY <1>1 DEF WriteEdge
<1>7. /\ wr'.ready \in BOOLEAN /\ wr'.stopped \in BOOLEAN
      /\ wr'.response \in BOOLEAN /\ wr'.done \in BOOLEAN
      /\ wr'.taken \in BOOLEAN
  <2>1. DoneStrobe \in BOOLEAN /\ WrDone \in BOOLEAN
    BY DEF DoneStrobe, WrDone
  <2> QED BY <2>1 DEF WriteEdge
<1>8. wr' = [ready |-> wr'.ready, desc |-> wr'.desc, left |-> wr'.left,
             fifo |-> wr'.fifo, stopped |-> wr'.stopped,
             response |-> wr'.response, done |-> wr'.done,
             taken |-> wr'.taken, finished |-> wr'.finished]
  BY DEF WriteEdge
<1> QED BY <1>4, <1>5, <1>6, <1>7, <1>8 DEF WrTypeOK

----------------------------------------------------------------------------
LEMMA InitRoom == Init => IInv
<1> USE DescriptorsAssumption, ReadMasterAssumption, WriteMasterAssumption,
        DispatcherAssumption
<1> SUFFICES ASSUME Init PROVE IInv
  OBVIOUS
<1>1. DispatcherTypeOK
  <2>1. /\ queue = [m \in Masters |-> <<>>]
        /\ head = [m \in Masters |-> <<NoDesc, NoDesc>>]
        /\ control = Off
        /\ swReset = FALSE /\ mask = FALSE /\ irq = FALSE
    BY DEF Init, DispatcherInit
  <2>2. \A m \in Masters : queue[m] = <<>>
    BY <2>1
  <2>3. /\ queue \in [Masters -> Seq(Descs)]
        /\ \A m \in Masters : Len(queue[m]) <= QueueDepth
    BY <2>1, <2>2 DEF DispatcherAssumption
  <2>4. head \in [Masters -> [1 .. 2 -> Descs \cup {NoDesc}]]
    <3>1. <<NoDesc, NoDesc>> \in [1 .. 2 -> Descs \cup {NoDesc}]
      OBVIOUS
    <3> QED BY <2>1, <3>1
  <2>5. control \in Control
    BY <2>1 DEF Off, Control
  <2> QED BY <2>1, <2>3, <2>4, <2>5 DEF DispatcherTypeOK
<1>2. RdTypeOK /\ RequestHasRoom /\ ReadsHaveRoom
  BY DEF Init, RdInit, RdTypeOK, RequestHasRoom, ReadsHaveRoom, Occupied,
         ReadMasterAssumption
<1>3. WrTypeOK
  BY DEF Init, WrInit, WrTypeOK, WriteMasterAssumption
<1> QED BY <1>1, <1>2, <1>3 DEF IInv, TypeOK, Init

LEMMA StepRoom == IInv /\ [Next]_vars => IInv'
<1> SUFFICES ASSUME IInv, [Next]_vars PROVE IInv'
  OBVIOUS
<1>1. CASE Next
  <2>1. PICK access \in Accesses[host], readWaits \in BOOLEAN, writeWaits \in BOOLEAN,
             returns \in BOOLEAN : Cycle(access, readWaits, writeWaits, returns)
    BY <1>1 DEF Next
  <2>2. /\ DispatcherTypeOK /\ RdTypeOK /\ WrTypeOK
        /\ RequestHasRoom /\ ReadsHaveRoom
    BY DEF IInv, TypeOK
  <2>3. access \in Access
    BY <2>1, SgdmaAssumption DEF IInv, TypeOK, SgdmaAssumption
  <2>4. /\ rd.ready \in BOOLEAN /\ wr.ready \in BOOLEAN
        /\ wr.response \in BOOLEAN /\ control.stop \in BOOLEAN
        /\ swReset \in BOOLEAN
    BY <2>2 DEF RdTypeOK, WrTypeOK, DispatcherTypeOK, Control
  <2>5. Stalled \in BOOLEAN /\ SinkReady \in BOOLEAN
    BY <2>2 DEF Stalled, SinkReady, RdTypeOK
  <2>6. DispatcherTypeOK'
    BY <2>1, <2>2, <2>3, <2>4, <2>5, DispatcherTypes, DispatcherAssumption
       DEF Cycle
  <2>7. \A m \in Masters, ready \in BOOLEAN :
            /\ Issues(m, ready) \in BOOLEAN
            /\ Issues(m, ready) => Command(m) \in Descs
    BY <2>2, IssuedIsDesc DEF Issues, CommandValid
  <2>8. "read" \in Masters /\ "write" \in Masters
    BY DEF Masters
  <2>9. (RdTypeOK /\ RequestHasRoom /\ ReadsHaveRoom)'
    <3> DEFINE go == Issues("read", rd.ready)
    <3>1. ReadEdge(go, Command("read"), control.stop, swReset, readWaits,
                   returns, SinkReady)
      BY <2>1 DEF Cycle
    <3>2. go \in BOOLEAN /\ (go => Command("read") \in Descs)
      BY <2>4, <2>7, <2>8
    <3> HIDE DEF go
    <3>3. /\ readWaits \in BOOLEAN /\ returns \in BOOLEAN
          /\ control.stop \in BOOLEAN /\ swReset \in BOOLEAN
          /\ SinkReady \in BOOLEAN
      BY <2>1, <2>4, <2>5
    <3>4. ReaderClocks(go, Command("read"), control.stop, swReset, readWaits,
                       returns, SinkReady)
      BY ONLY <3>1, <3>2, <3>3 DEF ReaderClocks
    <3>5. ReaderHasRoom
      BY ONLY <2>2 DEF ReaderHasRoom
    <3>6. ReaderHasRoom'
      BY ONLY <3>4, <3>5, ReaderStep
    <3> QED
      BY ONLY <3>6 DEF ReaderHasRoom
  <2>10. /\ Arriving \in Seq(Word)
         /\ Len(Arriving) = IF SinkReady /\ Arriving # <<>> THEN 1 ELSE 0
    <3>1. CASE RdPasses(SinkReady)
      <4>1. rd.fifo \in Seq(Word) /\ rd.fifo # <<>> /\ SinkReady
        BY <2>2, <3>1 DEF RdTypeOK, RdPasses
      <4>2. Head(rd.fifo) \in Word
        BY <4>1
      <4> QED BY <3>1, <4>1, <4>2 DEF Arriving
    <3>2. CASE ~RdPasses(SinkReady)
      BY <3>2 DEF Arriving
    <3> QED BY <3>1, <3>2
  <2>11. WrTypeOK'
    <3> DEFINE go == Issues("write", wr.ready)
    <3>1. WriteEdge(go, Command("write"), control.stop, swReset, writeWaits,
                    Arriving)
      BY <2>1 DEF Cycle
    <3>2. go \in BOOLEAN /\ (go => Command("write") \in Descs)
      BY <2>4, <2>7, <2>8
    <3> HIDE DEF go
    <3>3. /\ writeWaits \in BOOLEAN
          /\ control.stop \in BOOLEAN /\ swReset \in BOOLEAN
      BY <2>1, <2>4
    <3>4. WriterClocks(go, Command("write"), control.stop, swReset, writeWaits,
                       Arriving)
      BY ONLY <2>10, <3>1, <3>2, <3>3 DEF WriterClocks
    <3>5. WrTypeOK
      BY ONLY <2>2
    <3> QED
      BY ONLY <3>4, <3>5, WriterTypes
  <2>12. (host \in Hosts)'
    BY <2>1 DEF Cycle, IInv, TypeOK
  <2> QED BY <2>6, <2>9, <2>11, <2>12 DEF IInv, TypeOK
<1>2. CASE UNCHANGED vars
  <2>1. /\ rd' = rd /\ wr' = wr /\ host' = host
        /\ queue' = queue /\ head' = head /\ control' = control
        /\ swReset' = swReset /\ mask' = mask /\ irq' = irq
    BY <1>2 DEF vars, dispatcherVars
  <2> QED BY <2>1 DEF IInv, TypeOK, DispatcherTypeOK, RdTypeOK, WrTypeOK,
                      RequestHasRoom, ReadsHaveRoom, Occupied
<1> QED BY <1>1, <1>2

THEOREM RoomInvariant == Spec => []IInv
BY InitRoom, StepRoom, PTL DEF Spec

\* The queues of descriptors and the FIFO of the write master stay within
\* their depths.
THEOREM SgdmaTypes == Spec => []TypeOK
<1>1. IInv => TypeOK
  BY DEF IInv
<1> QED BY <1>1, RoomInvariant, PTL

\* The words that are requested always have room in the FIFO of the read
\* master: two bursts kept free are enough for a request that comes down late,
\* whatever the memories, the writer, a stop or a reset do.
THEOREM RoomForReads == Spec => []ReadsHaveRoom
<1>1. IInv => ReadsHaveRoom
  BY DEF IInv
<1> QED BY <1>1, RoomInvariant, PTL

----------------------------------------------------------------------------
(* Whose the words are                                                     *)

\* The words on their way, the next one to be written first.
Line == wr.fifo \o rd.fifo \o rd.pending

\* What a master has in hand and in its queue.
ListOf(left, desc, waiting) == IF left = 0 THEN waiting ELSE <<desc>> \o waiting
WrList == ListOf(wr.left, wr.desc, queue["write"])
RdList == ListOf(rd.left, rd.desc, queue["read"])

\* How many words it has done of the transfer in hand.
SoFar(left, desc) == IF left = 0 THEN 0 ELSE Length[desc] - left

\* The n transfers W are before the writer, which has written w words of the
\* first, and the m last ones of them, R, before the reader, which has asked
\* for r words of the first; the p words P are between them.  off[k] words are
\* between the writer and the transfer W[k].
Between(W, R, P, w, r, off, n, m, p) ==
    /\ n \in Nat /\ m \in Nat /\ p \in Nat /\ w \in Nat /\ r \in Nat
    /\ m <= n
    /\ \A k \in 1 .. n : Length[W[k]] \in Nat /\ Length[W[k]] > 0
    /\ \A k \in 1 .. n + 1 : off[k] \in Int
    /\ off[1] = 0 - w
    /\ \A k \in 1 .. n : off[k + 1] = off[k] + Length[W[k]]
    /\ \A k \in 1 .. n : \A l \in 1 .. n + 1 :
           k < l => off[k] + Length[W[k]] <= off[l]
    /\ \A i \in 1 .. m : R[i] = W[n - m + i]
    /\ m = 0 => r = 0
    /\ m > 0 => r < Length[R[1]]
    /\ n = 0 => w = 0
    /\ n > 0 => w < Length[W[1]]
    /\ p = off[n - m + 1] + r
    /\ \A k \in 1 .. n : \A i \in 1 .. Length[W[k]] :
           off[k] + i \in 1 .. p => P[off[k] + i] = <<W[k], i>>

InStep(W, R, P, w, r) ==
    /\ W \in Seq(Descs) /\ R \in Seq(Descs) /\ P \in Seq(Word)
    /\ \E off : Between(W, R, P, w, r, off, Len(W), Len(R), Len(P))

\* E are the next c words of the first transfer of R.
Asks(R, r, c, E) ==
    /\ R # <<>> /\ c \in Nat /\ c > 0 /\ r + c <= Length[R[1]]
    /\ E \in Seq(Word) /\ Len(E) = c
    /\ \A i \in 1 .. c : E[i] = <<R[1], r + i>>

\* Q is P and then the words of the transfer d after the first r.
Grown(P, Q, p, c, d, r) ==
    /\ \A j \in 1 .. p : Q[j] = P[j]
    /\ \A i \in 1 .. c : Q[p + i] = <<d, r + i>>

Rest(s, t, n) == \A k \in 1 .. n - 1 : t[k] = s[k + 1]

\* The words that are added are those that the content says.
LEMMA ContentGrows ==
    ASSUME NEW W, NEW R, NEW P, NEW w, NEW r, NEW off, NEW n, NEW m, NEW p,
           Between(W, R, P, w, r, off, n, m, p), m > 0,
           NEW c \in Nat, r + c <= Length[R[1]],
           NEW Q, Grown(P, Q, p, c, R[1], r)
    PROVE  \A k \in 1 .. n : \A i \in 1 .. Length[W[k]] :
               off[k] + i \in 1 .. p + c => Q[off[k] + i] = <<W[k], i>>
<1>0. n \in Nat /\ m \in Nat /\ p \in Nat /\ r \in Nat /\ m <= n
  BY DEF Between
<1>1. PICK h \in 1 .. n : h = n - m + 1
  BY <1>0
<1>2. R[1] = W[h]
  <2>1. 1 \in 1 .. m /\ n - m + 1 = h
    BY <1>0, <1>1
  <2>2. \A i \in 1 .. m : R[i] = W[n - m + i]
    BY DEF Between
  <2> QED
    BY <2>1, <2>2
<1>3. \A k \in 1 .. n : Length[W[k]] \in Nat
  BY DEF Between
<1>4. \A k \in 1 .. n + 1 : off[k] \in Int
  BY DEF Between
<1>5. PICK f \in Int : f = off[h]
  BY <1>0, <1>1, <1>4
<1>6. PICK b \in Nat : b = Length[W[h]]
  BY <1>1, <1>3
<1>7. p = f + r /\ r + c <= b
  <2>1. p = off[n - m + 1] + r
    BY DEF Between
  <2> QED
    BY <1>1, <1>2, <1>5, <1>6, <2>1
<1> SUFFICES ASSUME NEW k \in 1 .. n, NEW i \in 1 .. Length[W[k]],
                    off[k] + i \in 1 .. p + c
             PROVE  Q[off[k] + i] = <<W[k], i>>
  OBVIOUS
<1>8. PICK o \in Int : o = off[k]
  BY <1>0, <1>4
<1>9. PICK g \in Nat : g = Length[W[k]]
  BY <1>3
<1>10. i \in Nat /\ 1 <= i /\ i <= g /\ o + i >= 1 /\ o + i <= p + c
  BY <1>0, <1>8, <1>9
<1>11. CASE o + i <= p
  <2>1. off[k] + i \in 1 .. p /\ o + i \in 1 .. p
    BY <1>0, <1>8, <1>10, <1>11
  <2>2. P[off[k] + i] = <<W[k], i>>
    BY <2>1 DEF Between
  <2> QED
    BY <2>1, <2>2 DEF Grown
<1>12. CASE ~(o + i <= p)
  <2>1. ~(k < h)
    <3>1. k < h => off[k] + Length[W[k]] <= off[h]
      BY <1>0, <1>1 DEF Between
    <3>2. k < h => o + g <= f
      BY <1>5, <1>8, <1>9, <3>1
    <3> QED
      BY <1>0, <1>7, <1>10, <1>12, <3>2
  <2>2. ~(h < k)
    <3>1. h < k => off[h] + Length[W[h]] <= off[k]
      BY <1>0, <1>1 DEF Between
    <3>2. h < k => f + b <= o
      BY <1>5, <1>6, <1>8, <3>1
    <3> QED
      BY <1>0, <1>7, <1>10, <3>2
  <2>3. k = h
    BY <1>0, <1>1, <2>1, <2>2
  <2>4. o = f
    BY <1>5, <1>8, <2>3
  <2>5. PICK j \in 1 .. c : j = i - r
    BY <1>0, <1>7, <1>10, <1>12, <2>4
  <2>6. off[k] + i = p + j /\ i = r + j
    BY <1>0, <1>7, <1>8, <1>10, <2>4, <2>5
  <2>7. Q[p + j] = <<R[1], r + j>>
    BY DEF Grown
  <2> QED
    BY <1>2, <2>3, <2>6, <2>7
<1> QED
  BY <1>11, <1>12

\* The reader goes on with a transfer,
LEMMA ReadOn ==
    ASSUME NEW W, NEW R, NEW P, NEW w, NEW r, NEW off, NEW n, NEW m, NEW p,
           Between(W, R, P, w, r, off, n, m, p), m > 0,
           NEW c \in Nat, r + c < Length[R[1]],
           NEW Q, Grown(P, Q, p, c, R[1], r)
    PROVE  Between(W, R, Q, w, r + c, off, n, m, p + c)
<1>0. n \in Nat /\ m \in Nat /\ p \in Nat /\ r \in Nat /\ m <= n
  BY DEF Between
<1>1. Length[R[1]] \in Nat
  <2>1. 1 \in 1 .. m /\ n - m + 1 \in 1 .. n
    BY <1>0
  <2>2. R[1] = W[n - m + 1]
    BY <2>1 DEF Between
  <2> QED
    BY <2>1, <2>2 DEF Between
<1>2. r + c <= Length[R[1]]
  BY <1>0, <1>1
<1>3. \A k \in 1 .. n : \A i \in 1 .. Length[W[k]] :
          off[k] + i \in 1 .. p + c => Q[off[k] + i] = <<W[k], i>>
  BY <1>2, ContentGrows
<1>4. p + c = off[n - m + 1] + (r + c)
  <2>1. p = off[n - m + 1] + r /\ n - m + 1 \in 1 .. n + 1
    BY <1>0 DEF Between
  <2>2. off[n - m + 1] \in Int
    BY <2>1 DEF Between
  <2> QED
    BY <1>0, <2>1, <2>2
<1>5. r + c \in Nat /\ p + c \in Nat /\ ~(m = 0)
  BY <1>0
<1> QED
  BY <1>3, <1>4, <1>5 DEF Between

\* or ends it.
LEMMA ReadLast ==
    ASSUME NEW W, NEW R, NEW P, NEW w, NEW r, NEW off, NEW n, NEW m, NEW p,
           Between(W, R, P, w, r, off, n, m, p), m > 0,
           NEW c \in Nat, r + c = Length[R[1]],
           NEW Q, Grown(P, Q, p, c, R[1], r), NEW S, Rest(R, S, m)
    PROVE  Between(W, S, Q, w, 0, off, n, m - 1, p + c)
<1>0. n \in Nat /\ m \in Nat /\ p \in Nat /\ r \in Nat /\ m <= n
  BY DEF Between
<1>1. PICK h \in 1 .. n : h = n - m + 1
  BY <1>0
<1>2. R[1] = W[h]
  <2>1. 1 \in 1 .. m /\ n - m + 1 = h
    BY <1>0, <1>1
  <2>2. \A i \in 1 .. m : R[i] = W[n - m + i]
    BY DEF Between
  <2> QED
    BY <2>1, <2>2
<1>3. r + c <= Length[R[1]]
  BY <1>0
<1>4. \A k \in 1 .. n : \A i \in 1 .. Length[W[k]] :
          off[k] + i \in 1 .. p + c => Q[off[k] + i] = <<W[k], i>>
  BY <1>3, ContentGrows
<1>5. PICK s \in Nat : s = m - 1
  BY <1>0
<1>6. p + c = off[n - s + 1] + 0
  <2>1. p = off[h] + r
    BY <1>1 DEF Between
  <2>2. off[h + 1] = off[h] + Length[W[h]]
    BY DEF Between
  <2>3. off[h] \in Int
    BY <1>0, <1>1 DEF Between
  <2>4. n - s + 1 = h + 1
    BY <1>0, <1>1, <1>5
  <2>5. off[h + 1] = p + c
    BY <1>0, <1>2, <2>1, <2>2, <2>3
  <2> QED
    BY <1>0, <2>4, <2>5
<1>7. ASSUME NEW i \in 1 .. s PROVE S[i] = W[n - s + i]
  <2>1. i + 1 \in 1 .. m /\ i \in 1 .. m - 1
    BY <1>0, <1>5
  <2>2. R[i + 1] = W[n - m + (i + 1)]
    BY <2>1 DEF Between
  <2>3. n - m + (i + 1) = n - s + i
    BY <1>0, <1>5
  <2> QED
    BY <2>1, <2>2, <2>3 DEF Rest
<1>8. s > 0 => 0 < Length[S[1]]
  <2>1. ASSUME s > 0 PROVE 0 < Length[S[1]]
    <3>1. 1 \in 1 .. s /\ n - s + 1 \in 1 .. n
      BY <1>0, <1>5, <2>1
    <3>2. S[1] = W[n - s + 1]
      BY <1>7, <3>1
    <3>3. Length[W[n - s + 1]] \in Nat /\ Length[W[n - s + 1]] > 0
      BY <3>1 DEF Between
    <3> QED
      BY <3>2, <3>3
  <2> QED
    BY <2>1
<1>9. p + c \in Nat /\ s <= n /\ 0 \in Nat
  BY <1>0, <1>5
<1>10. Between(W, S, Q, w, 0, off, n, s, p + c)
  BY <1>4, <1>6, <1>7, <1>8, <1>9 DEF Between
<1> QED
  BY <1>5, <1>10

\* The writer takes the first word, and its transfer goes on,
LEMMA WriteOn ==
    ASSUME NEW W, NEW R, NEW P, NEW w, NEW r, NEW off, NEW n, NEW m, NEW p,
           Between(W, R, P, w, r, off, n, m, p), n > 0, p > 0,
           w + 1 # Length[W[1]], NEW T, Rest(P, T, p)
    PROVE  \E new : Between(W, R, T, w + 1, r, new, n, m, p - 1)
<1>0. n \in Nat /\ m \in Nat /\ p \in Nat /\ w \in Nat /\ m <= n
  BY DEF Between
<1>1. \A k \in 1 .. n : Length[W[k]] \in Nat
  BY DEF Between
<1>2. \A k \in 1 .. n + 1 : off[k] \in Int
  BY DEF Between
<1>3. PICK new : new = [k \in 1 .. n + 1 |-> off[k] - 1]
  OBVIOUS
<1>4. \A k \in 1 .. n + 1 : new[k] = off[k] - 1 /\ new[k] \in Int
  BY <1>2, <1>3
<1>5. new[1] = 0 - (w + 1)
  <2>1. 1 \in 1 .. n + 1 /\ off[1] = 0 - w
    BY <1>0 DEF Between
  <2> QED
    BY <1>0, <1>4, <2>1
<1>6. ASSUME NEW k \in 1 .. n PROVE new[k + 1] = new[k] + Length[W[k]]
  <2>1. k \in 1 .. n + 1 /\ k + 1 \in 1 .. n + 1
    BY <1>0
  <2>2. off[k + 1] = off[k] + Length[W[k]]
    BY DEF Between
  <2> QED
    BY <1>1, <1>2, <1>4, <2>1, <2>2
<1>7. ASSUME NEW k \in 1 .. n, NEW l \in 1 .. n + 1, k < l
      PROVE  new[k] + Length[W[k]] <= new[l]
  <2>1. k \in 1 .. n + 1
    BY <1>0
  <2>2. off[k] + Length[W[k]] <= off[l]
    BY <1>7 DEF Between
  <2> QED
    BY <1>1, <1>2, <1>4, <2>1, <2>2
<1>8. w + 1 < Length[W[1]]
  <2>1. w < Length[W[1]] /\ 1 \in 1 .. n
    BY <1>0 DEF Between
  <2> QED
    BY <1>0, <1>1, <2>1
<1>9. p - 1 = new[n - m + 1] + r
  <2>1. n - m + 1 \in 1 .. n + 1 /\ p = off[n - m + 1] + r /\ r \in Nat
    BY <1>0 DEF Between
  <2> QED
    BY <1>0, <1>2, <1>4, <2>1
<1>10. ASSUME NEW k \in 1 .. n, NEW i \in 1 .. Length[W[k]],
              new[k] + i \in 1 .. p - 1
       PROVE  T[new[k] + i] = <<W[k], i>>
  <2>1. PICK o \in Int : o = new[k]
    BY <1>0, <1>4
  <2>2. off[k] = o + 1
    BY <1>0, <1>2, <1>4, <2>1
  <2>3. i \in Nat /\ o + i \in 1 .. p - 1
    BY <1>1, <1>10, <2>1
  <2>4. off[k] + i \in 1 .. p /\ off[k] + i = (o + i) + 1
    BY <1>0, <2>2, <2>3
  <2>5. P[off[k] + i] = <<W[k], i>>
    BY <2>4 DEF Between
  <2>6. T[o + i] = P[(o + i) + 1]
    BY <2>3 DEF Rest
  <2> QED
    BY <2>1, <2>4, <2>5, <2>6
<1>11. w + 1 \in Nat /\ p - 1 \in Nat /\ ~(n = 0)
  BY <1>0
<1>12. \A k \in 1 .. n + 1 : new[k] \in Int
  BY <1>4
<1>13. Between(W, R, T, w + 1, r, new, n, m, p - 1)
  BY <1>5, <1>6, <1>7, <1>8, <1>9, <1>10, <1>11, <1>12 DEF Between
<1> QED
  BY <1>13

\* or ends: the reader has ended it before.
LEMMA WriteLast ==
    ASSUME NEW W, NEW R, NEW P, NEW w, NEW r, NEW off, NEW n, NEW m, NEW p,
           Between(W, R, P, w, r, off, n, m, p), n > 0, p > 0,
           w + 1 = Length[W[1]], NEW T, Rest(P, T, p), NEW V, Rest(W, V, n)
    PROVE  \E new : Between(V, R, T, 0, r, new, n - 1, m, p - 1)
<1>0. n \in Nat /\ m \in Nat /\ p \in Nat /\ w \in Nat /\ r \in Nat /\ m <= n
  BY DEF Between
<1>1. \A k \in 1 .. n : Length[W[k]] \in Nat /\ Length[W[k]] > 0
  BY DEF Between
<1>2. \A k \in 1 .. n + 1 : off[k] \in Int
  BY DEF Between
<1>3. PICK v \in Nat : v = n - 1
  BY <1>0
<1>a. n = v + 1
  BY <1>0, <1>3
<1>4. \A k \in 1 .. v : V[k] = W[k + 1] /\ k + 1 \in 1 .. n /\ k \in 1 .. n
  BY <1>0, <1>3 DEF Rest
<1>5. PICK new : new = [k \in 1 .. n |-> off[k + 1] - 1]
  OBVIOUS
<1>6. \A k \in 1 .. v + 1 : /\ k \in 1 .. n /\ k + 1 \in 1 .. n + 1
                            /\ new[k] = off[k + 1] - 1 /\ new[k] \in Int
  <2>1. ASSUME NEW k \in 1 .. v + 1
        PROVE  k \in 1 .. n /\ k + 1 \in 1 .. n + 1
    BY <1>3, <1>a
  <2>2. ASSUME NEW k \in 1 .. v + 1
        PROVE  new[k] = off[k + 1] - 1 /\ off[k + 1] - 1 \in Int
    <3>1. k \in 1 .. n
      BY ONLY <2>1
    <3>2. new[k] = off[k + 1] - 1
      BY ONLY <1>5, <3>1
    <3>3. off[k + 1] \in Int
      BY ONLY <1>2, <2>1
    <3> QED
      BY ONLY <3>2, <3>3
  <2> QED
    BY ONLY <2>1, <2>2
<1>7. off[1] = 0 - w /\ off[2] = 1
  <2>1. off[1] = 0 - w /\ 1 \in 1 .. n
    BY <1>0 DEF Between
  <2>2. off[1 + 1] = off[1] + Length[W[1]]
    BY <2>1 DEF Between
  <2> QED
    BY <1>0, <2>1, <2>2
<1>8. new[1] = 0
  <2>1. 1 \in 1 .. v + 1
    BY <1>3
  <2> QED
    BY <1>6, <1>7, <2>1
<1>9. m <= v
  <2>1. ASSUME m = n PROVE FALSE
    <3>1. 1 \in 1 .. m /\ n - m + 1 = 1 /\ m > 0
      BY <1>0, <2>1
    <3>2. R[1] = W[1]
      BY <3>1 DEF Between
    <3>3. r < w + 1
      BY <3>1, <3>2 DEF Between
    <3>4. p = off[1] + r
      BY <3>1 DEF Between
    <3> QED
      BY <1>0, <1>7, <3>3, <3>4
  <2> QED
    BY <1>0, <1>a, <2>1
<1>10. ASSUME NEW k \in 1 .. v PROVE new[k + 1] = new[k] + Length[V[k]]
  <2>1. k \in 1 .. v + 1 /\ k + 1 \in 1 .. v + 1
    BY <1>3
  <2>2. off[(k + 1) + 1] = off[k + 1] + Length[W[k + 1]]
    BY <1>4 DEF Between
  <2>3. off[k + 1] \in Int /\ off[(k + 1) + 1] \in Int /\ Length[W[k + 1]] \in Nat
    BY <1>1, <1>2, <1>4, <1>6, <2>1
  <2> QED
    BY <1>4, <1>6, <2>1, <2>2, <2>3
<1>11. ASSUME NEW k \in 1 .. v, NEW l \in 1 .. v + 1, k < l
       PROVE  new[k] + Length[V[k]] <= new[l]
  <2>1. k \in 1 .. v + 1 /\ k + 1 < l + 1
    BY <1>3, <1>11
  <2>2. off[k + 1] + Length[W[k + 1]] <= off[l + 1]
    BY <1>4, <1>6, <2>1 DEF Between
  <2>3. off[k + 1] \in Int /\ off[l + 1] \in Int /\ Length[W[k + 1]] \in Nat
    BY <1>1, <1>2, <1>4, <1>6, <2>1
  <2> QED
    BY <1>4, <1>6, <2>1, <2>2, <2>3
<1>12. ASSUME NEW i \in 1 .. m PROVE R[i] = V[v - m + i]
  <2>1. R[i] = W[n - m + i]
    BY DEF Between
  <2>2. v - m + i \in 1 .. v /\ n - m + i = (v - m + i) + 1
    BY <1>0, <1>3, <1>9, <1>a
  <2> QED
    BY <1>4, <2>1, <2>2
<1>13. p - 1 = new[v - m + 1] + r
  <2>1. p = off[n - m + 1] + r
    BY DEF Between
  <2>2. v - m + 1 \in 1 .. v + 1 /\ n - m + 1 = (v - m + 1) + 1
    BY <1>0, <1>3, <1>9, <1>a
  <2>3. off[n - m + 1] \in Int
    BY <1>2, <1>6, <2>2
  <2> QED
    BY <1>0, <1>6, <2>1, <2>2, <2>3
<1>14. ASSUME NEW k \in 1 .. v, NEW i \in 1 .. Length[V[k]],
              new[k] + i \in 1 .. p - 1
       PROVE  T[new[k] + i] = <<V[k], i>>
  <2>0. k \in 1 .. v + 1
    BY <1>3
  <2>1. PICK o \in Int : o = new[k]
    BY <1>6, <2>0
  <2>2. off[k + 1] = o + 1
    <3>1. off[k + 1] \in Int /\ new[k] = off[k + 1] - 1
      BY <1>2, <1>6, <2>0
    <3> QED
      BY <2>1, <3>1
  <2>3. i \in Nat /\ o + i \in 1 .. p - 1
    BY <1>1, <1>4, <1>14, <2>1
  <2>4. off[k + 1] + i \in 1 .. p /\ off[k + 1] + i = (o + i) + 1
    BY <1>0, <2>1, <2>2, <2>3
  <2>5. P[off[k + 1] + i] = <<W[k + 1], i>>
    BY <1>4, <2>4 DEF Between
  <2>6. T[o + i] = P[(o + i) + 1]
    BY <2>3 DEF Rest
  <2> QED
    BY <1>4, <2>1, <2>4, <2>5, <2>6
<1>15. p - 1 \in Nat /\ 0 \in Nat /\ new[1] = 0 - 0
  BY <1>0, <1>8
<1>16. \A k \in 1 .. v + 1 : new[k] \in Int
  BY <1>6
<1>17. \A k \in 1 .. v : Length[V[k]] \in Nat /\ Length[V[k]] > 0
  BY <1>1, <1>4
<1>18. v > 0 => 0 < Length[V[1]]
  <2>1. v > 0 => 1 \in 1 .. v
    BY <1>3
  <2> QED
    BY <1>17, <2>1
<1>19. Between(V, R, T, 0, r, new, v, m, p - 1)
  BY <1>0, <1>3, <1>9, <1>10, <1>11, <1>12, <1>13, <1>14, <1>15, <1>16, <1>17, <1>18
  DEF Between
<1> QED
  BY <1>3, <1>19

\* A transfer is queued for both.
LEMMA PushOn ==
    ASSUME NEW W, NEW R, NEW P, NEW w, NEW r, NEW off, NEW n, NEW m, NEW p,
           Between(W, R, P, w, r, off, n, m, p), NEW d \in Descs,
           NEW V, \A k \in 1 .. n : V[k] = W[k], V[n + 1] = d,
           NEW S, \A i \in 1 .. m : S[i] = R[i], S[m + 1] = d
    PROVE  \E new : Between(V, S, P, w, r, new, n + 1, m + 1, p)
<1>0. n \in Nat /\ m \in Nat /\ p \in Nat /\ w \in Nat /\ r \in Nat /\ m <= n
  BY DEF Between
<1>1. \A k \in 1 .. n : Length[W[k]] \in Nat /\ Length[W[k]] > 0
  BY DEF Between
<1>2. \A k \in 1 .. n + 1 : off[k] \in Int
  BY DEF Between
<1>3. PICK g \in Nat : g = Length[d] /\ g > 0
  BY DescriptorsAssumption
<1>4. PICK f \in Int : f = off[n + 1]
  BY <1>0, <1>2
<1>5. PICK new : new = [k \in 1 .. n + 2 |-> IF k = n + 2 THEN f + g ELSE off[k]]
  OBVIOUS
<1>6. \A k \in 1 .. n + 1 : new[k] = off[k] /\ new[k] \in Int
  <2>1. \A k \in 1 .. n + 1 : k \in 1 .. n + 2 /\ k # n + 2
    BY <1>0
  <2> QED
    BY <1>2, <1>5, <2>1
<1>7. new[n + 2] = f + g /\ new[n + 1] = f
  <2>1. n + 2 \in 1 .. n + 2 /\ n + 1 \in 1 .. n + 1
    BY <1>0
  <2> QED
    BY <1>4, <1>5, <1>6, <2>1
<1>8. \A k \in 1 .. n + 1 : \/ k \in 1 .. n
                            \/ k = n + 1
  BY <1>0
<1>9. \A k \in 1 .. n : k \in 1 .. n + 1 /\ k + 1 \in 1 .. n + 1
  BY <1>0
<1>10. p <= f
  <2>1. p = off[n - m + 1] + r
    BY DEF Between
  <2>2. CASE m = 0
    <3>1. r = 0 /\ n - m + 1 = n + 1
      BY <1>0, <2>2 DEF Between
    <3> QED
      BY <1>4, <2>1, <3>1
  <2>3. CASE m # 0
    <3>1. PICK h \in 1 .. n : h = n - m + 1
      BY <1>0, <2>3
    <3>2. 1 \in 1 .. m /\ m > 0 /\ n + 1 \in 1 .. n + 1 /\ h < n + 1
      BY <1>0, <2>3
    <3>3. R[1] = W[h]
      BY <3>1, <3>2 DEF Between
    <3>4. r < Length[W[h]]
      BY <3>2, <3>3 DEF Between
    <3>5. off[h] + Length[W[h]] <= off[n + 1]
      BY <3>2 DEF Between
    <3>6. off[h] \in Int /\ Length[W[h]] \in Nat /\ p = off[h] + r
      BY <1>1, <1>2, <1>9, <2>1, <3>1
    <3> QED
      BY <1>0, <1>4, <3>4, <3>5, <3>6
  <2> QED
    BY <2>2, <2>3
<1>11. \A k \in 1 .. n + 1 : Length[V[k]] \in Nat /\ Length[V[k]] > 0
  BY <1>1, <1>3, <1>8
<1>12. \A k \in 1 .. (n + 1) + 1 : new[k] \in Int
  <2>1. \A k \in 1 .. (n + 1) + 1 : k \in 1 .. n + 1 \/ k = n + 2
    BY <1>0
  <2> QED
    BY <1>3, <1>4, <1>6, <1>7, <2>1
<1>13. new[1] = 0 - w
  <2>1. 1 \in 1 .. n + 1
    BY <1>0
  <2> QED
    BY <1>6, <2>1 DEF Between
<1>14. ASSUME NEW k \in 1 .. n + 1 PROVE new[k + 1] = new[k] + Length[V[k]]
  <2>1. CASE k \in 1 .. n
    <3>1. off[k + 1] = off[k] + Length[W[k]]
      BY <2>1 DEF Between
    <3> QED
      BY <1>6, <1>9, <2>1, <3>1
  <2>2. CASE k = n + 1
    <3>1. k + 1 = n + 2
      BY <1>0, <2>2
    <3> QED
      BY <1>3, <1>7, <2>2, <3>1
  <2> QED
    BY <1>8, <2>1, <2>2
<1>15. ASSUME NEW k \in 1 .. n + 1, NEW l \in 1 .. (n + 1) + 1, k < l
       PROVE  new[k] + Length[V[k]] <= new[l]
  <2>1. CASE k \in 1 .. n /\ l \in 1 .. n + 1
    <3>1. off[k] + Length[W[k]] <= off[l]
      BY <1>15, <2>1 DEF Between
    <3> QED
      BY <1>6, <1>9, <2>1, <3>1
  <2>2. CASE k \in 1 .. n /\ l = n + 2
    <3>1. n + 1 \in 1 .. n + 1 /\ k < n + 1
      BY <1>0, <2>2
    <3>2. off[k] + Length[W[k]] <= off[n + 1]
      BY <2>2, <3>1 DEF Between
    <3>3. new[k] + Length[V[k]] <= f
      BY <1>4, <1>6, <1>9, <2>2, <3>2
    <3>4. new[k] \in Int /\ Length[V[k]] \in Nat
      BY <1>6, <1>11
    <3> QED
      BY <1>3, <1>4, <1>7, <2>2, <3>3, <3>4
  <2>3. CASE k = n + 1
    <3>1. l = n + 2
      BY <1>0, <1>15, <2>3
    <3> QED
      BY <1>3, <1>4, <1>7, <2>3, <3>1
  <2>4. l \in 1 .. n + 1 \/ l = n + 2
    BY <1>0
  <2> QED
    BY <1>8, <2>1, <2>2, <2>3, <2>4
<1>16. ASSUME NEW i \in 1 .. m + 1 PROVE S[i] = V[(n + 1) - (m + 1) + i]
  <2>1. CASE i \in 1 .. m
    <3>1. R[i] = W[n - m + i] /\ n - m + i \in 1 .. n
      BY <1>0, <2>1 DEF Between
    <3>2. (n + 1) - (m + 1) + i = n - m + i
      BY <1>0
    <3> QED
      BY <2>1, <3>1, <3>2
  <2>2. CASE i = m + 1
    <3>1. (n + 1) - (m + 1) + i = n + 1
      BY <1>0, <2>2
    <3> QED
      BY <2>2, <3>1
  <2> QED
    BY <1>0, <2>1, <2>2
<1>17. r < Length[S[1]]
  <2>1. CASE m = 0
    <3>1. r = 0 /\ S[1] = d
      BY <2>1 DEF Between
    <3> QED
      BY <1>3, <3>1
  <2>2. CASE m # 0
    <3>1. 1 \in 1 .. m /\ m > 0
      BY <1>0, <2>2
    <3> QED
      BY <3>1 DEF Between
  <2> QED
    BY <2>1, <2>2
<1>18. w < Length[V[1]]
  <2>1. CASE n = 0
    <3>1. w = 0 /\ V[1] = d
      BY <2>1 DEF Between
    <3> QED
      BY <1>3, <3>1
  <2>2. CASE n # 0
    <3>1. 1 \in 1 .. n /\ n > 0
      BY <1>0, <2>2
    <3> QED
      BY <3>1 DEF Between
  <2> QED
    BY <2>1, <2>2
<1>19. p = new[(n + 1) - (m + 1) + 1] + r
  <2>1. (n + 1) - (m + 1) + 1 = n - m + 1 /\ n - m + 1 \in 1 .. n + 1
    BY <1>0
  <2> QED
    BY <1>6, <2>1 DEF Between
<1>20. ASSUME NEW k \in 1 .. n + 1, NEW i \in 1 .. Length[V[k]],
              new[k] + i \in 1 .. p
       PROVE  P[new[k] + i] = <<V[k], i>>
  <2>1. CASE k \in 1 .. n
    <3>1. off[k] + i \in 1 .. p => P[off[k] + i] = <<W[k], i>>
      BY <2>1 DEF Between
    <3> QED
      BY <1>6, <1>9, <1>20, <2>1, <3>1
  <2>2. CASE k = n + 1
    <3>1. i \in Nat /\ i >= 1
      BY <1>11
    <3>2. new[k] = f /\ f + i <= p
      BY <1>7, <1>20, <2>2
    <3> QED
      BY <1>0, <1>4, <1>10, <3>1, <3>2
  <2> QED
    BY <1>8, <2>1, <2>2
<1>21. n + 1 \in Nat /\ m + 1 \in Nat /\ m + 1 <= n + 1
       /\ ~(n + 1 = 0) /\ ~(m + 1 = 0)
  BY <1>0
<1>22. Between(V, S, P, w, r, new, n + 1, m + 1, p)
  BY <1>0, <1>11, <1>12, <1>13, <1>14, <1>15, <1>16, <1>17, <1>18, <1>19, <1>20, <1>21
  DEF Between
<1> QED
  BY <1>22

(* The same of sequences.                                                  *)

LEMMA LenNat == ASSUME NEW A, NEW s \in Seq(A) PROVE Len(s) \in Nat
OBVIOUS

LEMMA TailRest ==
    ASSUME NEW A, NEW s \in Seq(A), s # <<>>
    PROVE  /\ Tail(s) \in Seq(A) /\ Len(Tail(s)) = Len(s) - 1
           /\ Len(s) > 0 /\ Rest(s, Tail(s), Len(s))
<1>1. Len(s) > 0 /\ Len(Tail(s)) = Len(s) - 1 /\ Tail(s) \in Seq(A)
  BY HeadTailProperties, EmptySeq, LenNat
<1>2. \A k \in 1 .. Len(s) - 1 : Tail(s)[k] = s[k + 1]
  BY <1>1, HeadTailProperties
<1> QED
  BY <1>1, <1>2 DEF Rest

\* The first word is the next one of the writer's transfer.
LEMMA FirstIsNext ==
    ASSUME NEW W, NEW R, NEW P, NEW w, NEW r, InStep(W, R, P, w, r),
           W # <<>>, P # <<>>
    PROVE  P[1] = <<W[1], w + 1>>
<1>1. PICK off : Between(W, R, P, w, r, off, Len(W), Len(R), Len(P))
  BY DEF InStep
<1>2. Len(W) > 0 /\ Len(P) > 0
  BY TailRest DEF InStep
<1>3. PICK n : n = Len(W)
  OBVIOUS
<1>4. PICK p : p = Len(P)
  OBVIOUS
<1>5. Between(W, R, P, w, r, off, n, Len(R), p)
  BY <1>1, <1>3, <1>4
<1>6. n \in Nat /\ p \in Nat /\ w \in Nat /\ n > 0 /\ p > 0
  BY <1>2, <1>3, <1>4, <1>5 DEF Between
<1>7. 1 \in 1 .. n /\ off[1] = 0 - w /\ w < Length[W[1]]
  BY <1>5, <1>6 DEF Between
<1>8. Length[W[1]] \in Nat
  BY <1>5, <1>7 DEF Between
<1>9. w + 1 \in 1 .. Length[W[1]] /\ off[1] + (w + 1) = 1 /\ 1 \in 1 .. p
  BY <1>6, <1>7, <1>8
<1>10. P[off[1] + (w + 1)] = <<W[1], w + 1>>
  BY <1>5, <1>7, <1>9 DEF Between
<1> QED
  BY <1>9, <1>10

\* The reader asks for the next c words of its transfer.
LEMMA ReadInStep ==
    ASSUME NEW W, NEW R, NEW P, NEW w, NEW r, InStep(W, R, P, w, r),
           NEW c, NEW E, Asks(R, r, c, E)
    PROVE  IF r + c = Length[R[1]] THEN InStep(W, Tail(R), P \o E, w, 0)
           ELSE InStep(W, R, P \o E, w, r + c)
<1>1. PICK off : Between(W, R, P, w, r, off, Len(W), Len(R), Len(P))
  BY DEF InStep
<1>2. /\ W \in Seq(Descs) /\ R \in Seq(Descs) /\ P \in Seq(Word)
  BY DEF InStep
<1>3. /\ R # <<>> /\ c \in Nat /\ r + c <= Length[R[1]]
      /\ E \in Seq(Word) /\ Len(E) = c
  BY DEF Asks
<1>4. /\ Tail(R) \in Seq(Descs) /\ Len(Tail(R)) = Len(R) - 1
      /\ Len(R) > 0 /\ Rest(R, Tail(R), Len(R))
  BY <1>2, <1>3, TailRest
<1>5. P \o E \in Seq(Word) /\ Len(P \o E) = Len(P) + c
  <2>1. Len(P \o E) = Len(P) + Len(E) /\ P \o E \in Seq(Word)
    BY <1>2, <1>3, ConcatProperties
  <2> QED
    BY <1>3, <2>1
<1>6. Grown(P, P \o E, Len(P), c, R[1], r)
  <2>1. Len(P) \in Nat /\ Len(E) \in Nat
    BY <1>2, <1>3
  <2>2. \A i \in 1 .. Len(P) + Len(E) :
            (P \o E)[i] = IF i <= Len(P) THEN P[i] ELSE E[i - Len(P)]
    BY <1>2, <1>3, ConcatProperties
  <2>3. PICK p \in Nat : p = Len(P)
    BY <2>1
  <2>4. PICK Q : Q = P \o E
    OBVIOUS
  <2>5. \A i \in 1 .. p + c : Q[i] = IF i <= p THEN P[i] ELSE E[i - p]
    BY <1>3, <2>2, <2>3, <2>4
  <2>6. \A j \in 1 .. p : Q[j] = P[j]
    <3>1. ASSUME NEW j \in 1 .. p PROVE Q[j] = P[j]
      <4>1. j \in 1 .. p + c /\ j <= p
        BY <1>3
      <4> QED
        BY <2>5, <4>1
    <3> QED
      BY <3>1
  <2>7. ASSUME NEW i \in 1 .. c PROVE Q[p + i] = <<R[1], r + i>>
    <3>1. p + i \in 1 .. p + c /\ ~(p + i <= p) /\ (p + i) - p = i
      BY <1>3
    <3>2. Q[p + i] = E[i]
      BY <2>5, <3>1
    <3> QED
      BY <3>2 DEF Asks
  <2> QED
    BY <2>3, <2>4, <2>6, <2>7 DEF Grown
<1>7. Len(R) \in Nat /\ Length[R[1]] \in Nat /\ r \in Nat
  <2>1. R[1] \in Descs
    BY <1>2, <1>4
  <2> QED
    BY <1>1, <2>1, DescriptorsAssumption DEF Between
<1>8. CASE r + c = Length[R[1]]
  <2>1. Between(W, Tail(R), P \o E, w, 0, off, Len(W), Len(R) - 1, Len(P) + c)
    BY <1>1, <1>3, <1>4, <1>6, <1>8, ReadLast
  <2>2. InStep(W, Tail(R), P \o E, w, 0)
    BY <1>2, <1>4, <1>5, <2>1 DEF InStep
  <2> QED
    BY <1>8, <2>2
<1>9. CASE r + c # Length[R[1]]
  <2>1. r + c < Length[R[1]]
    BY <1>3, <1>7, <1>9
  <2>2. Between(W, R, P \o E, w, r + c, off, Len(W), Len(R), Len(P) + c)
    BY <1>1, <1>3, <1>4, <1>6, <2>1, ReadOn
  <2>3. InStep(W, R, P \o E, w, r + c)
    BY <1>2, <1>5, <2>2 DEF InStep
  <2> QED
    BY <1>9, <2>3
<1> QED
  BY <1>8, <1>9

\* The writer writes the next word.
LEMMA WriteInStep ==
    ASSUME NEW W, NEW R, NEW P, NEW w, NEW r, InStep(W, R, P, w, r),
           W # <<>>, P # <<>>
    PROVE  IF w + 1 = Length[W[1]] THEN InStep(Tail(W), R, Tail(P), 0, r)
           ELSE InStep(W, R, Tail(P), w + 1, r)
<1>1. PICK off : Between(W, R, P, w, r, off, Len(W), Len(R), Len(P))
  BY DEF InStep
<1>2. /\ W \in Seq(Descs) /\ R \in Seq(Descs) /\ P \in Seq(Word)
  BY DEF InStep
<1>3. /\ Tail(W) \in Seq(Descs) /\ Len(Tail(W)) = Len(W) - 1
      /\ Len(W) > 0 /\ Rest(W, Tail(W), Len(W))
  BY <1>2, TailRest
<1>4. /\ Tail(P) \in Seq(Word) /\ Len(Tail(P)) = Len(P) - 1
      /\ Len(P) > 0 /\ Rest(P, Tail(P), Len(P))
  BY <1>2, TailRest
<1>5. CASE w + 1 = Length[W[1]]
  <2>1. PICK new : Between(Tail(W), R, Tail(P), 0, r, new, Len(W) - 1, Len(R), Len(P) - 1)
    BY <1>1, <1>3, <1>4, <1>5, WriteLast
  <2>2. InStep(Tail(W), R, Tail(P), 0, r)
    BY <1>2, <1>3, <1>4, <2>1 DEF InStep
  <2> QED
    BY <1>5, <2>2
<1>6. CASE w + 1 # Length[W[1]]
  <2>1. PICK new : Between(W, R, Tail(P), w + 1, r, new, Len(W), Len(R), Len(P) - 1)
    BY <1>1, <1>3, <1>4, <1>6, WriteOn
  <2>2. InStep(W, R, Tail(P), w + 1, r)
    BY <1>2, <1>4, <2>1 DEF InStep
  <2> QED
    BY <1>6, <2>2
<1> QED
  BY <1>5, <1>6

\* The host queues a descriptor for both.
LEMMA PushInStep ==
    ASSUME NEW W, NEW R, NEW P, NEW w, NEW r, InStep(W, R, P, w, r),
           NEW d \in Descs
    PROVE  InStep(Append(W, d), Append(R, d), P, w, r)
<1>1. PICK off : Between(W, R, P, w, r, off, Len(W), Len(R), Len(P))
  BY DEF InStep
<1>2. /\ W \in Seq(Descs) /\ R \in Seq(Descs) /\ P \in Seq(Word)
  BY DEF InStep
<1>3. ASSUME NEW s \in Seq(Descs)
      PROVE  /\ Append(s, d) \in Seq(Descs) /\ Len(Append(s, d)) = Len(s) + 1
             /\ \A k \in 1 .. Len(s) : Append(s, d)[k] = s[k]
             /\ Append(s, d)[Len(s) + 1] = d
  BY AppendProperties
<1>4. \E new : Between(Append(W, d), Append(R, d), P, w, r, new,
                       Len(W) + 1, Len(R) + 1, Len(P))
  <2>1. PICK V : V = Append(W, d)
    OBVIOUS
  <2>2. PICK S : S = Append(R, d)
    OBVIOUS
  <2>3. (\A k \in 1 .. Len(W) : V[k] = W[k]) /\ V[Len(W) + 1] = d
    BY <1>2, <1>3, <2>1
  <2>4. (\A i \in 1 .. Len(R) : S[i] = R[i]) /\ S[Len(R) + 1] = d
    BY <1>2, <1>3, <2>2
  <2>5. \E new : Between(V, S, P, w, r, new, Len(W) + 1, Len(R) + 1, Len(P))
    BY <1>1, <2>3, <2>4, PushOn, SMTT(30)
  <2> QED
    BY <2>1, <2>2, <2>5
<1> QED
  BY <1>2, <1>3, <1>4 DEF InStep

----------------------------------------------------------------------------
(* Transfers and words flow through the SGDMA in order                     *)

\* Head and tail of what is put together.
LEMMA TailConcat ==
    ASSUME NEW A, NEW s \in Seq(A), s # <<>>, NEW t \in Seq(A)
    PROVE  /\ Tail(s \o t) = Tail(s) \o t /\ s \o t # <<>>
           /\ Head(s \o t) = Head(s) /\ (s \o t)[1] = Head(s)
<1>1. /\ s \o t \in Seq(A) /\ Len(s \o t) = Len(s) + Len(t)
      /\ \A i \in 1 .. Len(s) + Len(t) :
             (s \o t)[i] = IF i <= Len(s) THEN s[i] ELSE t[i - Len(s)]
  BY ConcatProperties
<1>2. /\ Tail(s) \in Seq(A) /\ Len(Tail(s)) = Len(s) - 1 /\ Len(s) > 0
      /\ \A i \in 1 .. Len(s) - 1 : Tail(s)[i] = s[i + 1]
  BY TailRest DEF Rest
<1>3. Len(s) \in Nat /\ Len(t) \in Nat
  BY LenNat
<1>4. s \o t # <<>>
  BY ConcatEqualIffEmpty
<1>5. /\ Tail(s \o t) \in Seq(A) /\ Len(Tail(s \o t)) = Len(s \o t) - 1
      /\ \A i \in 1 .. Len(s \o t) - 1 : Tail(s \o t)[i] = (s \o t)[i + 1]
  BY <1>1, <1>4, TailRest DEF Rest
<1>6. /\ Tail(s) \o t \in Seq(A) /\ Len(Tail(s) \o t) = Len(Tail(s)) + Len(t)
      /\ \A i \in 1 .. Len(Tail(s)) + Len(t) :
             (Tail(s) \o t)[i] =
                 IF i <= Len(Tail(s)) THEN Tail(s)[i] ELSE t[i - Len(Tail(s))]
  BY <1>2, ConcatProperties
<1>7. PICK n \in Nat : n = Len(s)
  BY <1>3
<1>8. PICK m \in Nat : m = Len(t)
  BY <1>3
<1>9. PICK X : X = Tail(s \o t)
  OBVIOUS
<1>10. PICK Y : Y = Tail(s) \o t
  OBVIOUS
<1>11. \A i \in 1 .. n + m - 1 :
           X[i] = IF i + 1 <= n THEN s[i + 1] ELSE t[(i + 1) - n]
  <2>1. ASSUME NEW i \in 1 .. n + m - 1
        PROVE  X[i] = IF i + 1 <= n THEN s[i + 1] ELSE t[(i + 1) - n]
    <3>1. X[i] = (s \o t)[i + 1]
      BY <1>1, <1>5, <1>7, <1>8, <1>9
    <3>2. i + 1 \in 1 .. n + m
      OBVIOUS
    <3> QED
      BY <1>1, <1>7, <1>8, <3>1, <3>2
  <2> QED
    BY <2>1
<1>12. n > 0
  BY <1>2, <1>7
<1>13. \A i \in 1 .. n + m - 1 :
           Y[i] = IF i <= n - 1 THEN s[i + 1] ELSE t[i - (n - 1)]
  <2>1. \A i \in 1 .. (n - 1) + m :
            Y[i] = IF i <= n - 1 THEN Tail(s)[i] ELSE t[i - (n - 1)]
    BY <1>2, <1>6, <1>7, <1>8, <1>10
  <2>2. \A i \in 1 .. n - 1 : Tail(s)[i] = s[i + 1]
    BY <1>2, <1>7
  <2>3. ASSUME NEW i \in 1 .. n + m - 1
        PROVE  Y[i] = IF i <= n - 1 THEN s[i + 1] ELSE t[i - (n - 1)]
    <3>1. i \in 1 .. (n - 1) + m /\ (i <= n - 1 => i \in 1 .. n - 1)
      OBVIOUS
    <3> QED
      BY <2>1, <2>2, <3>1
  <2> QED
    BY <2>3
<1>14. \A i \in 1 .. n + m - 1 : X[i] = Y[i]
  <2>1. ASSUME NEW i \in 1 .. n + m - 1 PROVE X[i] = Y[i]
    <3>1. (i + 1 <= n <=> i <= n - 1) /\ (i + 1) - n = i - (n - 1)
      BY <1>12
    <3> QED
      BY <1>11, <1>13, <3>1
  <2> QED
    BY <2>1
<1>15. Len(X) = n + m - 1 /\ Len(Y) = n + m - 1 /\ X \in Seq(A) /\ Y \in Seq(A)
  BY <1>1, <1>2, <1>5, <1>6, <1>7, <1>8, <1>9, <1>10
<1>16. X = Y
  BY <1>14, <1>15, SeqEqual
<1>17. (s \o t)[1] = s[1]
  <2>1. 1 \in 1 .. n + m /\ 1 <= n
    BY <1>12
  <2> QED
    BY <1>1, <1>7, <1>8, <2>1
<1>18. ASSUME NEW x \in Seq(A), x # <<>> PROVE Head(x) = x[1]
  BY <1>18
<1> QED
  BY <1>1, <1>4, <1>9, <1>10, <1>16, <1>17, <1>18

\* A transfer before a queue.
LEMMA ConsFacts ==
    ASSUME NEW A, NEW x \in A, NEW q \in Seq(A)
    PROVE  /\ <<x>> \o q \in Seq(A) /\ <<x>> \o q # <<>>
           /\ (<<x>> \o q)[1] = x
           /\ Tail(<<x>> \o q) = q
           /\ \A d \in A : <<x>> \o Append(q, d) = Append(<<x>> \o q, d)
<1>1. <<x>> \in Seq(A) /\ Tail(<<x>>) = <<>> /\ <<x>> # <<>> /\ Head(<<x>>) = x
  OBVIOUS
<1>2. <<x>> \o q \in Seq(A)
  BY <1>1, ConcatProperties
<1>3. /\ Tail(<<x>> \o q) = Tail(<<x>>) \o q /\ <<x>> \o q # <<>>
      /\ (<<x>> \o q)[1] = Head(<<x>>)
  BY <1>1, TailConcat
<1>4. <<>> \o q = q
  BY ConcatEmptySeq
<1>5. ASSUME NEW d \in A PROVE <<x>> \o Append(q, d) = Append(<<x>> \o q, d)
  <2>1. <<d>> \in Seq(A)
    OBVIOUS
  <2>2. <<x>> \o (q \o <<d>>) = (<<x>> \o q) \o <<d>>
    BY <1>1, <2>1, ConcatAssociative
  <2>3. Append(q, d) = q \o <<d>> /\ Append(<<x>> \o q, d) = (<<x>> \o q) \o <<d>>
    BY <1>2, AppendIsConcat
  <2> QED
    BY <2>2, <2>3
<1> QED
  BY <1>1, <1>2, <1>3, <1>4, <1>5

LEMMA HeadBack ==
    ASSUME NEW A, NEW q \in Seq(A), q # <<>>
    PROVE  /\ Head(q) \in A /\ Tail(q) \in Seq(A)
           /\ <<Head(q)>> \o Tail(q) = q
<1>1. Head(q) \in A /\ Tail(q) \in Seq(A) /\ Head(q) = q[1]
  BY HeadTailProperties
<1>2. /\ Tail(q) \in Seq(A) /\ Len(Tail(q)) = Len(q) - 1 /\ Len(q) > 0
      /\ \A i \in 1 .. Len(q) - 1 : Tail(q)[i] = q[i + 1]
  BY TailRest DEF Rest
<1>3. PICK Y : Y = <<Head(q)>> \o Tail(q)
  OBVIOUS
<1>4. <<Head(q)>> \in Seq(A) /\ Len(<<Head(q)>>) = 1 /\ <<Head(q)>>[1] = Head(q)
  BY <1>1
<1>5. PICK n \in Nat : n = Len(q)
  BY LenNat
<1>6. /\ Y \in Seq(A) /\ Len(Y) = 1 + Len(Tail(q))
      /\ \A i \in 1 .. 1 + Len(Tail(q)) :
             Y[i] = IF i <= 1 THEN <<Head(q)>>[i] ELSE Tail(q)[i - 1]
  BY <1>2, <1>3, <1>4, ConcatProperties
<1>7. 1 + Len(Tail(q)) = n /\ n > 0
  BY <1>2, <1>5
<1>8. ASSUME NEW i \in 1 .. n PROVE Y[i] = q[i]
  <2>1. CASE i = 1
    BY <1>1, <1>4, <1>6, <1>7, <2>1
  <2>2. CASE i # 1
    <3>1. i - 1 \in 1 .. n - 1 /\ ~(i <= 1) /\ (i - 1) + 1 = i
      BY <2>2
    <3>2. Y[i] = Tail(q)[i - 1]
      BY <1>6, <1>7, <3>1
    <3> QED
      BY <1>2, <1>5, <3>1, <3>2
  <2> QED
    BY <2>1, <2>2
<1>9. Y = q
  BY <1>5, <1>6, <1>7, <1>8, SeqEqual
<1> QED
  BY <1>1, <1>3, <1>9

Pushed(list, access) ==
    IF access.op = "push" THEN Append(list, access.desc) ELSE list

\* The list of a master with the queue q after an edge in which it has done c
\* words and has perhaps taken a command, and what that list should be.
ListAfter(q, left, desc, go, cmd, c, access) ==
    ListOf(IF go THEN Length[cmd] ELSE left - c,
           IF go THEN cmd ELSE desc,
           Pushed(IF go THEN Tail(q) ELSE q, access))
ListLeft(q, left, desc, c, access) ==
    Pushed(IF left > 0 /\ c = left THEN Tail(ListOf(left, desc, q))
           ELSE ListOf(left, desc, q), access)

\* A command is taken from the head of the queue when nothing is left.
Works(q, left, desc, go, cmd, c, access) ==
    /\ q \in Seq(Descs) /\ left \in Nat /\ go \in BOOLEAN
    /\ left > 0 => desc \in Descs
    /\ go => left = 0 /\ q # <<>> /\ cmd = Head(q)
    /\ c \in Nat /\ c <= left
    /\ access.op = "push" => access.desc \in Descs

\* A command that is taken stays at the head of the list of its master; the
\* list loses its head with the last word of a transfer.
LEMMA ListFlows ==
    ASSUME NEW q, NEW left, NEW desc, NEW go, NEW cmd, NEW c, NEW access,
           Works(q, left, desc, go, cmd, c, access)
    PROVE  ListAfter(q, left, desc, go, cmd, c, access)
           = ListLeft(q, left, desc, c, access)
<1> USE DEF ListAfter, ListLeft
<1>0. /\ q \in Seq(Descs) /\ left \in Nat /\ go \in BOOLEAN
      /\ left > 0 => desc \in Descs
      /\ go => left = 0 /\ q # <<>> /\ cmd = Head(q)
      /\ c \in Nat /\ c <= left
      /\ access.op = "push" => access.desc \in Descs
  BY DEF Works
<1>1. CASE go
  <2>1. left = 0 /\ q # <<>> /\ cmd = Head(q)
    BY <1>0, <1>1
  <2>2. cmd \in Descs /\ Tail(q) \in Seq(Descs) /\ <<cmd>> \o Tail(q) = q
    BY <1>0, <2>1, HeadBack
  <2>3. Length[cmd] # 0
    BY <2>2, DescriptorsAssumption
  <2>4. <<cmd>> \o Pushed(Tail(q), access) = Pushed(<<cmd>> \o Tail(q), access)
    <3>1. PICK t \in Seq(Descs) : t = Tail(q)
      BY <2>2
    <3>2. \A d \in Descs : <<cmd>> \o Append(t, d) = Append(<<cmd>> \o t, d)
      BY <2>2, ConsFacts
    <3> QED
      BY <1>0, <3>1, <3>2 DEF Pushed
  <2>5. ListOf(Length[cmd], cmd, Pushed(Tail(q), access))
            = <<cmd>> \o Pushed(Tail(q), access)
    BY <2>3 DEF ListOf
  <2>6. ListOf(left, desc, q) = q /\ ~(left > 0 /\ c = left)
    BY <2>1 DEF ListOf
  <2> QED
    BY <1>1, <2>2, <2>4, <2>5, <2>6
<1>2. CASE ~go /\ left = 0
  <2>1. c = 0 /\ left - c = 0
    BY <1>0, <1>2
  <2> QED
    BY <1>2, <2>1 DEF ListOf
<1>3. CASE ~go /\ left # 0
  <2>1. left > 0 /\ desc \in Descs
    BY <1>0, <1>3
  <2>2. ListOf(left, desc, q) = <<desc>> \o q /\ Tail(<<desc>> \o q) = q
    BY <1>0, <1>3, <2>1, ConsFacts DEF ListOf
  <2>3. <<desc>> \o Pushed(q, access) = Pushed(<<desc>> \o q, access)
    BY <1>0, <2>1, ConsFacts DEF Pushed
  <2>4. CASE c = left
    <3>1. left - c = 0
      BY <1>0, <2>4
    <3>2. ListOf(left - c, desc, Pushed(q, access)) = Pushed(q, access)
      BY <3>1 DEF ListOf
    <3> QED
      BY <1>3, <2>1, <2>2, <2>4, <3>2
  <2>5. CASE c # left
    <3>1. left - c # 0
      BY <1>0, <2>5
    <3>2. ListOf(left - c, desc, Pushed(q, access)) = <<desc>> \o Pushed(q, access)
      BY <3>1 DEF ListOf
    <3> QED
      BY <1>3, <2>2, <2>3, <2>5, <3>2
  <2> QED
    BY <2>4, <2>5
<1> QED
  BY <1>1, <1>2, <1>3

LEMMA SoFarFlows ==
    ASSUME NEW left \in Nat, NEW desc, left > 0 => desc \in Descs /\ left <= Length[desc],
           NEW go \in BOOLEAN, NEW cmd, go => left = 0 /\ cmd \in Descs,
           NEW c \in Nat, c <= left
    PROVE  SoFar(IF go THEN Length[cmd] ELSE left - c, IF go THEN cmd ELSE desc)
           = IF left > 0 /\ c = left THEN 0 ELSE SoFar(left, desc) + c
<1>1. CASE go
  <2>1. Length[cmd] \in Nat /\ c = 0 /\ left = 0
    BY <1>1, DescriptorsAssumption
  <2>2. SoFar(Length[cmd], cmd) = 0 /\ SoFar(left, desc) = 0
    BY <2>1 DEF SoFar
  <2> QED
    BY <1>1, <2>1, <2>2
<1>2. CASE ~go /\ left = 0
  BY <1>2 DEF SoFar
<1>3. CASE ~go /\ left # 0
  <2>1. Length[desc] \in Nat /\ left > 0
    BY <1>3, DescriptorsAssumption
  <2>2. SoFar(left, desc) = Length[desc] - left
    BY <1>3 DEF SoFar
  <2>3. SoFar(left - c, desc) = IF left - c = 0 THEN 0 ELSE Length[desc] - (left - c)
    BY DEF SoFar
  <2> QED
    BY <1>3, <2>1, <2>2, <2>3
<1> QED
  BY <1>1, <1>2, <1>3

\* A sequence that gives its head to the one before it.
Gives(s, on) == IF on THEN Tail(s) ELSE s
Given(s, on) == IF on THEN <<Head(s)>> ELSE <<>>

\* What is given and what is kept make the whole.
LEMMA GivenBack ==
    ASSUME NEW A, NEW s \in Seq(A), NEW on, on => s # <<>>
    PROVE  /\ Gives(s, on) \in Seq(A) /\ Given(s, on) \in Seq(A)
           /\ Given(s, on) \o Gives(s, on) = s
<1>1. CASE on
  <2>1. /\ Head(s) \in A /\ Tail(s) \in Seq(A) /\ <<Head(s)>> \o Tail(s) = s
    BY <1>1, HeadBack
  <2>2. <<Head(s)>> \in Seq(A)
    BY <2>1
  <2> QED
    BY <1>1, <2>1, <2>2 DEF Gives, Given
<1>2. CASE ~on
  <2>1. <<>> \in Seq(A) /\ <<>> \o s = s
    BY ConcatEmptySeq
  <2> QED
    BY <1>2, <2>1 DEF Gives, Given
<1> QED
  BY <1>1, <1>2

\* Concatenation as an operation that is associative and no more.
Cat(s, t) == s \o t

LEMMA CatAssociative ==
    ASSUME NEW A
    PROVE  \A s, t, u \in Seq(A) : Cat(Cat(s, t), u) = Cat(s, Cat(t, u))
BY ConcatAssociative DEF Cat

LEMMA CatCloses == ASSUME NEW A PROVE \A s, t \in Seq(A) : Cat(s, t) \in Seq(A)
BY ConcatProperties DEF Cat

\* The sequences of words, and no more about them than this.
Runs == Seq(Word)

LEMMA RunsCat ==
    /\ \A s, t \in Runs : Cat(s, t) \in Runs
    /\ \A s, t, u \in Runs : Cat(Cat(s, t), u) = Cat(s, Cat(t, u))
<1>1. \A s, t \in Seq(Word) : Cat(s, t) \in Seq(Word)
  BY ONLY CatCloses
<1>2. \A s, t, u \in Seq(Word) : Cat(Cat(s, t), u) = Cat(s, Cat(t, u))
  BY ONLY CatAssociative
<1> QED
  BY ONLY <1>1, <1>2 DEF Runs

\* Six pieces, put together in another order of steps.
LEMMA Regroup ==
    ASSUME NEW a \in Runs, NEW b \in Runs, NEW c \in Runs, NEW d \in Runs,
           NEW e \in Runs, NEW f \in Runs
    PROVE  Cat(Cat(Cat(a, b), Cat(c, d)), Cat(e, f))
           = Cat(Cat(Cat(a, Cat(b, c)), Cat(d, e)), f)
<1> USE RunsCat
<1>1. PICK ab \in Runs : ab = Cat(a, b)
  OBVIOUS
<1>2. PICK bc \in Runs : bc = Cat(b, c)
  OBVIOUS
<1>3. PICK g \in Runs : g = Cat(a, bc)
  OBVIOUS
<1>4. PICK gd \in Runs : gd = Cat(g, d)
  OBVIOUS
<1>5. Cat(ab, Cat(c, d)) = Cat(Cat(ab, c), d)
  OBVIOUS
<1>6. Cat(ab, c) = g
  BY <1>1, <1>2, <1>3
<1>7. Cat(gd, Cat(e, f)) = Cat(Cat(gd, e), f)
  OBVIOUS
<1>8. Cat(gd, e) = Cat(g, Cat(d, e))
  BY <1>4
<1> QED
  BY <1>1, <1>2, <1>3, <1>4, <1>5, <1>6, <1>7, <1>8

\* The words after an edge in which words move from f, g and h, and e comes in.
LineAfter(f, g, h, e, pops, passes, returns) ==
    ((Gives(f, pops) \o Given(g, passes))
         \o (Gives(g, passes) \o Given(h, returns)))
        \o (Gives(h, returns) \o e)
LineLeft(f, g, h, e, pops) == Gives((f \o g) \o h, pops) \o e

\* A word moves only from where there is one.
Moves(f, g, h, e, pops, passes, returns) ==
    /\ f \in Seq(Word) /\ g \in Seq(Word) /\ h \in Seq(Word) /\ e \in Seq(Word)
    /\ pops => f # <<>>
    /\ passes => g # <<>>
    /\ returns => h # <<>>

\* The words keep their order while they move from FIFO to FIFO.
LEMMA LineFlows ==
    ASSUME NEW f, NEW g, NEW h, NEW e, NEW pops, NEW passes, NEW returns,
           Moves(f, g, h, e, pops, passes, returns)
    PROVE  LineAfter(f, g, h, e, pops, passes, returns) = LineLeft(f, g, h, e, pops)
<1> USE DEF LineAfter, LineLeft
<1>0. /\ f \in Seq(Word) /\ g \in Seq(Word) /\ h \in Seq(Word) /\ e \in Seq(Word)
      /\ pops => f # <<>>
      /\ passes => g # <<>>
      /\ returns => h # <<>>
  BY DEF Moves
<1>1. /\ Gives(f, pops) \in Seq(Word)
      /\ Gives(g, passes) \in Seq(Word) /\ Given(g, passes) \in Seq(Word)
      /\ Given(g, passes) \o Gives(g, passes) = g
      /\ Gives(h, returns) \in Seq(Word) /\ Given(h, returns) \in Seq(Word)
      /\ Given(h, returns) \o Gives(h, returns) = h
  BY <1>0, GivenBack
<1>2. ((Gives(f, pops) \o Given(g, passes))
           \o (Gives(g, passes) \o Given(h, returns)))
          \o (Gives(h, returns) \o e)
      = ((Gives(f, pops) \o g) \o h) \o e
  <2>1. PICK a \in Seq(Word) : a = Gives(f, pops)
    BY <1>1
  <2>2. PICK b \in Seq(Word) : b = Given(g, passes)
    BY <1>1
  <2>3. PICK c \in Seq(Word) : c = Gives(g, passes)
    BY <1>1
  <2>4. PICK d \in Seq(Word) : d = Given(h, returns)
    BY <1>1
  <2>5. PICK x \in Seq(Word) : x = Gives(h, returns)
    BY <1>1
  <2>6. Cat(Cat(Cat(a, b), Cat(c, d)), Cat(x, e))
        = Cat(Cat(Cat(a, Cat(b, c)), Cat(d, x)), e)
    <3>1. /\ a \in Runs /\ b \in Runs /\ c \in Runs
          /\ d \in Runs /\ x \in Runs /\ e \in Runs
      BY <1>0 DEF Runs
    <3> QED
      BY ONLY <3>1, Regroup
  <2>7. b \o c = g /\ d \o x = h
    BY <1>1, <2>2, <2>3, <2>4, <2>5
  <2> QED
    BY <2>1, <2>2, <2>3, <2>4, <2>5, <2>6, <2>7 DEF Cat
<1>3. f \o g \in Seq(Word) /\ (f \o g) \o h \in Seq(Word)
  BY <1>0, ConcatProperties
<1>4. f # <<>> => Tail(f \o g) = Tail(f) \o g /\ f \o g # <<>>
  BY <1>0, TailConcat
<1>5. f # <<>> => Tail((f \o g) \o h) = Tail(f \o g) \o h
  BY <1>0, <1>3, <1>4, TailConcat
<1>6. (Gives(f, pops) \o g) \o h = Gives((f \o g) \o h, pops)
  <2>1. pops => f # <<>>
    BY <1>0
  <2> QED
    BY <1>4, <1>5, <2>1 DEF Gives
<1> QED
  BY <1>2, <1>6

----------------------------------------------------------------------------
(* The inductive invariant                                                 *)

Fresh(m, i) == head[m][i] \in {NoDesc, HeadNow(m)}

\* Nothing is stopped, reset or parked.
Calm ==
    /\ ~control.stop /\ ~control.reset /\ ~swReset
    /\ ~rd.flush /\ ~wr.taken /\ ~wr.stopped
    /\ \A m \in Masters : \A i \in 1 .. Len(queue[m]) : queue[m][i] \notin Park

\* A master that accepts a command has been done for a cycle, and what its
\* queue has shown since then is the descriptor that is at the head now.
PaceInv ==
    /\ wr.left > 0 => wr.desc \in Descs /\ wr.left <= Length[wr.desc]
    /\ wr.ready => wr.left = 0 /\ wr.done
    /\ rd.ready \/ rd.response => AllReturned /\ rd.returned
    /\ wr.left = 0 => Fresh("write", 1) /\ (wr.done => Fresh("write", 2))
    /\ rd.left = 0 => Fresh("read", 1) /\ (rd.returned => Fresh("read", 2))

MaskInv == mask = (wr.desc \in Irq) /\ IrqIsOwn

FlowInv ==
    InStep(WrList, RdList, Line, SoFar(wr.left, wr.desc), SoFar(rd.left, rd.desc))

OwnInv == Orderly => Calm /\ PaceInv /\ MaskInv /\ FlowInv

RdGo == Issues("read", rd.ready)
WrGo == Issues("write", wr.ready)
Asked(readWaits) == IF RdAccepted(readWaits) THEN BurstCount ELSE 0
Wrote(writeWaits) == IF WrCompleted(writeWaits) THEN 1 ELSE 0

\* A head that has been shown for two cycles is that of the queue.
LEMMA ShownIsHead ==
    ASSUME DispatcherTypeOK, Calm, NEW m \in Masters, Fresh(m, 2),
           NEW ready, Issues(m, ready)
    PROVE  /\ queue[m] # <<>> /\ Command(m) = Head(queue[m])
           /\ Command(m) \in Descs /\ Pops(m, ready)
<1>1. NoDesc \notin {HeadNow(m), head[m][1], head[m][2]}
  BY DEF Issues, CommandValid
<1>2. queue[m] # <<>> /\ head[m][2] = Head(queue[m])
  BY <1>1 DEF Fresh, HeadNow
<1>3. queue[m] \in Seq(Descs)
  BY DEF DispatcherTypeOK
<1>4. Head(queue[m]) \in Descs /\ Head(queue[m]) = queue[m][1]
      /\ 1 \in 1 .. Len(queue[m])
  BY <1>2, <1>3
<1>5. Command(m) \notin Park
  BY <1>2, <1>4 DEF Calm, Command
<1> QED
  BY <1>2, <1>4, <1>5 DEF Command, Pops

\* A command is taken by a master that has nothing to do, from its queue.
LEMMA RdTakes ==
    ASSUME IInv, Calm, PaceInv, RdGo
    PROVE  /\ AllReturned /\ rd.left = 0 /\ rd.pending = <<>> /\ rd.returned
           /\ queue["read"] # <<>> /\ Command("read") = Head(queue["read"])
           /\ Command("read") \in Descs /\ Pops("read", rd.ready)
<1>1. rd.ready
  BY DEF RdGo, Issues
<1>2. AllReturned /\ rd.returned
  BY <1>1 DEF PaceInv
<1>3. rd.left = 0 /\ rd.pending = <<>>
  BY <1>2 DEF AllReturned, RdDone
<1>4. Fresh("read", 2) /\ "read" \in Masters
  BY <1>2, <1>3 DEF PaceInv, Masters
<1>5. DispatcherTypeOK
  BY DEF IInv, TypeOK
<1> QED
  BY <1>2, <1>3, <1>4, <1>5, ShownIsHead DEF RdGo

LEMMA WrTakes ==
    ASSUME IInv, Calm, PaceInv, WrGo
    PROVE  /\ wr.left = 0 /\ wr.done
           /\ queue["write"] # <<>> /\ Command("write") = Head(queue["write"])
           /\ Command("write") \in Descs /\ Pops("write", wr.ready)
<1>1. wr.ready
  BY DEF WrGo, Issues
<1>2. wr.left = 0 /\ wr.done
  BY <1>1 DEF PaceInv
<1>4. Fresh("write", 2) /\ "write" \in Masters
  BY <1>2 DEF PaceInv, Masters
<1>5. DispatcherTypeOK
  BY DEF IInv, TypeOK
<1> QED
  BY <1>2, <1>4, <1>5, ShownIsHead DEF WrGo

\* What an edge does when nothing is stopped or reset.
Edge(access, readWaits, writeWaits, returns) ==
    /\ access \in Accesses[host]
    /\ Cycle(access, readWaits, writeWaits, returns)
    /\ IInv /\ Orderly /\ Calm /\ PaceInv

\* What an orderly host does in a cycle.
LEMMA AccessIs ==
    ASSUME NEW access, NEW readWaits, NEW writeWaits, NEW returns,
           Edge(access, readWaits, writeWaits, returns)
    PROVE  /\ access.op = "push" => access.desc \in Descs /\ access.desc \notin Park
           /\ access.op = "control" => ~access.to.stop /\ ~access.to.reset
<1>1. access \in Access
  BY SgdmaAssumption DEF Edge, IInv, TypeOK
<1>2. access.op = "push" => access.desc \in Descs
  BY <1>1 DEF Access
<1> QED
  BY <1>2 DEF Edge, Orderly

\* The registers of the reader, the writer and the queues after an edge.
LEMMA RdMoves ==
    ASSUME NEW access, NEW readWaits, NEW writeWaits, NEW returns,
           Edge(access, readWaits, writeWaits, returns)
    PROVE  /\ rd'.ready = (~RdGo /\ (rd.ready \/ rd.response))
           /\ rd'.desc = IF RdGo THEN Command("read") ELSE rd.desc
           /\ rd'.left = IF RdGo THEN Length[Command("read")]
                         ELSE rd.left - Asked(readWaits)
           /\ rd'.pending = Gives(rd.pending, returns)
                            \o (IF RdAccepted(readWaits) THEN Burst ELSE <<>>)
           /\ rd'.fifo = Gives(rd.fifo, RdPasses(SinkReady))
                         \o Given(rd.pending, returns)
           /\ ~rd'.flush
           /\ rd'.returned = AllReturned
           /\ rd'.response = (AllReturned /\ ~rd.returned)
           /\ returns => rd.pending # <<>>
           /\ Asked(readWaits) \in Nat /\ Asked(readWaits) <= rd.left
           /\ rd.left \in Nat
           /\ rd.left > 0 => rd.desc \in Descs /\ rd.left <= Length[rd.desc]
<1>1. ReadEdge(RdGo, Command("read"), control.stop, swReset, readWaits, returns,
               SinkReady)
  BY DEF Edge, Cycle, RdGo
<1>2. ~control.stop /\ ~swReset /\ ~rd.flush /\ ~FlushEnds
  BY DEF Edge, Calm, FlushEnds
<1>3. IInv /\ RdTypeOK /\ RequestHasRoom
  BY DEF Edge, IInv, TypeOK
<1>4. rd.left \in Nat
  BY <1>3 DEF RdTypeOK
<1>5. RdAccepted(readWaits) => rd.left > 0
  BY <1>4 DEF RdAccepted, RdRead, RdDone
<1>6. Asked(readWaits) \in Nat /\ Asked(readWaits) <= rd.left
  <2>1. CASE RdAccepted(readWaits)
    BY <1>3, <1>5, <2>1, BurstTypes, DescriptorsAssumption, ReadMasterAssumption
    DEF Asked
  <2>2. CASE ~RdAccepted(readWaits)
    BY <1>4, <2>2 DEF Asked
  <2> QED
    BY <2>1, <2>2
<1>7. rd'.left = IF RdGo THEN Length[Command("read")] ELSE rd.left - Asked(readWaits)
  <2>1. rd'.left = IF RdGo THEN Length[Command("read")]
                   ELSE IF RdAccepted(readWaits) THEN rd.left - BurstCount
                   ELSE rd.left
    BY <1>1, <1>2 DEF ReadEdge
  <2> QED
    BY <1>4, <2>1 DEF Asked
<1>8. rd.left > 0 => rd.desc \in Descs /\ rd.left <= Length[rd.desc]
  BY <1>3 DEF RequestHasRoom
<1>9. /\ rd'.pending = Gives(rd.pending, returns)
                       \o (IF RdAccepted(readWaits) THEN Burst ELSE <<>>)
      /\ rd'.fifo = Gives(rd.fifo, RdPasses(SinkReady))
                    \o Given(rd.pending, returns)
  BY <1>1 DEF ReadEdge, Gives, Given
<1>10. /\ rd'.ready = (~RdGo /\ (rd.ready \/ rd.response))
       /\ rd'.desc = IF RdGo THEN Command("read") ELSE rd.desc
       /\ ~rd'.flush
       /\ rd'.returned = AllReturned
       /\ rd'.response = (AllReturned /\ ~rd.returned)
       /\ returns => rd.pending # <<>>
  BY <1>1, <1>2 DEF ReadEdge
<1> QED
  BY <1>4, <1>6, <1>7, <1>8, <1>9, <1>10

LEMMA WrMoves ==
    ASSUME NEW access, NEW readWaits, NEW writeWaits, NEW returns,
           Edge(access, readWaits, writeWaits, returns)
    PROVE  /\ wr'.ready = (~WrGo /\ (wr.ready \/ (WrDone /\ ~wr.response)))
           /\ wr'.desc = IF WrGo THEN Command("write") ELSE wr.desc
           /\ wr'.left = IF WrGo THEN Length[Command("write")]
                         ELSE wr.left - Wrote(writeWaits)
           /\ wr'.fifo = Gives(wr.fifo, WrCompleted(writeWaits))
                         \o Given(rd.fifo, RdPasses(SinkReady))
           /\ ~wr'.taken /\ ~wr'.stopped
           /\ wr'.done = WrDone
           /\ wr'.response = (WrDone /\ ~wr.done)
           /\ wr'.finished = IF WrDone /\ ~wr.done THEN wr.desc ELSE wr.finished
           /\ Wrote(writeWaits) \in Nat /\ Wrote(writeWaits) <= wr.left
           /\ wr.left \in Nat
<1>1. WriteEdge(WrGo, Command("write"), control.stop, swReset, writeWaits, Arriving)
  BY DEF Edge, Cycle, WrGo
<1>2. ~control.stop /\ ~swReset /\ ~wr.taken /\ ~wr.stopped
  BY DEF Edge, Calm
<1>3. wr.left \in Nat /\ IInv /\ Calm /\ PaceInv
  BY DEF Edge, IInv, TypeOK, WrTypeOK
<1>4. DoneStrobe <=> WrDone /\ ~wr.done
  BY <1>2 DEF DoneStrobe
<1>5. WrPops(writeWaits) <=> WrCompleted(writeWaits)
  BY <1>2 DEF WrPops, WrCompleted, WrWrite
<1>6. WrCompleted(writeWaits) => wr.left > 0
  BY <1>3 DEF WrCompleted, WrWrite, WrDone
<1>7. WrGo => wr.left = 0 /\ ~DoneStrobe
  BY <1>3, <1>4, WrTakes
<1>8. wr'.left = IF DoneStrobe THEN 0
                 ELSE IF WrGo THEN Length[Command("write")]
                 ELSE IF WrCompleted(writeWaits) THEN wr.left - 1
                 ELSE wr.left
  BY <1>1, <1>2 DEF WriteEdge
<1>9. DoneStrobe => wr.left = 0
  BY <1>4 DEF WrDone
<1>10. wr'.left = IF WrGo THEN Length[Command("write")]
                  ELSE wr.left - Wrote(writeWaits)
  BY <1>3, <1>6, <1>7, <1>8, <1>9 DEF Wrote
<1>11. wr'.fifo = Gives(wr.fifo, WrCompleted(writeWaits))
                  \o Given(rd.fifo, RdPasses(SinkReady))
  BY <1>1, <1>5 DEF WriteEdge, Gives, Given, Arriving
<1>12. /\ wr'.ready = (~WrGo /\ (wr.ready \/ (WrDone /\ ~wr.response)))
       /\ wr'.desc = IF WrGo THEN Command("write") ELSE wr.desc
       /\ ~wr'.taken /\ ~wr'.stopped
       /\ wr'.done = WrDone
  BY <1>1, <1>2 DEF WriteEdge
<1>13. /\ wr'.response = (WrDone /\ ~wr.done)
       /\ wr'.finished = IF WrDone /\ ~wr.done THEN wr.desc ELSE wr.finished
  <2>1. /\ wr'.response = DoneStrobe
        /\ wr'.finished = IF DoneStrobe THEN wr.desc ELSE wr.finished
    BY <1>1 DEF WriteEdge
  <2>2. DoneStrobe = (WrDone /\ ~wr.done)
    BY <1>2 DEF DoneStrobe
  <2> QED
    BY <2>1, <2>2
<1>14. Wrote(writeWaits) \in Nat /\ Wrote(writeWaits) <= wr.left
  BY <1>3, <1>6 DEF Wrote
<1> QED
  BY <1>3, <1>10, <1>11, <1>12, <1>13, <1>14

LEMMA QueueMoves ==
    ASSUME NEW access, NEW readWaits, NEW writeWaits, NEW returns,
           Edge(access, readWaits, writeWaits, returns)
    PROVE  /\ queue'["read"] = Pushed(Gives(queue["read"], RdGo), access)
           /\ queue'["write"] = Pushed(Gives(queue["write"], WrGo), access)
           /\ \A m \in Masters : /\ head'[m][1] = HeadNow(m)
                                 /\ head'[m][2] = head[m][1]
<1>1. QueueEdge(access, rd.ready, wr.ready) /\ ~swReset /\ IInv /\ Calm /\ PaceInv
  BY DEF Edge, Cycle, DispatcherEdge, Calm
<1>2. "read" \in Masters /\ "write" \in Masters
  BY DEF Masters
<1>3. Pops("read", rd.ready) <=> RdGo
  BY <1>1, RdTakes DEF Pops, RdGo
<1>4. Pops("write", wr.ready) <=> WrGo
  BY <1>1, WrTakes DEF Pops, WrGo
<1>5. /\ queue'["read"] = Pushed(IF Pops("read", rd.ready) THEN Tail(queue["read"])
                                 ELSE queue["read"], access)
      /\ queue'["write"] = Pushed(IF Pops("write", wr.ready) THEN Tail(queue["write"])
                                  ELSE queue["write"], access)
  BY <1>1, <1>2 DEF QueueEdge, Pushed
<1>6. \A m \in Masters : /\ head'[m][1] = HeadNow(m)
                         /\ head'[m][2] = head[m][1]
  <2>1. ASSUME NEW m \in Masters
        PROVE  head'[m][1] = HeadNow(m) /\ head'[m][2] = head[m][1]
    <3>1. head' = [x \in Masters |-> <<HeadNow(x), head[x][1]>>]
      BY <1>1 DEF QueueEdge
    <3>2. head'[m] = <<HeadNow(m), head[m][1]>>
      BY <3>1
    <3> QED
      BY <3>2
  <2> QED
    BY <2>1
<1> QED
  BY <1>3, <1>4, <1>5, <1>6 DEF Gives

LEMMA CalmStep ==
    ASSUME NEW access, NEW readWaits, NEW writeWaits, NEW returns,
           Edge(access, readWaits, writeWaits, returns)
    PROVE  Calm'
<1>1. ~control'.stop /\ ~control'.reset /\ ~swReset'
  <2>1. ControlEdge(access, Stalled)
    BY DEF Edge, Cycle, DispatcherEdge
  <2>2. ~control.stop /\ ~control.reset /\ ~swReset
    BY DEF Edge, Calm
  <2>3. access.op = "control" => ~access.to.stop /\ ~access.to.reset
    BY AccessIs
  <2> QED
    BY <2>1, <2>2, <2>3 DEF ControlEdge
<1>2. ~rd'.flush /\ ~wr'.taken /\ ~wr'.stopped
  BY RdMoves, WrMoves
<1>3. ASSUME NEW m \in Masters, NEW go \in BOOLEAN, go => queue[m] # <<>>,
             queue'[m] = Pushed(Gives(queue[m], go), access)
      PROVE  \A i \in 1 .. Len(queue'[m]) : queue'[m][i] \notin Park
  <2>1. queue[m] \in Seq(Descs)
    BY DEF Edge, IInv, TypeOK, DispatcherTypeOK
  <2>2. PICK s \in Seq(Descs) : s = Gives(queue[m], go)
    <3>1. go => Tail(queue[m]) \in Seq(Descs)
      BY <1>3, <2>1, TailRest
    <3> QED
      BY <2>1, <3>1 DEF Gives
  <2>3. \A i \in 1 .. Len(queue[m]) : queue[m][i] \notin Park
    BY DEF Edge, Calm
  <2>4. \A i \in 1 .. Len(s) : s[i] \notin Park
    <3>1. CASE go
      <4>1. /\ s = Tail(queue[m]) /\ Len(s) = Len(queue[m]) - 1
            /\ \A i \in 1 .. Len(queue[m]) - 1 : s[i] = queue[m][i + 1]
        BY <1>3, <2>1, <2>2, <3>1, TailRest DEF Gives, Rest
      <4>2. PICK n \in Nat : n = Len(queue[m])
        BY <2>1, LenNat
      <4>3. \A i \in 1 .. n - 1 : i + 1 \in 1 .. n
        OBVIOUS
      <4> QED
        BY <2>3, <4>1, <4>2, <4>3
    <3>2. CASE ~go
      BY <2>2, <2>3, <3>2 DEF Gives
    <3> QED
      BY <3>1, <3>2
  <2>5. CASE access.op = "push"
    <3>1. access.desc \in Descs /\ access.desc \notin Park
      BY <2>5, AccessIs
    <3>2. queue'[m] = Append(s, access.desc)
      BY <1>3, <2>2, <2>5 DEF Pushed
    <3>3. /\ Len(queue'[m]) = Len(s) + 1
          /\ \A i \in 1 .. Len(s) : queue'[m][i] = s[i]
          /\ queue'[m][Len(s) + 1] = access.desc
      BY <3>1, <3>2, AppendProperties
    <3>4. PICK n \in Nat : n = Len(s)
      BY <2>2, LenNat
    <3>5. \A i \in 1 .. n + 1 : i \in 1 .. n \/ i = n + 1
      OBVIOUS
    <3> QED
      BY <2>4, <3>1, <3>3, <3>4, <3>5
  <2>6. CASE access.op # "push"
    BY <1>3, <2>2, <2>4, <2>6 DEF Pushed
  <2> QED
    BY <2>5, <2>6
<1>4. \A m \in Masters : \A i \in 1 .. Len(queue'[m]) : queue'[m][i] \notin Park
  <2>1. RdGo => queue["read"] # <<>>
    BY RdTakes DEF Edge
  <2>2. WrGo => queue["write"] # <<>>
    BY WrTakes DEF Edge
  <2>3. RdGo \in BOOLEAN /\ WrGo \in BOOLEAN
    BY DEF Edge, IInv, TypeOK, RdTypeOK, WrTypeOK, RdGo, WrGo, Issues, CommandValid
  <2>4. /\ queue'["read"] = Pushed(Gives(queue["read"], RdGo), access)
        /\ queue'["write"] = Pushed(Gives(queue["write"], WrGo), access)
    BY QueueMoves
  <2>5. ASSUME NEW m \in Masters
        PROVE  \A i \in 1 .. Len(queue'[m]) : queue'[m][i] \notin Park
    <3>1. CASE m = "read"
      BY <1>3, <2>1, <2>3, <2>4, <3>1
    <3>2. CASE m = "write"
      BY <1>3, <2>2, <2>3, <2>4, <3>2
    <3> QED
      BY <3>1, <3>2 DEF Masters
  <2> QED
    BY <2>5
<1> QED
  BY <1>1, <1>2, <1>4 DEF Calm

\* What is shown of a queue that loses no head stays true.
LEMMA FreshStays ==
    ASSUME NEW access, NEW readWaits, NEW writeWaits, NEW returns,
           Edge(access, readWaits, writeWaits, returns), NEW m \in Masters,
           queue'[m] = Pushed(queue[m], access)
    PROVE  Fresh(m, 1)' /\ (Fresh(m, 1) => Fresh(m, 2)')
<1>1. queue[m] \in Seq(Descs)
  BY DEF Edge, IInv, TypeOK, DispatcherTypeOK
<1>2. access.op = "push" => access.desc \in Descs
  BY AccessIs
<1>3. queue[m] # <<>> => HeadNow(m)' = HeadNow(m)
  <2>1. ASSUME queue[m] # <<>>, access.op = "push"
        PROVE  /\ Head(Append(queue[m], access.desc)) = Head(queue[m])
               /\ Append(queue[m], access.desc) # <<>>
    BY <1>1, <1>2, <2>1, HeadTailAppend, AppendProperties
  <2> QED
    BY <2>1 DEF HeadNow, Pushed
<1>4. HeadNow(m) \in {NoDesc, HeadNow(m)'}
  BY <1>3 DEF HeadNow
<1>5. head'[m][1] = HeadNow(m) /\ head'[m][2] = head[m][1]
  BY QueueMoves
<1>6. Fresh(m, 1)'
  BY <1>4, <1>5 DEF Fresh
<1>7. Fresh(m, 1) => Fresh(m, 2)'
  BY <1>4, <1>5 DEF Fresh
<1> QED
  BY <1>6, <1>7

LEMMA PaceStep ==
    ASSUME NEW access, NEW readWaits, NEW writeWaits, NEW returns,
           Edge(access, readWaits, writeWaits, returns)
    PROVE  PaceInv'
<1>0. IInv /\ Calm /\ PaceInv
  BY DEF Edge
<1>1. wr'.left > 0 => wr'.desc \in Descs /\ wr'.left <= Length[wr'.desc]
  <2>1. CASE WrGo
    <3>1. wr'.left = Length[Command("write")] /\ wr'.desc = Command("write")
      BY <2>1, WrMoves
    <3>2. Command("write") \in Descs
      BY <1>0, <2>1, WrTakes
    <3> QED
      BY <3>1, <3>2, DescriptorsAssumption
  <2>2. CASE ~WrGo
    <3>1. /\ wr'.left = wr.left - Wrote(writeWaits) /\ wr'.desc = wr.desc
          /\ Wrote(writeWaits) \in Nat /\ wr.left \in Nat
      BY <2>2, WrMoves
    <3>2. wr.left > 0 => wr.desc \in Descs /\ wr.left <= Length[wr.desc]
                         /\ Length[wr.desc] \in Nat
      BY <1>0, DescriptorsAssumption DEF PaceInv
    <3> QED
      BY <3>1, <3>2
  <2> QED
    BY <2>1, <2>2
<1>2. wr'.ready => wr'.left = 0 /\ wr'.done
  <2>1. ASSUME wr'.ready PROVE wr'.left = 0 /\ wr'.done
    <3>1. ~WrGo /\ (wr.ready \/ WrDone)
      BY <2>1, WrMoves
    <3>2. WrDone /\ wr.left = 0
      BY <1>0, <3>1 DEF PaceInv, WrDone
    <3>3. wr'.left = wr.left - Wrote(writeWaits) /\ wr'.done = WrDone
          /\ Wrote(writeWaits) \in Nat /\ Wrote(writeWaits) <= wr.left
      BY <3>1, WrMoves
    <3> QED
      BY <3>2, <3>3
  <2> QED
    BY <2>1
<1>3. rd'.ready \/ rd'.response => AllReturned' /\ rd'.returned
  <2>1. ASSUME rd'.ready \/ rd'.response PROVE AllReturned' /\ rd'.returned
    <3>1. ~RdGo /\ AllReturned
      <4>1. CASE rd'.ready
        <5>1. ~RdGo /\ (rd.ready \/ rd.response)
          BY <4>1, RdMoves
        <5> QED
          BY <1>0, <5>1 DEF PaceInv
      <4>2. CASE rd'.response
        <5>1. AllReturned /\ ~rd.returned
          BY <4>2, RdMoves
        <5> QED
          BY <1>0, <5>1, RdTakes
      <4> QED
        BY <2>1, <4>1, <4>2
    <3>2. rd.left = 0 /\ rd.pending = <<>>
      BY <3>1 DEF AllReturned, RdDone
    <3>3. /\ rd'.left = rd.left - Asked(readWaits) /\ Asked(readWaits) \in Nat
          /\ Asked(readWaits) <= rd.left
          /\ rd'.pending = Gives(rd.pending, returns)
                           \o (IF RdAccepted(readWaits) THEN Burst ELSE <<>>)
          /\ rd'.returned = AllReturned /\ (returns => rd.pending # <<>>)
      BY <3>1, RdMoves
    <3>4. ~RdAccepted(readWaits) /\ ~returns
      BY <3>2, <3>3 DEF RdAccepted, RdRead, RdDone
    <3>5. rd'.pending = <<>> \o <<>>
      BY <3>2, <3>3, <3>4 DEF Gives
    <3>6. rd'.pending = <<>>
      BY <3>5
    <3>7. rd'.left = 0
      BY <3>2, <3>3
    <3> QED
      BY <3>1, <3>3, <3>6, <3>7 DEF AllReturned, RdDone
  <2> QED
    BY <2>1
<1>4. "read" \in Masters /\ "write" \in Masters
  BY DEF Masters
<1>5. wr'.left = 0 => Fresh("write", 1)' /\ (wr'.done => Fresh("write", 2)')
  <2>1. ASSUME wr'.left = 0
        PROVE  Fresh("write", 1)' /\ (wr'.done => Fresh("write", 2)')
    <3>1. ~WrGo
      <4>1. WrGo => wr'.left = Length[Command("write")] /\ Command("write") \in Descs
        BY <1>0, WrMoves, WrTakes
      <4> QED
        BY <2>1, <4>1, DescriptorsAssumption
    <3>2. queue'["write"] = Pushed(queue["write"], access)
      BY <3>1, QueueMoves DEF Gives
    <3>3. wr'.done => Fresh("write", 1)
      <4>1. wr'.done => wr.left = 0
        BY WrMoves DEF WrDone
      <4> QED
        BY <1>0, <4>1 DEF PaceInv
    <3> QED
      BY <1>4, <3>2, <3>3, FreshStays
  <2> QED
    BY <2>1
<1>6. rd'.left = 0 => Fresh("read", 1)' /\ (rd'.returned => Fresh("read", 2)')
  <2>1. ASSUME rd'.left = 0
        PROVE  Fresh("read", 1)' /\ (rd'.returned => Fresh("read", 2)')
    <3>1. ~RdGo
      <4>1. RdGo => rd'.left = Length[Command("read")] /\ Command("read") \in Descs
        BY <1>0, RdMoves, RdTakes
      <4> QED
        BY <2>1, <4>1, DescriptorsAssumption
    <3>2. queue'["read"] = Pushed(queue["read"], access)
      BY <3>1, QueueMoves DEF Gives
    <3>3. rd'.returned => Fresh("read", 1)
      <4>1. rd'.returned => rd.left = 0
        BY RdMoves DEF AllReturned, RdDone
      <4> QED
        BY <1>0, <4>1 DEF PaceInv
    <3> QED
      BY <1>4, <3>2, <3>3, FreshStays
  <2> QED
    BY <2>1
<1> QED
  BY <1>1, <1>2, <1>3, <1>5, <1>6 DEF PaceInv

LEMMA MaskStep ==
    ASSUME NEW access, NEW readWaits, NEW writeWaits, NEW returns,
           Edge(access, readWaits, writeWaits, returns), MaskInv
    PROVE  MaskInv'
<1>0. IInv /\ Calm /\ PaceInv
  BY DEF Edge
<1>1. mask' = IF WrGo THEN Command("write") \in Irq ELSE mask
  BY DEF Edge, Cycle, DispatcherEdge, MaskEdge, WrGo
<1>2. wr'.desc = IF WrGo THEN Command("write") ELSE wr.desc
  BY WrMoves
<1>3. mask' = (wr'.desc \in Irq)
  BY <1>1, <1>2 DEF MaskInv
<1>4. wr'.response => mask' = (wr'.finished \in Irq)
  <2>1. ASSUME wr'.response PROVE mask' = (wr'.finished \in Irq)
    <3>1. /\ WrDone /\ ~wr.done /\ wr'.finished = wr.desc
      BY <2>1, WrMoves
    <3>2. ~WrGo
      BY <1>0, <3>1, WrTakes
    <3> QED
      BY <1>1, <3>1, <3>2 DEF MaskInv
  <2> QED
    BY <2>1
<1> QED
  BY <1>3, <1>4 DEF MaskInv, IrqIsOwn

\* The lists, the words and the counts after an edge.
LEMMA ListsMove ==
    ASSUME NEW access, NEW readWaits, NEW writeWaits, NEW returns,
           Edge(access, readWaits, writeWaits, returns)
    PROVE  /\ RdList' = Pushed(IF rd.left > 0 /\ Asked(readWaits) = rd.left
                               THEN Tail(RdList) ELSE RdList, access)
           /\ WrList' = Pushed(IF wr.left > 0 /\ Wrote(writeWaits) = wr.left
                               THEN Tail(WrList) ELSE WrList, access)
           /\ SoFar(rd.left, rd.desc)' =
                  IF rd.left > 0 /\ Asked(readWaits) = rd.left THEN 0
                  ELSE SoFar(rd.left, rd.desc) + Asked(readWaits)
           /\ SoFar(wr.left, wr.desc)' =
                  IF wr.left > 0 /\ Wrote(writeWaits) = wr.left THEN 0
                  ELSE SoFar(wr.left, wr.desc) + Wrote(writeWaits)
<1>0. IInv /\ Calm /\ PaceInv
  BY DEF Edge
<1>1. queue["read"] \in Seq(Descs) /\ queue["write"] \in Seq(Descs)
  BY <1>0 DEF IInv, TypeOK, DispatcherTypeOK, Masters
<1>2. RdGo \in BOOLEAN /\ WrGo \in BOOLEAN
  BY <1>0 DEF IInv, TypeOK, RdTypeOK, WrTypeOK, RdGo, WrGo, Issues, CommandValid
<1>3. access.op = "push" => access.desc \in Descs
  BY AccessIs
<1>4. RdList' = ListOf(IF RdGo THEN Length[Command("read")]
                       ELSE rd.left - Asked(readWaits),
                       IF RdGo THEN Command("read") ELSE rd.desc,
                       Pushed(IF RdGo THEN Tail(queue["read"]) ELSE queue["read"],
                              access))
  BY RdMoves, QueueMoves DEF RdList, Gives
<1>5. WrList' = ListOf(IF WrGo THEN Length[Command("write")]
                       ELSE wr.left - Wrote(writeWaits),
                       IF WrGo THEN Command("write") ELSE wr.desc,
                       Pushed(IF WrGo THEN Tail(queue["write"]) ELSE queue["write"],
                              access))
  BY WrMoves, QueueMoves DEF WrList, Gives
<1>6. SoFar(rd.left, rd.desc)' =
          SoFar(IF RdGo THEN Length[Command("read")] ELSE rd.left - Asked(readWaits),
                IF RdGo THEN Command("read") ELSE rd.desc)
  BY RdMoves
<1>7. SoFar(wr.left, wr.desc)' =
          SoFar(IF WrGo THEN Length[Command("write")] ELSE wr.left - Wrote(writeWaits),
                IF WrGo THEN Command("write") ELSE wr.desc)
  BY WrMoves
<1>8. /\ rd.left \in Nat /\ Asked(readWaits) \in Nat /\ Asked(readWaits) <= rd.left
      /\ rd.left > 0 => rd.desc \in Descs /\ rd.left <= Length[rd.desc]
  BY RdMoves
<1>9. /\ wr.left \in Nat /\ Wrote(writeWaits) \in Nat /\ Wrote(writeWaits) <= wr.left
      /\ wr.left > 0 => wr.desc \in Descs /\ wr.left <= Length[wr.desc]
  BY <1>0, WrMoves DEF PaceInv
<1>10. RdGo => /\ rd.left = 0 /\ queue["read"] # <<>>
               /\ Command("read") = Head(queue["read"]) /\ Command("read") \in Descs
  BY <1>0, RdTakes
<1>11. WrGo => /\ wr.left = 0 /\ queue["write"] # <<>>
               /\ Command("write") = Head(queue["write"]) /\ Command("write") \in Descs
  BY <1>0, WrTakes
<1>12. RdList' = Pushed(IF rd.left > 0 /\ Asked(readWaits) = rd.left
                        THEN Tail(RdList) ELSE RdList, access)
  <2>1. PICK q \in Seq(Descs) : q = queue["read"]
    BY <1>1
  <2>2. PICK left \in Nat : left = rd.left
    BY <1>8
  <2>3. PICK desc : desc = rd.desc
    OBVIOUS
  <2>4. PICK go \in BOOLEAN : go = RdGo
    BY <1>2
  <2>5. PICK cmd : cmd = Command("read")
    OBVIOUS
  <2>6. PICK c \in Nat : c = Asked(readWaits)
    BY <1>8
  <2>7. Works(q, left, desc, go, cmd, c, access)
    BY <1>3, <1>8, <1>10, <2>1, <2>2, <2>3, <2>4, <2>5, <2>6
    DEF Works
  <2>8. ListAfter(q, left, desc, go, cmd, c, access)
        = ListLeft(q, left, desc, c, access)
    BY <2>7, ListFlows
  <2> QED
    BY <1>4, <2>1, <2>2, <2>3, <2>4, <2>5, <2>6, <2>8 DEF RdList, ListAfter, ListLeft
<1>13. WrList' = Pushed(IF wr.left > 0 /\ Wrote(writeWaits) = wr.left
                        THEN Tail(WrList) ELSE WrList, access)
  <2>1. PICK q \in Seq(Descs) : q = queue["write"]
    BY <1>1
  <2>2. PICK left \in Nat : left = wr.left
    BY <1>9
  <2>3. PICK desc : desc = wr.desc
    OBVIOUS
  <2>4. PICK go \in BOOLEAN : go = WrGo
    BY <1>2
  <2>5. PICK cmd : cmd = Command("write")
    OBVIOUS
  <2>6. PICK c \in Nat : c = Wrote(writeWaits)
    BY <1>9
  <2>7. Works(q, left, desc, go, cmd, c, access)
    BY <1>3, <1>9, <1>11, <2>1, <2>2, <2>3, <2>4, <2>5, <2>6
    DEF Works
  <2>8. ListAfter(q, left, desc, go, cmd, c, access)
        = ListLeft(q, left, desc, c, access)
    BY <2>7, ListFlows
  <2> QED
    BY <1>5, <2>1, <2>2, <2>3, <2>4, <2>5, <2>6, <2>8 DEF WrList, ListAfter, ListLeft
<1>14. SoFar(rd.left, rd.desc)' =
           IF rd.left > 0 /\ Asked(readWaits) = rd.left THEN 0
           ELSE SoFar(rd.left, rd.desc) + Asked(readWaits)
  <2>1. PICK left \in Nat : left = rd.left
    BY <1>8
  <2>2. PICK desc : desc = rd.desc
    OBVIOUS
  <2>3. PICK go \in BOOLEAN : go = RdGo
    BY <1>2
  <2>4. PICK cmd : cmd = Command("read")
    OBVIOUS
  <2>5. PICK c \in Nat : c = Asked(readWaits)
    BY <1>8
  <2>6. /\ left > 0 => desc \in Descs /\ left <= Length[desc]
        /\ go => left = 0 /\ cmd \in Descs
        /\ c <= left
    BY <1>8, <1>10, <2>1, <2>2, <2>3, <2>4, <2>5
  <2>7. SoFar(IF go THEN Length[cmd] ELSE left - c, IF go THEN cmd ELSE desc)
        = IF left > 0 /\ c = left THEN 0 ELSE SoFar(left, desc) + c
    BY <2>6, SoFarFlows
  <2> QED
    BY <1>6, <2>1, <2>2, <2>3, <2>4, <2>5, <2>7
<1>15. SoFar(wr.left, wr.desc)' =
           IF wr.left > 0 /\ Wrote(writeWaits) = wr.left THEN 0
           ELSE SoFar(wr.left, wr.desc) + Wrote(writeWaits)
  <2>1. PICK left \in Nat : left = wr.left
    BY <1>9
  <2>2. PICK desc : desc = wr.desc
    OBVIOUS
  <2>3. PICK go \in BOOLEAN : go = WrGo
    BY <1>2
  <2>4. PICK cmd : cmd = Command("write")
    OBVIOUS
  <2>5. PICK c \in Nat : c = Wrote(writeWaits)
    BY <1>9
  <2>6. /\ left > 0 => desc \in Descs /\ left <= Length[desc]
        /\ go => left = 0 /\ cmd \in Descs
        /\ c <= left
    BY <1>9, <1>11, <2>1, <2>2, <2>3, <2>4, <2>5
  <2>7. SoFar(IF go THEN Length[cmd] ELSE left - c, IF go THEN cmd ELSE desc)
        = IF left > 0 /\ c = left THEN 0 ELSE SoFar(left, desc) + c
    BY <2>6, SoFarFlows
  <2> QED
    BY <1>7, <2>1, <2>2, <2>3, <2>4, <2>5, <2>7
<1> QED
  BY <1>12, <1>13, <1>14, <1>15

\* The first word on its way is the one that the writer has.
LEMMA LineIs ==
    ASSUME IInv
    PROVE  /\ Line \in Seq(Word)
           /\ wr.fifo # <<>> => Line # <<>> /\ Line[1] = Head(wr.fifo)
<1>1. wr.fifo \in Seq(Word) /\ rd.fifo \in Seq(Word) /\ rd.pending \in Seq(Word)
  BY DEF IInv, TypeOK, RdTypeOK, WrTypeOK
<1>2. PICK f \in Seq(Word) : f = wr.fifo
  BY <1>1
<1>3. PICK g \in Seq(Word) : g = rd.fifo
  BY <1>1
<1>4. PICK h \in Seq(Word) : h = rd.pending
  BY <1>1
<1>5. f \o g \in Seq(Word) /\ (f \o g) \o h \in Seq(Word)
  BY ConcatProperties
<1>6. f # <<>> => f \o g # <<>> /\ Head(f \o g) = Head(f)
  BY TailConcat
<1>7. f # <<>> => (f \o g) \o h # <<>> /\ ((f \o g) \o h)[1] = Head(f \o g)
  BY <1>5, <1>6, TailConcat
<1> QED
  BY <1>2, <1>3, <1>4, <1>5, <1>6, <1>7 DEF Line

LEMMA LineMoves ==
    ASSUME NEW access, NEW readWaits, NEW writeWaits, NEW returns,
           Edge(access, readWaits, writeWaits, returns)
    PROVE  /\ Line' = Gives(Line, WrCompleted(writeWaits))
                      \o (IF RdAccepted(readWaits) THEN Burst ELSE <<>>)
           /\ Line \in Seq(Word)
           /\ (IF RdAccepted(readWaits) THEN Burst ELSE <<>>) \in Seq(Word)
           /\ wr.fifo # <<>> => Line # <<>> /\ Line[1] = Head(wr.fifo)
<1>0. IInv
  BY DEF Edge
<1>1. wr.fifo \in Seq(Word) /\ rd.fifo \in Seq(Word) /\ rd.pending \in Seq(Word)
  BY <1>0 DEF IInv, TypeOK, RdTypeOK, WrTypeOK
<1>2. PICK e : e = IF RdAccepted(readWaits) THEN Burst ELSE <<>>
  OBVIOUS
<1>3. e \in Seq(Word)
  <2>1. CASE RdAccepted(readWaits)
    <3>1. rd.left > 0
      <4>1. rd.left \in Nat
        BY <1>0 DEF IInv, TypeOK, RdTypeOK
      <4> QED
        BY <2>1, <4>1 DEF RdAccepted, RdRead, RdDone
    <3>2. Burst \in Seq(Word)
      BY <1>0, <3>1, BurstTypes, DescriptorsAssumption, ReadMasterAssumption
      DEF IInv, TypeOK
    <3> QED
      BY <1>2, <2>1, <3>2
  <2>2. CASE ~RdAccepted(readWaits)
    BY <1>2, <2>2
  <2> QED
    BY <2>1, <2>2
<1>4. /\ WrCompleted(writeWaits) => wr.fifo # <<>>
      /\ RdPasses(SinkReady) => rd.fifo # <<>>
      /\ returns => rd.pending # <<>>
  BY RdMoves DEF WrCompleted, WrWrite, RdPasses
<1>5. Line' = ((Gives(wr.fifo, WrCompleted(writeWaits))
                    \o Given(rd.fifo, RdPasses(SinkReady)))
                  \o (Gives(rd.fifo, RdPasses(SinkReady))
                        \o Given(rd.pending, returns)))
              \o (Gives(rd.pending, returns) \o e)
  BY <1>2, RdMoves, WrMoves DEF Line
<1>6. /\ Line' = Gives(Line, WrCompleted(writeWaits)) \o e
      /\ Line \in Seq(Word)
      /\ wr.fifo # <<>> => Line # <<>> /\ Line[1] = Head(wr.fifo)
  <2>1. PICK f \in Seq(Word) : f = wr.fifo
    BY <1>1
  <2>2. PICK g \in Seq(Word) : g = rd.fifo
    BY <1>1
  <2>3. PICK h \in Seq(Word) : h = rd.pending
    BY <1>1
  <2>4. PICK pops : pops = WrCompleted(writeWaits)
    OBVIOUS
  <2>5. PICK passes : passes = RdPasses(SinkReady)
    OBVIOUS
  <2>6. Moves(f, g, h, e, pops, passes, returns)
    BY <1>3, <1>4, <2>1, <2>2, <2>3, <2>4, <2>5 DEF Moves
  <2>7. LineAfter(f, g, h, e, pops, passes, returns) = LineLeft(f, g, h, e, pops)
    BY <2>6, LineFlows
  <2> QED
    BY <1>0, <1>5, <2>1, <2>2, <2>3, <2>4, <2>5, <2>7, LineIs DEF Line, LineAfter, LineLeft
<1> QED
  BY <1>2, <1>3, <1>6

\* The reader asks, the writer writes and the host queues, in one cycle.
LEMMA FlowStep ==
    ASSUME NEW access, NEW readWaits, NEW writeWaits, NEW returns,
           Edge(access, readWaits, writeWaits, returns), FlowInv
    PROVE  FlowInv'
<1>0. IInv /\ Calm /\ PaceInv
  BY DEF Edge
<1>1. PICK L : L = Line
  OBVIOUS
<1>2. PICK W : W = WrList
  OBVIOUS
<1>3. PICK R : R = RdList
  OBVIOUS
<1>4. PICK w : w = SoFar(wr.left, wr.desc)
  OBVIOUS
<1>5. PICK r : r = SoFar(rd.left, rd.desc)
  OBVIOUS
<1>6. PICK e : e = IF RdAccepted(readWaits) THEN Burst ELSE <<>>
  OBVIOUS
<1>7. InStep(W, R, L, w, r)
  BY <1>1, <1>2, <1>3, <1>4, <1>5 DEF FlowInv
<1>8. PICK R1 : R1 = IF rd.left > 0 /\ Asked(readWaits) = rd.left THEN Tail(R) ELSE R
  OBVIOUS
<1>9. PICK r1 : r1 = IF rd.left > 0 /\ Asked(readWaits) = rd.left THEN 0
                     ELSE r + Asked(readWaits)
  OBVIOUS
<1>10. PICK W1 : W1 = IF wr.left > 0 /\ Wrote(writeWaits) = wr.left THEN Tail(W) ELSE W
  OBVIOUS
<1>11. PICK w1 : w1 = IF wr.left > 0 /\ Wrote(writeWaits) = wr.left THEN 0
                      ELSE w + Wrote(writeWaits)
  OBVIOUS
<1>12. L \in Seq(Word) /\ e \in Seq(Word)
  BY <1>1, <1>6, LineMoves
<1>13. queue["read"] \in Seq(Descs) /\ queue["write"] \in Seq(Descs)
  BY <1>0 DEF IInv, TypeOK, DispatcherTypeOK, Masters
<1>14. InStep(W, R1, L \o e, w, r1)
  <2>1. CASE RdAccepted(readWaits)
    <3>1. rd.left \in Nat /\ rd.left > 0
      <4>1. rd.left \in Nat
        BY RdMoves
      <4> QED
        BY <2>1, <4>1 DEF RdAccepted, RdRead, RdDone
    <3>2. rd.desc \in Descs /\ rd.left <= Length[rd.desc] /\ Length[rd.desc] \in Nat
      BY <3>1, RdMoves, DescriptorsAssumption
    <3>3. R # <<>> /\ R[1] = rd.desc
      BY <1>3, <1>13, <3>1, <3>2, ConsFacts DEF RdList, ListOf
    <3>4. r = Length[rd.desc] - rd.left
      BY <1>5, <3>1 DEF SoFar
    <3>5. PICK c \in Nat : c = BurstCount
      BY <1>0, <3>1, BurstTypes, DescriptorsAssumption, ReadMasterAssumption
      DEF IInv, TypeOK
    <3>6. c <= rd.left /\ Burst \in Seq(Word) /\ Len(Burst) = c
      BY <1>0, <3>1, <3>5, BurstTypes, DescriptorsAssumption, ReadMasterAssumption
      DEF IInv, TypeOK
    <3>7. c > 0
      BY <3>1, <3>5, ReadMasterAssumption DEF BurstCount
    <3>8. \A i \in 1 .. c : Burst[i] = <<R[1], r + i>>
      BY <3>3, <3>4, <3>5 DEF Burst
    <3>9. r + c <= Length[R[1]]
      BY <3>1, <3>2, <3>3, <3>4, <3>6
    <3>10. e = Burst /\ Asked(readWaits) = c
      BY <1>6, <2>1, <3>5 DEF Asked
    <3>11. Asks(R, r, c, e)
      BY <3>3, <3>6, <3>7, <3>8, <3>9, <3>10 DEF Asks
    <3>12. r + c = Length[R[1]] <=> c = rd.left
      BY <3>1, <3>2, <3>3, <3>4
    <3>13. IF r + c = Length[R[1]] THEN InStep(W, Tail(R), L \o e, w, 0)
           ELSE InStep(W, R, L \o e, w, r + c)
      BY <1>7, <3>11, ReadInStep
    <3> QED
      BY <1>8, <1>9, <3>1, <3>10, <3>12, <3>13
  <2>2. CASE ~RdAccepted(readWaits)
    <3>1. Asked(readWaits) = 0 /\ e = <<>>
      BY <1>6, <2>2 DEF Asked
    <3>2. L \o e = L
      BY <1>12, <3>1, ConcatEmptySeq
    <3>3. r \in Nat
      BY <1>7 DEF InStep, Between
    <3>4. R1 = R /\ r1 = r
      BY <1>8, <1>9, <3>1, <3>3
    <3> QED
      BY <1>7, <3>2, <3>4
  <2> QED
    BY <2>1, <2>2
<1>15. InStep(W1, R1, Gives(L, WrCompleted(writeWaits)) \o e, w1, r1)
  <2>1. CASE WrCompleted(writeWaits)
    <3>1. wr.left \in Nat /\ wr.left > 0 /\ wr.fifo # <<>>
      BY <2>1, WrMoves DEF WrCompleted, WrWrite, WrDone
    <3>2. wr.desc \in Descs /\ wr.left <= Length[wr.desc] /\ Length[wr.desc] \in Nat
      BY <1>0, <3>1, DescriptorsAssumption DEF PaceInv
    <3>3. W # <<>> /\ W[1] = wr.desc
      BY <1>2, <1>13, <3>1, <3>2, ConsFacts DEF WrList, ListOf
    <3>4. w = Length[wr.desc] - wr.left
      BY <1>4, <3>1 DEF SoFar
    <3>5. L # <<>>
      BY <1>1, <3>1, LineMoves
    <3>6. Tail(L \o e) = Tail(L) \o e /\ L \o e # <<>>
      BY <1>12, <3>5, TailConcat
    <3>7. w + 1 = Length[W[1]] <=> wr.left = 1
      BY <3>1, <3>2, <3>3, <3>4
    <3>8. IF w + 1 = Length[W[1]] THEN InStep(Tail(W), R1, Tail(L \o e), 0, r1)
          ELSE InStep(W, R1, Tail(L \o e), w + 1, r1)
      BY <1>14, <3>3, <3>6, WriteInStep
    <3>9. Wrote(writeWaits) = 1
      BY <2>1 DEF Wrote
    <3>10. Gives(L, WrCompleted(writeWaits)) = Tail(L)
      BY <2>1 DEF Gives
    <3> QED
      BY <1>10, <1>11, <3>1, <3>6, <3>7, <3>8, <3>9, <3>10
  <2>2. CASE ~WrCompleted(writeWaits)
    <3>1. Wrote(writeWaits) = 0 /\ Gives(L, WrCompleted(writeWaits)) = L
      BY <2>2 DEF Wrote, Gives
    <3>2. w \in Nat
      BY <1>7 DEF InStep, Between
    <3>3. W1 = W /\ w1 = w
      BY <1>10, <1>11, <3>1, <3>2
    <3> QED
      BY <1>14, <3>1, <3>3
  <2> QED
    BY <2>1, <2>2
<1>16. /\ RdList' = Pushed(R1, access) /\ WrList' = Pushed(W1, access)
       /\ SoFar(rd.left, rd.desc)' = r1 /\ SoFar(wr.left, wr.desc)' = w1
  BY <1>2, <1>3, <1>4, <1>5, <1>8, <1>9, <1>10, <1>11, ListsMove
<1>17. Line' = Gives(L, WrCompleted(writeWaits)) \o e
  BY <1>1, <1>6, LineMoves
<1>18. InStep(Pushed(W1, access), Pushed(R1, access), Line', w1, r1)
  <2>1. access.op = "push" => access.desc \in Descs
    BY AccessIs
  <2> QED
    BY <1>15, <1>17, <2>1, PushInStep DEF Pushed
<1> QED
  BY <1>16, <1>18 DEF FlowInv

LEMMA InitOwn == Init => OwnInv
<1> SUFFICES ASSUME Init PROVE OwnInv
  OBVIOUS
<1>1. /\ rd.left = 0 /\ wr.left = 0 /\ rd.pending = <<>> /\ rd.fifo = <<>>
      /\ wr.fifo = <<>> /\ rd.desc = NoDesc /\ wr.desc = NoDesc
      /\ ~rd.flush /\ ~wr.taken /\ ~wr.stopped /\ ~wr.response /\ wr.done
      /\ rd.returned /\ ~rd.response
  BY DEF Init, RdInit, WrInit
<1>2. /\ queue["read"] = <<>> /\ queue["write"] = <<>>
      /\ ~control.stop /\ ~control.reset /\ ~swReset /\ mask = FALSE
      /\ \A m \in Masters : queue[m] = <<>>
      /\ \A m \in Masters : head[m] = <<NoDesc, NoDesc>>
  BY DEF Init, DispatcherInit, Masters, Off
<1>3. Calm
  <2>1. \A m \in Masters : Len(queue[m]) = 0
    BY <1>2
  <2> QED
    BY <1>1, <1>2, <2>1 DEF Calm
<1>4. PaceInv
  <2>1. \A m \in Masters : Fresh(m, 1) /\ Fresh(m, 2)
    BY <1>2 DEF Fresh
  <2> QED
    BY <1>1, <2>1 DEF PaceInv, AllReturned, RdDone, Masters
<1>5. MaskInv
  <2>1. NoDesc \notin Irq
    BY DispatcherAssumption, DescriptorsAssumption
  <2>2. wr.desc = NoDesc /\ mask = FALSE /\ ~wr.response
    BY <1>1, <1>2
  <2>3. (wr.desc \in Irq) = FALSE
    BY <2>1, <2>2
  <2>4. mask = (wr.desc \in Irq)
    BY <2>2, <2>3
  <2> QED
    BY <2>2, <2>4 DEF MaskInv, IrqIsOwn
<1>6. FlowInv
  <2>1. Line = <<>> /\ WrList = <<>> /\ RdList = <<>>
    BY <1>1, <1>2 DEF Line, WrList, RdList, ListOf
  <2>2. SoFar(wr.left, wr.desc) = 0 /\ SoFar(rd.left, rd.desc) = 0
    BY <1>1 DEF SoFar
  <2>3. PICK off : off = [k \in 1 .. 1 |-> 0]
    OBVIOUS
  <2>4. off[1] = 0 /\ \A k \in 1 .. 0 + 1 : off[k] \in Int
    BY <2>3
  <2>5. Between(<<>>, <<>>, <<>>, 0, 0, off, 0, 0, 0)
    BY <2>4 DEF Between
  <2>6. InStep(<<>>, <<>>, <<>>, 0, 0)
    BY <2>5 DEF InStep
  <2> QED
    BY <2>1, <2>2, <2>6 DEF FlowInv
<1> QED
  BY <1>3, <1>4, <1>5, <1>6 DEF OwnInv

LEMMA NextOwn == IInv /\ OwnInv /\ [Next]_vars => OwnInv'
<1> SUFFICES ASSUME IInv, OwnInv, [Next]_vars, Orderly'
             PROVE  (Calm /\ PaceInv /\ MaskInv /\ FlowInv)'
  BY DEF OwnInv
<1>1. host' = host
  BY DEF Next, Cycle, vars
<1>2. Orderly
  BY <1>1 DEF Orderly
<1>3. Calm /\ PaceInv /\ MaskInv /\ FlowInv
  BY <1>2 DEF OwnInv
<1>4. CASE Next
  <2>1. PICK access \in Accesses[host], readWaits \in BOOLEAN,
             writeWaits \in BOOLEAN, returns \in BOOLEAN :
             Cycle(access, readWaits, writeWaits, returns)
    BY <1>4 DEF Next
  <2>2. Edge(access, readWaits, writeWaits, returns)
    BY <1>2, <1>3, <2>1 DEF Edge
  <2> QED
    BY <1>3, <2>2, CalmStep, PaceStep, MaskStep, FlowStep
<1>5. CASE UNCHANGED vars
  <2>1. /\ rd' = rd /\ wr' = wr /\ queue' = queue /\ head' = head
        /\ control' = control /\ swReset' = swReset /\ mask' = mask
    BY <1>5 DEF vars, dispatcherVars
  <2>2. Calm'
    BY <1>3, <2>1 DEF Calm
  <2>3. PaceInv'
    BY <1>3, <2>1 DEF PaceInv, AllReturned, RdDone, Fresh, HeadNow
  <2>4. MaskInv'
    BY <1>3, <2>1 DEF MaskInv, IrqIsOwn
  <2>5. FlowInv'
    BY <1>3, <2>1 DEF FlowInv, WrList, RdList, Line
  <2> QED
    BY <2>2, <2>3, <2>4, <2>5
<1> QED
  BY <1>4, <1>5

\* Lists, words, commands and masks belong together in every state, as long as
\* the host is orderly.
THEOREM OwnInvariant == Spec => []OwnInv
<1>1. Init => IInv /\ OwnInv
  BY InitRoom, InitOwn
<1>2. (IInv /\ OwnInv) /\ [Next]_vars => (IInv /\ OwnInv)'
  BY StepRoom, NextOwn
<1> QED
  BY <1>1, <1>2, PTL DEF Spec

\* For a host that neither stops nor resets nor parks, every word that the
\* writer has on the bus is the next one of its own transfer, and the interrupt
\* at the end of a transfer is the one its descriptor asks for.
THEOREM TransfersKeepTheirOwn == Spec => []TransfersAreOwn
<1>1. IInv /\ OwnInv => TransfersAreOwn
  <2> SUFFICES ASSUME IInv, OwnInv, Orderly PROVE DataIsOwn /\ IrqIsOwn
    BY DEF TransfersAreOwn
  <2>1. Calm /\ PaceInv /\ MaskInv /\ FlowInv
    BY DEF OwnInv
  <2>2. ASSUME WrWrite
        PROVE  Head(wr.fifo) = <<wr.desc, Length[wr.desc] - wr.left + 1>>
    <3>1. /\ wr.fifo \in Seq(Word) /\ rd.fifo \in Seq(Word)
          /\ rd.pending \in Seq(Word) /\ wr.left \in Nat
          /\ queue["write"] \in Seq(Descs)
      BY DEF IInv, TypeOK, RdTypeOK, WrTypeOK, DispatcherTypeOK, Masters
    <3>2. wr.fifo # <<>> /\ wr.left > 0
      BY <2>2, <3>1 DEF WrWrite, WrDone
    <3>3. Line # <<>> /\ Line[1] = Head(wr.fifo)
      BY <3>2, LineIs
    <3>4. wr.desc \in Descs
      BY <2>1, <3>2 DEF PaceInv
    <3>5. WrList # <<>> /\ WrList[1] = wr.desc
      BY <3>1, <3>2, <3>4, ConsFacts DEF WrList, ListOf
    <3>6. SoFar(wr.left, wr.desc) = Length[wr.desc] - wr.left
      BY <3>2 DEF SoFar
    <3>7. Line[1] = <<WrList[1], SoFar(wr.left, wr.desc) + 1>>
      BY <2>1, <3>3, <3>5, FirstIsNext DEF FlowInv
    <3> QED
      BY <3>3, <3>5, <3>6, <3>7
  <2> QED
    BY <2>1, <2>2 DEF DataIsOwn, MaskInv
<1> QED
  BY <1>1, RoomInvariant, OwnInvariant, PTL

=============================================================================
