---------------------------- MODULE Tester_proof ----------------------------
(***************************************************************************)
(* Proofs about the read and write path, for any number of programs, any   *)
(* requests, buffers, windows and regions of any size, and a probe any of  *)
(* whose steps can fail: a call finds its device, owns the bounce buffer   *)
(* and reaches only what is mapped, rmmod gives everything back, what a    *)
(* call reports is what it has done, and the tester reads back what it     *)
(* wrote.                                                                  *)
(***************************************************************************)
EXTENDS Tester, TLAPS

\* What is held at each step of insmod and rmmod, as far as it matters.
LifeInv ==
    /\ users = {p \in Procs : pc[p] # "closed"}
    /\ users # {} => "node" \in held
    /\ "node" \in held => aclsoc /\ {"dev", "buffer"} \subseteq held
    /\ life \in {"buffer", "region", "class", "cdev", "node"} =>
           "node" \notin held /\ aclsoc /\ "dev" \in held
    /\ life \in {"region", "class", "cdev", "node"} => "buffer" \in held
    /\ life \in {"map2", "map0", "irq", "stuck"} => "node" \in held
    /\ life \in {"out", "dev"} \/ (life = "live" /\ ~aclsoc) =>
           held = {} /\ ~aclsoc
    /\ life \in Unloading \cup {"oops"} => users = {}
    /\ life \in {"unname", "unmap", "free"} => "irq" \notin held
    /\ life \in {"unmap", "free"} =>
           held \cap {"node", "class", "cdev", "region"} = {}
    /\ life = "free" => held \cap {"map0", "map2"} = {}

\* As far as the other parts need it.
TypeInv ==
    /\ LifeTypeOK
    /\ pc \in [Procs -> PCs]
    /\ req \in [Procs -> Requests \cup {NoRequest}]
    /\ frame \in [Procs -> [bar : Bars, done : Nat, i : Nat]]
    /\ holder \in Procs \cup {Nobody}
    /\ DOMAIN user = Procs
    /\ touch \in [bar : Bars, first : Nat, last : Int, by : Procs \cup {Nobody}]

\* Who is inside holds the semaphore.
LockInv == \A p \in Procs : pc[p] \in Inside => holder = p

Transfers == {r \in Requests : r.op \in Ops}
Moving == {"small", "fill", "dev", "spill"}

\* The progress of a call: whole words first, then single cells.
WorkInv(p) ==
    /\ pc[p] \in Inside \cup {"rw"} => req[p] \in Requests
    /\ pc[p] = "dispatch" => frame[p] = NewFrame
    /\ pc[p] = "command" => req[p].op = "command"
    /\ pc[p] \in Moving =>
           /\ req[p] \in Transfers
           /\ frame[p].bar = BarOf(req[p])
           /\ Checked(req[p])
    /\ pc[p] \in {"fill", "dev", "spill"} => frame[p].done < req[p].size
    /\ pc[p] = "fill" => req[p].op = "write" /\ frame[p].i = 0
    /\ pc[p] = "spill" => req[p].op = "read"
    /\ pc[p] \in {"dev", "spill"} => frame[p].i <= Chunk(p)
    /\ pc[p] = "dev" => InWords(p) <= frame[p].i \/ frame[p].i % Word = 0

\* The last access was made by a call that has not returned.
TouchInv ==
    /\ touch.by # Nobody => pc[touch.by] \in Inside
    /\ InRegion

\* The tester knows which test it is in.
TestInv ==
    /\ stage \in [Testers -> Stages]
    /\ DOMAIN test = Testers
    /\ \A t \in Testers : stage[t] \in {"write", "written"} => test[t] \in Sizes

\* A region is as large as it will be, or not mapped yet.
SizeInv == \A b \in Bars : size[b] \in {0, RegionSize[b]}

IInv ==
    /\ TypeInv /\ SizeInv /\ LifeInv /\ LockInv
    /\ \A p \in Procs : WorkInv(p)
    /\ BounceBufferIsMine /\ TouchInv /\ TestInv

----------------------------------------------------------------------------
(* Arithmetic *)

\* A word that begins before the end of the whole words ends there at latest.
LEMMA WholeWords ==
    ASSUME NEW i \in Nat, NEW c \in Nat,
           i % Word = 0, i < (c \div Word) * Word
    PROVE  /\ i + Word <= (c \div Word) * Word
           /\ (c \div Word) * Word <= c
           /\ (i + Word) % Word = 0
BY DEF Word

\* A sum below the width does not wrap around.
LEMMA SumIsPlain ==
    ASSUME NEW a \in Nat, NEW n \in Nat, a + n < Width
    PROVE  Sum(a, n) = a + n
BY PathAssumption DEF Sum

\* A chunk of a transfer that has not ended.
LEMMA ChunkIsLeft ==
    ASSUME TypeInv, NEW p \in Procs, req[p] \in Transfers,
           frame[p].done < req[p].size
    PROVE  /\ req[p] \in [op : Ops, bar : Nat, addr : 0 .. Width - 1, user : Nat,
                          size : 0 .. Width - 1]
           /\ Chunk(p) \in Nat /\ Chunk(p) <= Buf
           /\ frame[p].done + Chunk(p) <= req[p].size
           /\ frame[p].done \in Nat /\ frame[p].i \in Nat
<1>1. req[p] \in [op : Ops, bar : Nat, addr : 0 .. Width - 1, user : Nat,
                  size : 0 .. Width - 1]
  BY RequestAssumption DEF Transfers, Ops
<1>2. frame[p].done \in Nat /\ frame[p].i \in Nat
  BY DEF TypeInv
<1>3. req[p].size \in Nat /\ Buf \in Nat
  BY <1>1, PathAssumption
<1> QED
  BY <1>1, <1>2, <1>3 DEF Chunk

----------------------------------------------------------------------------
(* What a call shares with the others *)

\* What BounceBufferIsMine says of one call.
Buffered(p) ==
    IF req[p].op = "write"
    THEN \A c \in 0 .. Chunk(p) - 1 :
             buffer[c] = user[p][req[p].user + frame[p].done + c]
    ELSE \A c \in 0 .. frame[p].i - 1 :
             buffer[c] = ReadCell(frame[p].bar, req[p].addr + frame[p].done + c)

\* The property of the bounce buffer, call by call.
LEMMA BufferedEach ==
    BounceBufferIsMine <=>
        \A p \in Procs : pc[p] \in {"dev", "spill"} => Buffered(p)
BY DEF BounceBufferIsMine, Buffered

\* The parts of the invariant that are about the inside of calls.
InsideInv ==
    /\ SizeInv /\ LockInv
    /\ \A p \in Procs : WorkInv(p)
    /\ BounceBufferIsMine /\ TouchInv

\* A step of a program outside the semaphore disturbs nobody inside.
LEMMA QuietStep ==
    ASSUME IInv, NEW p \in Procs,
           pc[p] \notin Inside, pc'[p] \notin Inside,
           pc'[p] = "rw" => req'[p] \in Requests,
           \A q \in Procs \ {p} :
               pc'[q] = pc[q] /\ req'[q] = req[q] /\ user'[q] = user[q],
           frame' = frame, buffer' = buffer, mem' = mem, holder' = holder,
           touch' = NoTouch, size' = size
    PROVE  InsideInv'
<1>1. SizeInv' /\ LockInv'
  BY DEF IInv, SizeInv, LockInv
<1>2. ASSUME NEW q \in Procs PROVE WorkInv(q)'
  <2>1. CASE q = p
    BY <2>1 DEF WorkInv, Inside, Moving
  <2>2. CASE q # p
    <3>1. WorkInv(q) /\ pc'[q] = pc[q] /\ req'[q] = req[q]
      BY <2>2 DEF IInv
    <3> QED
      BY <3>1 DEF WorkInv, Checked, Chunk, InWords
  <2> QED
    BY <2>1, <2>2
<1>3. BounceBufferIsMine'
  <2>1. ASSUME NEW q \in Procs, pc'[q] \in {"dev", "spill"}
        PROVE  Buffered(q)'
    <3>1. q # p
      BY <2>1 DEF Inside
    <3>2. Buffered(q)
      BY <2>1, <3>1, BufferedEach DEF IInv
    <3> QED
      BY <3>1, <3>2 DEF Buffered, Chunk, ReadCell
  <2> QED
    BY <2>1 DEF BounceBufferIsMine, Buffered
<1>4. TouchInv'
  BY DEF TouchInv, InRegion, NoTouch
<1> QED
  BY <1>1, <1>2, <1>3, <1>4 DEF InsideInv

\* A call inside is alone, so it has to look after itself only.
LEMMA InsideStep ==
    ASSUME IInv, NEW p \in Procs, pc[p] \in Inside,
           \A q \in Procs \ {p} : pc'[q] = pc[q] /\ req'[q] = req[q],
           pc'[p] \in Inside => holder' = p,
           WorkInv(p)', pc'[p] \in {"dev", "spill"} => Buffered(p)',
           TouchInv', size' = size
    PROVE  InsideInv'
<1>1. \A q \in Procs \ {p} : pc[q] \notin Inside
  BY DEF IInv, LockInv
<1>2. SizeInv' /\ LockInv'
  BY <1>1 DEF IInv, SizeInv, LockInv
<1>3. ASSUME NEW q \in Procs PROVE WorkInv(q)'
  <2>1. CASE q # p
    <3>1. pc'[q] \notin Inside /\ (pc'[q] = "rw" => req'[q] \in Requests)
      BY <1>1, <2>1 DEF IInv, WorkInv
    <3> QED
      BY <3>1 DEF WorkInv, Inside, Moving
  <2> QED
    BY <2>1
<1>4. BounceBufferIsMine'
  <2>1. ASSUME NEW q \in Procs, pc'[q] \in {"dev", "spill"}
        PROVE  Buffered(q)'
    <3>1. q = p
      BY <1>1, <2>1 DEF Inside
    <3> QED
      BY <2>1, <3>1
  <2> QED
    BY <2>1 DEF BounceBufferIsMine, Buffered
<1> QED
  BY <1>2, <1>3, <1>4 DEF InsideInv

\* A step without an access to the hardware leaves nothing to show.
LEMMA NoAccess ==
    ASSUME touch' = NoTouch
    PROVE  TouchInv'
BY DEF TouchInv, InRegion, NoTouch

\* An access between the start of a transfer and its end, or the overhang.
LEMMA AccessStays ==
    ASSUME IInv, NEW p \in Procs, pc[p] \in Moving, pc'[p] \in Inside,
           NEW a \in Nat, NEW n \in Nat, Access(p, frame[p].bar, a, n),
           req[p].addr <= a, a + n <= req[p].addr + Written(req[p].size),
           Mapped(frame[p].bar), req' = req, held' = held
    PROVE  TouchInv'
<1>1. req[p] \in [op : Ops, bar : Nat, addr : 0 .. Width - 1, user : Nat,
                  size : 0 .. Width - 1]
  BY RequestAssumption DEF IInv, WorkInv, Transfers, Ops
<1>2. req[p].addr \in Nat /\ req[p].size \in Nat
  BY <1>1, PathAssumption
<1>3. Written(req[p].size) \in Nat
  BY <1>2 DEF Written
<1>4. touch'.by = p /\ touch'.first = a /\ touch'.last = a + n - 1
      /\ touch'.bar = frame[p].bar
  BY DEF Access
<1>5. Sum(req[p].addr, req[p].size) <= size[frame[p].bar]
  BY DEF IInv, WorkInv, Checked
<1>6. touch'.last < req[p].addr + Written(req[p].size)
  BY <1>2, <1>3, <1>4
<1>7. ASSUME req[p].addr + req[p].size < Width
      PROVE  req[p].addr + req[p].size <= RegionSize[frame[p].bar]
  <2>1. frame[p].bar \in Bars
    BY DEF IInv, TypeInv
  <2>2. RegionSize[frame[p].bar] \in Nat
    BY <2>1, LifeAssumption
  <2>3. size[frame[p].bar] \in {0, RegionSize[frame[p].bar]}
    BY <2>1 DEF IInv, SizeInv
  <2>4. req[p].addr + req[p].size <= size[frame[p].bar]
    BY <1>2, <1>5, <1>7, SumIsPlain
  <2> QED
    BY <1>2, <2>2, <2>3, <2>4
<1>8. Mapped(touch.bar)'
  BY <1>4 DEF Mapped
<1> QED
  BY <1>4, <1>6, <1>7, <1>8, PathAssumption DEF TouchInv, InRegion

----------------------------------------------------------------------------
(* Programs outside the driver, or at its door *)

\* open arrives at the semaphore.
LEMMA OpenCallKeeps ==
    ASSUME IInv, NEW p \in Procs, OpenCall(p)
    PROVE  TypeInv' /\ LifeInv' /\ InsideInv'
<1>1. TypeInv'
  <2>1. LifeTypeOK'
    BY DEF OpenCall, CanOpen, Arrive, At, lifeVars, IInv, TypeInv,
       LifeTypeOK
  <2>2. pc' \in [Procs -> PCs]
    BY DEF OpenCall, CanOpen, Arrive, At, IInv, TypeInv, PCs, Inside,
       Waiting
  <2>3. req' \in [Procs -> Requests \cup {NoRequest}]
    BY DEF OpenCall, CanOpen, Arrive, At, IInv, TypeInv
  <2>4. frame' \in [Procs -> [bar : Bars, done : Nat, i : Nat]]
    BY DEF OpenCall, CanOpen, Arrive, At, IInv, TypeInv, NewFrame, Bars
  <2>5. holder' \in Procs \cup {Nobody} /\ DOMAIN user' = Procs
    BY DEF OpenCall, CanOpen, Arrive, At, IInv, TypeInv, data, semVars
  <2>6. touch' \in [bar : Bars, first : Nat, last : Int, by : Procs \cup {Nobody}]
    BY DEF OpenCall, CanOpen, Arrive, At, IInv, TypeInv, NoTouch, Bars
  <2> QED
    BY ONLY <2>1, <2>2, <2>3, <2>4, <2>5, <2>6 DEF TypeInv
<1>2. LifeInv'
  BY <1>1 DEF OpenCall, CanOpen, Arrive, At, IInv, TypeInv, LifeInv, lifeVars
<1>3. InsideInv'
  <2>1. pc[p] \notin Inside /\ pc'[p] \notin Inside
    BY DEF OpenCall, CanOpen, Arrive, At, IInv, TypeInv, Inside
  <2> QED
    BY <2>1, QuietStep
    DEF OpenCall, CanOpen, Arrive, At, IInv, TypeInv, lifeVars, data, semVars
<1> QED
  BY <1>1, <1>2, <1>3

\* open runs to its end.
LEMMA OpenBodyKeeps ==
    ASSUME IInv, NEW p \in Procs, OpenBody(p)
    PROVE  TypeInv' /\ LifeInv' /\ InsideInv'
<1>1. TypeInv'
  <2>1. LifeTypeOK'
    BY DEF OpenBody, At, lifeVars, IInv, TypeInv, LifeTypeOK
  <2>2. pc' \in [Procs -> PCs]
    BY DEF OpenBody, At, IInv, TypeInv, PCs, Inside, Waiting
  <2>3. req' \in [Procs -> Requests \cup {NoRequest}]
    BY DEF OpenBody, At, IInv, TypeInv
  <2>4. frame' \in [Procs -> [bar : Bars, done : Nat, i : Nat]]
    BY DEF OpenBody, At, IInv, TypeInv, NewFrame, Bars
  <2>5. holder' \in Procs \cup {Nobody} /\ DOMAIN user' = Procs
    BY DEF OpenBody, At, IInv, TypeInv, data, semVars
  <2>6. touch' \in [bar : Bars, first : Nat, last : Int, by : Procs \cup {Nobody}]
    BY DEF OpenBody, At, IInv, TypeInv, NoTouch, Bars
  <2> QED
    BY ONLY <2>1, <2>2, <2>3, <2>4, <2>5, <2>6 DEF TypeInv
<1>2. LifeInv'
  BY <1>1 DEF OpenBody, At, IInv, TypeInv, LifeInv, lifeVars
<1>3. InsideInv'
  <2>1. pc[p] \notin Inside /\ pc'[p] \notin Inside
    BY DEF OpenBody, At, IInv, TypeInv, Inside
  <2> QED
    BY <2>1, QuietStep DEF OpenBody, At, IInv, TypeInv, lifeVars, data, semVars
<1> QED
  BY <1>1, <1>2, <1>3

\* A signal ends an open that sleeps.
LEMMA OpenInterruptedKeeps ==
    ASSUME IInv, NEW p \in Procs, OpenInterrupted(p)
    PROVE  TypeInv' /\ LifeInv' /\ InsideInv'
<1>1. TypeInv'
  <2>1. LifeTypeOK'
    BY DEF OpenInterrupted, Interrupted, At, lifeVars, IInv, TypeInv,
       LifeTypeOK
  <2>2. pc' \in [Procs -> PCs]
    BY DEF OpenInterrupted, Interrupted, At, IInv, TypeInv, PCs, Inside,
       Waiting
  <2>3. req' \in [Procs -> Requests \cup {NoRequest}]
    BY DEF OpenInterrupted, Interrupted, At, IInv, TypeInv
  <2>4. frame' \in [Procs -> [bar : Bars, done : Nat, i : Nat]]
    BY DEF OpenInterrupted, Interrupted, At, IInv, TypeInv, NewFrame, Bars
  <2>5. holder' \in Procs \cup {Nobody} /\ DOMAIN user' = Procs
    BY DEF OpenInterrupted, Interrupted, At, IInv, TypeInv, data, semVars
  <2>6. touch' \in [bar : Bars, first : Nat, last : Int, by : Procs \cup {Nobody}]
    BY DEF OpenInterrupted, Interrupted, At, IInv, TypeInv, NoTouch, Bars
  <2> QED
    BY ONLY <2>1, <2>2, <2>3, <2>4, <2>5, <2>6 DEF TypeInv
<1>2. LifeInv'
  BY <1>1
  DEF OpenInterrupted, Interrupted, At, semVars, data, IInv, TypeInv, LifeInv,
      lifeVars
<1>3. InsideInv'
  <2>1. pc[p] \notin Inside /\ pc'[p] \notin Inside
    BY DEF OpenInterrupted, Interrupted, At, semVars, data, IInv, TypeInv,
       Inside
  <2> QED
    BY <2>1, QuietStep
    DEF OpenInterrupted, Interrupted, At, semVars, data, IInv, TypeInv,
        lifeVars
<1> QED
  BY <1>1, <1>2, <1>3

\* close runs to its end.
LEMMA CloseBodyKeeps ==
    ASSUME IInv, NEW p \in Procs, CloseBody(p)
    PROVE  TypeInv' /\ LifeInv' /\ InsideInv'
<1>1. TypeInv'
  <2>1. LifeTypeOK'
    BY DEF CloseBody, At, lifeVars, IInv, TypeInv, LifeTypeOK
  <2>2. pc' \in [Procs -> PCs]
    BY DEF CloseBody, At, IInv, TypeInv, PCs, Inside, Waiting
  <2>3. req' \in [Procs -> Requests \cup {NoRequest}]
    BY DEF CloseBody, At, IInv, TypeInv
  <2>4. frame' \in [Procs -> [bar : Bars, done : Nat, i : Nat]]
    BY DEF CloseBody, At, IInv, TypeInv, NewFrame, Bars
  <2>5. holder' \in Procs \cup {Nobody} /\ DOMAIN user' = Procs
    BY DEF CloseBody, At, IInv, TypeInv, data, semVars
  <2>6. touch' \in [bar : Bars, first : Nat, last : Int, by : Procs \cup {Nobody}]
    BY DEF CloseBody, At, IInv, TypeInv, NoTouch, Bars
  <2> QED
    BY ONLY <2>1, <2>2, <2>3, <2>4, <2>5, <2>6 DEF TypeInv
<1>2. LifeInv'
  BY <1>1 DEF CloseBody, At, data, IInv, TypeInv, LifeInv, lifeVars
<1>3. InsideInv'
  <2>1. pc[p] \notin Inside /\ pc'[p] \notin Inside
    BY DEF CloseBody, At, data, IInv, TypeInv, Inside
  <2> QED
    BY <2>1, QuietStep
    DEF CloseBody, At, data, IInv, TypeInv, lifeVars, semVars
<1> QED
  BY <1>1, <1>2, <1>3

\* A signal ends a close that sleeps.
LEMMA CloseInterruptedKeeps ==
    ASSUME IInv, NEW p \in Procs, CloseInterrupted(p)
    PROVE  TypeInv' /\ LifeInv' /\ InsideInv'
<1>1. TypeInv'
  <2>1. LifeTypeOK'
    BY DEF CloseInterrupted, Interrupted, At, lifeVars, IInv, TypeInv,
       LifeTypeOK
  <2>2. pc' \in [Procs -> PCs]
    BY DEF CloseInterrupted, Interrupted, At, IInv, TypeInv, PCs, Inside,
       Waiting
  <2>3. req' \in [Procs -> Requests \cup {NoRequest}]
    BY DEF CloseInterrupted, Interrupted, At, IInv, TypeInv
  <2>4. frame' \in [Procs -> [bar : Bars, done : Nat, i : Nat]]
    BY DEF CloseInterrupted, Interrupted, At, IInv, TypeInv, NewFrame, Bars
  <2>5. holder' \in Procs \cup {Nobody} /\ DOMAIN user' = Procs
    BY DEF CloseInterrupted, Interrupted, At, IInv, TypeInv, data, semVars
  <2>6. touch' \in [bar : Bars, first : Nat, last : Int, by : Procs \cup {Nobody}]
    BY DEF CloseInterrupted, Interrupted, At, IInv, TypeInv, NoTouch, Bars
  <2> QED
    BY ONLY <2>1, <2>2, <2>3, <2>4, <2>5, <2>6 DEF TypeInv
<1>2. LifeInv'
  BY <1>1
  DEF CloseInterrupted, Interrupted, At, semVars, data, IInv, TypeInv, LifeInv,
      lifeVars
<1>3. InsideInv'
  <2>1. pc[p] \notin Inside /\ pc'[p] \notin Inside
    BY DEF CloseInterrupted, Interrupted, At, semVars, data, IInv, TypeInv,
       Inside
  <2> QED
    BY <2>1, QuietStep
    DEF CloseInterrupted, Interrupted, At, semVars, data, IInv, TypeInv,
        lifeVars
<1> QED
  BY <1>1, <1>2, <1>3

\* A signal ends a read or write that sleeps.
LEMMA CallInterruptedKeeps ==
    ASSUME IInv, NEW p \in Procs, CallInterrupted(p)
    PROVE  TypeInv' /\ LifeInv' /\ InsideInv'
<1>1. TypeInv'
  <2>1. LifeTypeOK'
    BY DEF CallInterrupted, Interrupted, At, lifeVars, IInv, TypeInv,
       LifeTypeOK
  <2>2. pc' \in [Procs -> PCs]
    BY DEF CallInterrupted, Interrupted, At, IInv, TypeInv, PCs, Inside,
       Waiting
  <2>3. req' \in [Procs -> Requests \cup {NoRequest}]
    BY DEF CallInterrupted, Interrupted, At, IInv, TypeInv
  <2>4. frame' \in [Procs -> [bar : Bars, done : Nat, i : Nat]]
    BY DEF CallInterrupted, Interrupted, At, IInv, TypeInv, NewFrame, Bars
  <2>5. holder' \in Procs \cup {Nobody} /\ DOMAIN user' = Procs
    BY DEF CallInterrupted, Interrupted, At, IInv, TypeInv, data, semVars
  <2>6. touch' \in [bar : Bars, first : Nat, last : Int, by : Procs \cup {Nobody}]
    BY DEF CallInterrupted, Interrupted, At, IInv, TypeInv, NoTouch, Bars
  <2> QED
    BY ONLY <2>1, <2>2, <2>3, <2>4, <2>5, <2>6 DEF TypeInv
<1>2. LifeInv'
  BY <1>1
  DEF CallInterrupted, Interrupted, At, semVars, data, IInv, TypeInv, LifeInv,
      lifeVars
<1>3. InsideInv'
  <2>1. pc[p] \notin Inside /\ pc'[p] \notin Inside
    BY DEF CallInterrupted, Interrupted, At, semVars, data, IInv, TypeInv,
       Inside
  <2> QED
    BY <2>1, QuietStep
    DEF CallInterrupted, Interrupted, At, semVars, data, IInv, TypeInv,
        lifeVars
<1> QED
  BY <1>1, <1>2, <1>3

\* A program ends and closes the device.
LEMMA ExitKeeps ==
    ASSUME IInv, NEW p \in Procs, Exit(p)
    PROVE  TypeInv' /\ LifeInv' /\ InsideInv'
<1>1. TypeInv'
  <2>1. LifeTypeOK'
    BY DEF Exit, CloseCall, Arrive, At, lifeVars, IInv, TypeInv, LifeTypeOK
  <2>2. pc' \in [Procs -> PCs]
    BY DEF Exit, CloseCall, Arrive, At, IInv, TypeInv, PCs, Inside, Waiting
  <2>3. req' \in [Procs -> Requests \cup {NoRequest}]
    BY DEF Exit, CloseCall, Arrive, At, IInv, TypeInv
  <2>4. frame' \in [Procs -> [bar : Bars, done : Nat, i : Nat]]
    BY DEF Exit, CloseCall, Arrive, At, IInv, TypeInv, NewFrame, Bars
  <2>5. holder' \in Procs \cup {Nobody} /\ DOMAIN user' = Procs
    BY DEF Exit, CloseCall, Arrive, At, IInv, TypeInv, data, semVars
  <2>6. touch' \in [bar : Bars, first : Nat, last : Int, by : Procs \cup {Nobody}]
    BY DEF Exit, CloseCall, Arrive, At, IInv, TypeInv, NoTouch, Bars
  <2> QED
    BY ONLY <2>1, <2>2, <2>3, <2>4, <2>5, <2>6 DEF TypeInv
<1>2. LifeInv'
  BY <1>1 DEF Exit, CloseCall, Arrive, At, IInv, TypeInv, LifeInv, lifeVars
<1>3. InsideInv'
  <2>1. pc[p] \notin Inside /\ pc'[p] \notin Inside
    BY DEF Exit, CloseCall, Arrive, At, IInv, TypeInv, Inside
  <2> QED
    BY <2>1, QuietStep
    DEF Exit, CloseCall, Arrive, At, IInv, TypeInv, lifeVars, data, semVars
<1> QED
  BY <1>1, <1>2, <1>3

\* A read, a write or a command arrives at the semaphore.
LEMMA CallKeeps ==
    ASSUME IInv, NEW p \in Procs, NEW r \in Requests, Call(p, r), UNCHANGED user
    PROVE  TypeInv' /\ LifeInv' /\ InsideInv'
<1>1. TypeInv'
  <2>1. LifeTypeOK'
    BY DEF Call, Arrive, At, lifeVars, IInv, TypeInv, LifeTypeOK
  <2>2. pc' \in [Procs -> PCs]
    BY DEF Call, Arrive, At, IInv, TypeInv, PCs, Inside, Waiting
  <2>3. req' \in [Procs -> Requests \cup {NoRequest}]
    BY DEF Call, Arrive, At, IInv, TypeInv
  <2>4. frame' \in [Procs -> [bar : Bars, done : Nat, i : Nat]]
    BY DEF Call, Arrive, At, IInv, TypeInv, NewFrame, Bars
  <2>5. holder' \in Procs \cup {Nobody} /\ DOMAIN user' = Procs
    BY DEF Call, Arrive, At, IInv, TypeInv, data, semVars
  <2>6. touch' \in [bar : Bars, first : Nat, last : Int, by : Procs \cup {Nobody}]
    BY DEF Call, Arrive, At, IInv, TypeInv, NoTouch, Bars
  <2> QED
    BY ONLY <2>1, <2>2, <2>3, <2>4, <2>5, <2>6 DEF TypeInv
<1>2. LifeInv'
  BY <1>1 DEF Call, Arrive, At, IInv, TypeInv, LifeInv, lifeVars
<1>3. InsideInv'
  <2>1. pc[p] \notin Inside /\ pc'[p] \notin Inside
    BY DEF Call, Arrive, At, IInv, TypeInv, Inside
  <2> QED
    BY <2>1, QuietStep
    DEF Call, Arrive, At, IInv, TypeInv, lifeVars, data, semVars
<1> QED
  BY <1>1, <1>2, <1>3

(* Calls inside the driver *)

\* A call is granted the semaphore.
LEMMA EnterKeeps ==
    ASSUME IInv, NEW p \in Procs, Enter(p)
    PROVE  TypeInv' /\ LifeInv' /\ InsideInv'
<1>1. TypeInv'
  <2>1. LifeTypeOK'
    BY DEF Enter, At, Granted, lifeVars, IInv, TypeInv, LifeTypeOK
  <2>2. pc' \in [Procs -> PCs]
    BY DEF Enter, At, Granted, IInv, TypeInv, PCs, Inside, Waiting
  <2>3. req' \in [Procs -> Requests \cup {NoRequest}]
    BY DEF Enter, At, Granted, IInv, TypeInv
  <2>4. frame' \in [Procs -> [bar : Bars, done : Nat, i : Nat]]
    BY DEF Enter, At, Granted, IInv, TypeInv, NewFrame, Bars
  <2>5. holder' \in Procs \cup {Nobody} /\ DOMAIN user' = Procs
    BY DEF Enter, At, Granted, IInv, TypeInv, data, semVars
  <2>6. touch' \in [bar : Bars, first : Nat, last : Int, by : Procs \cup {Nobody}]
    BY DEF Enter, At, Granted, IInv, TypeInv, NoTouch, Bars
  <2> QED
    BY ONLY <2>1, <2>2, <2>3, <2>4, <2>5, <2>6 DEF TypeInv
<1>2. LifeInv'
  BY <1>1 DEF Enter, At, Granted, IInv, TypeInv, LifeInv, lifeVars
<1>3. InsideInv'
  <2>1. pc[p] = "rw" /\ pc' = [pc EXCEPT ![p] = "dispatch"] /\ pc'[p] = "dispatch"
    BY DEF Enter, At, Granted, IInv, TypeInv
  <2>2. \A q \in Procs : pc[q] \notin Inside
    BY PathAssumption DEF Enter, At, Granted, IInv, LockInv
  <2>3. \A q \in Procs \ {p} : pc'[q] \notin Inside /\ pc'[q] = pc[q]
    BY <2>1, <2>2 DEF IInv, TypeInv
  <2>4. SizeInv' /\ LockInv'
    BY <2>3 DEF Enter, At, Granted, IInv, SizeInv, LockInv, lifeVars
  <2>5. WorkInv(p)'
    BY <2>1 DEF Enter, At, Granted, IInv, TypeInv, WorkInv, Inside, Moving
  <2>6. ASSUME NEW q \in Procs PROVE WorkInv(q)'
    <3>1. CASE q # p
      BY <2>3, <3>1 DEF Enter, At, Granted, IInv, WorkInv, Inside, Moving
    <3> QED
      BY <2>5, <3>1
  <2>7. \A q \in Procs : pc'[q] \notin {"dev", "spill"}
    BY <2>1, <2>3 DEF Inside
  <2>8. BounceBufferIsMine'
    BY <2>7 DEF BounceBufferIsMine
  <2>9. TouchInv'
    BY NoAccess DEF Enter
  <2> QED
    BY <2>4, <2>6, <2>8, <2>9 DEF InsideInv
<1> QED
  BY <1>1, <1>2, <1>3

\* A transfer passes the check and starts, or the call ends here.
LEMMA DispatchKeeps ==
    ASSUME IInv, NEW p \in Procs, Dispatch(p)
    PROVE  TypeInv' /\ LifeInv' /\ InsideInv'
<1>1. TypeInv'
  <2>1. \A r \in Requests : BarOf(r) \in Bars
    BY DEF BarOf, Bars
  <2>2. pc' \in [Procs -> PCs]
    BY SMTT(30) DEF Dispatch, Finish, IInv, TypeInv, PCs, Inside
  <2>3. frame' \in [Procs -> [bar : Bars, done : Nat, i : Nat]]
    BY <2>1 DEF Dispatch, Finish, IInv, TypeInv, WorkInv, Inside
  <2> QED
    BY <2>2, <2>3
    DEF Dispatch, IInv, TypeInv, LifeTypeOK, PCs, Inside, NewFrame, NoTouch,
        Bars, lifeVars, data, semVars
<1>2. LifeInv'
  BY <1>1 DEF Dispatch, Finish, IInv, TypeInv, LifeInv, lifeVars
<1>3. InsideInv'
  <2>1. pc[p] = "dispatch" /\ pc'[p] \in Inside /\ pc'[p] # "dispatch"
    BY DEF Dispatch, Finish, IInv, TypeInv, Inside
  <2>2. \A q \in Procs \ {p} : pc'[q] = pc[q]
    BY DEF Dispatch, Finish, IInv, TypeInv
  <2>3. holder' = p
    BY <2>1 DEF Dispatch, IInv, LockInv, Inside, semVars
  <2>4. req[p] \in Requests /\ frame[p] = NewFrame /\ req' = req
    BY <2>1 DEF Dispatch, IInv, WorkInv, Inside
  <2>5. WorkInv(p)'
    <3>1. CASE pc'[p] = "leave"
      BY <2>4, <3>1 DEF WorkInv, Moving
    <3>2. CASE pc'[p] = "command"
      <4>1. req[p].op = "command"
        BY <2>1, <3>2 DEF Dispatch, Finish, IInv, TypeInv
      <4> QED
        BY <2>4, <3>2, <4>1 DEF WorkInv, Moving
    <3>3. CASE pc'[p] \notin {"leave", "command"}
      <4>1. req[p].op \in Ops /\ Checked(req[p]) /\ req[p].size # 0
            /\ frame'[p] = [NewFrame EXCEPT !.bar = BarOf(req[p])]
            /\ size' = size
        BY <2>1, <2>4, <3>3 DEF Dispatch, Finish, IInv, TypeInv, lifeVars
      <4>2. req[p] \in Transfers
        BY <2>4, <4>1 DEF Transfers
      <4>3. req[p].size \in Nat \ {0}
        BY <4>1, <4>2, RequestAssumption, PathAssumption DEF Transfers, Ops
      <4>4. pc'[p] = "small" \/ (pc'[p] = "fill" /\ req[p].op = "write")
            \/ (pc'[p] = "dev" /\ req[p].op = "read")
        BY <2>1, <3>3, <4>1 DEF Dispatch, Finish, IInv, TypeInv, Ops
      <4>5. frame'[p].done = 0 /\ frame'[p].i = 0 /\ frame'[p].bar = BarOf(req[p])
        BY <4>1 DEF NewFrame
      <4>6. Checked(req[p])'
        BY <2>4, <4>1 DEF Checked
      <4>7. Chunk(p)' >= 0
        BY <2>4, <4>3, <4>5, PathAssumption DEF Chunk
      <4> QED
        BY <2>4, <4>2, <4>3, <4>4, <4>5, <4>6, <4>7
        DEF WorkInv, Inside, Moving, Word
    <3> QED
      BY <3>1, <3>2, <3>3
  <2>6. ASSUME pc'[p] \in {"dev", "spill"} PROVE Buffered(p)'
    <3>1. req[p].op = "read" /\ frame'[p].i = 0
      BY <2>1, <2>4, <2>6 DEF Dispatch, Finish, IInv, TypeInv, NewFrame, Ops
    <3> QED
      BY <2>4, <3>1 DEF Buffered
  <2>7. TouchInv'
    BY NoAccess DEF Dispatch
  <2>8. size' = size
    BY DEF Dispatch, lifeVars
  <2> QED
    BY <2>1, <2>2, <2>3, <2>4, <2>5, <2>6, <2>7, <2>8, InsideStep DEF Inside
<1> QED
  BY <1>1, <1>2, <1>3

\* A command takes or releases the interrupt, nothing else.
LEMMA CommandKeeps ==
    ASSUME IInv, NEW p \in Procs, Command(p)
    PROVE  TypeInv' /\ LifeInv' /\ InsideInv'
<1>0. pc[p] = "command" /\ pc'[p] = "leave" /\ req[p].op = "command"
  BY DEF Command, Finish, IInv, TypeInv, WorkInv
<1>1. TypeInv'
  <2>1. held' \subseteq Things
    BY DEF Command, IInv, TypeInv, LifeTypeOK, Things
  <2>2. touch' \in [bar : Bars, first : Nat, last : Int, by : Procs \cup {Nobody}]
    BY DEF Command, Access, NoTouch, Bars
  <2> QED
    BY <2>1, <2>2
    DEF Command, Finish, IInv, TypeInv, LifeTypeOK, PCs, Inside, NewFrame,
        NoTouch, Bars, lifeVars, data, semVars
<1>2. LifeInv'
  <2>1. p \in users /\ "node" \in held
    BY <1>0 DEF IInv, LifeInv
  <2>2. users' = users /\ life' = life /\ aclsoc' = aclsoc
        /\ held' \cup {"irq"} = held \cup {"irq"}
    BY DEF Command
  <2>3. users = {q \in Procs : pc'[q] # "closed"}
    BY <1>0 DEF Command, Finish, IInv, TypeInv, LifeInv
  <2>4. life \notin Unloading \cup {"oops", "out", "dev", "buffer", "region",
                                  "class", "cdev", "node"} /\ aclsoc
    BY <2>1 DEF IInv, LifeInv
  <2>5. "node" \in held' /\ {"dev", "buffer"} \subseteq held'
    BY <2>1, <2>2 DEF IInv, LifeInv
  <2> QED
    BY <2>1, <2>2, <2>3, <2>4, <2>5 DEF LifeInv, Unloading
<1>3. InsideInv'
  <2>1. WorkInv(p)'
    BY <1>0 DEF Command, IInv, WorkInv, Inside, Moving
  <2>2. TouchInv'
    <3>1. CASE touch' = NoTouch
      BY <3>1, NoAccess
    <3>2. CASE WritesEnable(req[p].cmd) /\ Access(p, 2, 0, 4)
      <4>1. "map2" \in held
        BY <1>0, <3>2 DEF Command, Astray, Mapped
      <4>2. "map2" \in held'
        BY <4>1 DEF Command
      <4>3. touch'.by = p /\ touch'.bar = 2 /\ Mapped(touch.bar)'
        BY <3>2, <4>2 DEF Access, Mapped
      <4>4. req'[p].op \notin Ops
        BY <1>0 DEF Command, Ops
      <4> QED
        BY <1>0, <4>3, <4>4 DEF TouchInv, InRegion, Inside
    <3> QED
      BY <3>1, <3>2 DEF Command
  <2>3. \A q \in Procs \ {p} : pc'[q] = pc[q] /\ req'[q] = req[q]
    BY DEF Command, Finish, IInv, TypeInv
  <2>4. holder' = p /\ size' = size
    BY <1>0 DEF Command, IInv, LockInv, Inside, semVars
  <2> QED
    BY <1>0, <2>1, <2>2, <2>3, <2>4, InsideStep DEF Inside
<1> QED
  BY <1>1, <1>2, <1>3

(* Data on its way *)

\* A read of 1, 2 or 4 cells.
LEMMA ReadSmallKeeps ==
    ASSUME IInv, NEW p \in Procs, ReadSmall(p)
    PROVE  TypeInv' /\ LifeInv' /\ InsideInv'
<1>0. pc[p] = "small" /\ pc'[p] = "leave" /\ req' = req /\ size' = size
      /\ held' = held /\ holder' = p /\ \A q \in Procs \ {p} : pc'[q] = pc[q]
  BY DEF ReadSmall, Finish, IInv, TypeInv, LockInv, Inside, lifeVars, semVars
<1>4. /\ req[p].addr \in Nat /\ req[p].size \in Nat
      /\ Written(req[p].size) \in Nat /\ req[p].size <= Written(req[p].size)
  <2>1. req[p] \in [op : Ops, bar : Nat, addr : 0 .. Width - 1, user : Nat,
                    size : 0 .. Width - 1]
    BY <1>0, RequestAssumption DEF IInv, WorkInv, Transfers, Ops, Moving
  <2> QED
    BY <2>1, PathAssumption DEF Written
<1>5. Access(p, frame[p].bar, req[p].addr, req[p].size)
  BY DEF ReadSmall
<1>6. Mapped(frame[p].bar)
  BY <1>0 DEF ReadSmall, Astray
<1>1. TypeInv'
  <2>1. touch' \in [bar : Bars, first : Nat, last : Int, by : Procs \cup {Nobody}]
    BY <1>4, <1>5 DEF Access, IInv, TypeInv, Bars
  <2> QED
    BY <2>1
    DEF ReadSmall, Finish, CopyOut, IInv, TypeInv, LifeTypeOK, PCs, Inside,
        NewFrame, NoTouch, Bars, lifeVars, data, semVars
<1>2. LifeInv'
  BY <1>1 DEF ReadSmall, Finish, IInv, TypeInv, LifeInv, lifeVars
<1>3. InsideInv'
  <2>1. WorkInv(p)'
    BY <1>0 DEF IInv, WorkInv, Inside, Moving
  <2>3. TouchInv'
    BY <1>0, <1>4, <1>5, <1>6, AccessStays DEF Moving, Inside
  <2> QED
    BY <1>0, <2>1, <2>3, InsideStep DEF Inside
<1> QED
  BY <1>1, <1>2, <1>3

\* A write of 1, 2 or 4 cells, overhang included.
LEMMA WriteSmallKeeps ==
    ASSUME IInv, NEW p \in Procs, WriteSmall(p)
    PROVE  TypeInv' /\ LifeInv' /\ InsideInv'
<1>0. pc[p] = "small" /\ pc'[p] = "leave" /\ req' = req /\ size' = size
      /\ held' = held /\ holder' = p /\ \A q \in Procs \ {p} : pc'[q] = pc[q]
  BY DEF WriteSmall, Finish, IInv, TypeInv, LockInv, Inside, lifeVars, semVars
<1>4. /\ req[p].addr \in Nat /\ req[p].size \in Nat
      /\ Written(req[p].size) \in Nat /\ req[p].size <= Written(req[p].size)
  <2>1. req[p] \in [op : Ops, bar : Nat, addr : 0 .. Width - 1, user : Nat,
                    size : 0 .. Width - 1]
    BY <1>0, RequestAssumption DEF IInv, WorkInv, Transfers, Ops, Moving
  <2> QED
    BY <2>1, PathAssumption DEF Written
<1>5. Access(p, frame[p].bar, req[p].addr, Written(req[p].size))
  BY DEF WriteSmall
<1>6. Mapped(frame[p].bar)
  BY <1>0 DEF WriteSmall, Astray
<1>1. TypeInv'
  <2>1. touch' \in [bar : Bars, first : Nat, last : Int, by : Procs \cup {Nobody}]
    BY <1>4, <1>5 DEF Access, IInv, TypeInv, Bars
  <2> QED
    BY <2>1
    DEF WriteSmall, Finish, CopyOut, IInv, TypeInv, LifeTypeOK, PCs, Inside,
        NewFrame, NoTouch, Bars, lifeVars, data, semVars
<1>2. LifeInv'
  BY <1>1 DEF WriteSmall, Finish, IInv, TypeInv, LifeInv, lifeVars
<1>3. InsideInv'
  <2>1. WorkInv(p)'
    BY <1>0 DEF IInv, WorkInv, Inside, Moving
  <2>3. TouchInv'
    BY <1>0, <1>4, <1>5, <1>6, AccessStays DEF Moving, Inside
  <2> QED
    BY <1>0, <2>1, <2>3, InsideStep DEF Inside
<1> QED
  BY <1>1, <1>2, <1>3

\* The bounce buffer is filled with the caller's data.
LEMMA FillKeeps ==
    ASSUME IInv, NEW p \in Procs, Fill(p)
    PROVE  TypeInv' /\ LifeInv' /\ InsideInv'
<1>0. pc[p] = "fill" /\ pc'[p] \in {"dev", "leave"} /\ req' = req
      /\ frame' = frame /\ user' = user /\ size' = size
      /\ holder' = p /\ \A q \in Procs \ {p} : pc'[q] = pc[q]
  BY DEF Fill, Finish, IInv, TypeInv, LockInv, Inside, lifeVars, semVars
<1>1. TypeInv'
  <2>1. pc' \in [Procs -> PCs]
    BY DEF Fill, Finish, IInv, TypeInv, PCs, Inside
  <2> QED
    BY <1>0, <2>1
    DEF Fill, IInv, TypeInv, LifeTypeOK, NoTouch, Bars, lifeVars, semVars
<1>2. LifeInv'
  BY <1>1, SMTT(30) DEF Fill, Finish, IInv, TypeInv, LifeInv, lifeVars
<1>3. InsideInv'
  <2>1. /\ req[p] \in Transfers /\ req[p].op = "write" /\ frame[p].i = 0
        /\ frame[p].done < req[p].size /\ WorkInv(p)
    BY <1>0 DEF IInv, WorkInv, Moving
  <2>2. /\ req[p].user \in Nat /\ frame[p].done \in Nat
        /\ Chunk(p) \in Nat /\ Chunk(p) <= Buf
    BY <2>1, ChunkIsLeft DEF IInv
  <2>3. WorkInv(p)'
    BY <1>0, <2>1, <2>2
    DEF WorkInv, Checked, Chunk, InWords, Inside, Moving, Word
  <2>4. ASSUME pc'[p] \in {"dev", "spill"} PROVE Buffered(p)'
    <3>1. Readable(req[p].user + frame[p].done, Chunk(p))
      BY <1>0, <2>4 DEF Fill, Finish, IInv, TypeInv
    <3>2. Chunk(p)' = Chunk(p)
      BY <1>0 DEF Chunk
    <3>3. ASSUME NEW c \in 0 .. Chunk(p) - 1
          PROVE  buffer'[c] = user[p][req[p].user + frame[p].done + c]
      <4>1. c \in 0 .. Buf - 1 /\ c < Chunk(p)
        BY <2>2, PathAssumption
      <4>2. req[p].user + frame[p].done + c \in UserAddrs
        BY <2>2, <3>1, <3>3, PathAssumption DEF Readable, UserAddrs
      <4>3. buffer'[c] = CopyIn(p, req[p].user + frame[p].done, Chunk(p))[c]
        BY <4>1 DEF Fill
      <4> QED
        BY <3>3, <4>2, <4>3 DEF CopyIn
    <3> QED
      BY <1>0, <2>1, <3>2, <3>3 DEF Buffered
  <2>5. TouchInv'
    BY NoAccess DEF Fill
  <2> QED
    BY <1>0, <2>3, <2>4, <2>5, InsideStep DEF Inside
<1> QED
  BY <1>1, <1>2, <1>3

\* A word or a cell passes between the buffer and the device.
LEMMA TransferKeeps ==
    ASSUME IInv, NEW p \in Procs, Transfer(p)
    PROVE  TypeInv' /\ LifeInv' /\ InsideInv'
<1> DEFINE n == IF frame[p].i < InWords(p) THEN Word ELSE 1
           j == frame[p].i
           at == req[p].addr + frame[p].done + j
<1>0. pc[p] = "dev" /\ pc' = pc /\ req' = req /\ user' = user /\ size' = size
      /\ held' = held /\ holder' = p /\ j < Chunk(p)
      /\ frame' = [frame EXCEPT ![p].i = j + n]
  BY DEF Transfer, IInv, LockInv, Inside, lifeVars, semVars
<1>4. /\ req[p] \in Transfers /\ frame[p].done < req[p].size /\ WorkInv(p)
      /\ (InWords(p) <= j \/ j % Word = 0)
  BY <1>0 DEF IInv, WorkInv, Moving
<1>5. /\ req[p].addr \in Nat /\ req[p].size \in Nat /\ req[p].op \in Ops
      /\ Chunk(p) \in Nat /\ Chunk(p) <= Buf
      /\ frame[p].done + Chunk(p) <= req[p].size
      /\ frame[p].done \in Nat /\ j \in Nat
  BY <1>4, ChunkIsLeft, PathAssumption DEF IInv
<1>6. n \in Nat /\ at \in Nat /\ j + n <= Chunk(p)
      /\ (InWords(p) <= j + n \/ (j + n) % Word = 0)
  <2>1. InWords(p) \in Nat /\ InWords(p) <= Chunk(p)
    BY <1>5 DEF InWords, Word
  <2>2. CASE j < InWords(p)
    BY <1>4, <1>5, <2>1, <2>2, WholeWords DEF InWords, Word
  <2>3. CASE ~(j < InWords(p))
    BY <1>0, <1>5, <2>1, <2>3
  <2> QED
    BY <2>2, <2>3
<1>7. frame'[p].i = j + n /\ frame'[p].done = frame[p].done
      /\ frame'[p].bar = frame[p].bar
  BY <1>0 DEF IInv, TypeInv
<1>8. Access(p, frame[p].bar, at, n) /\ Mapped(frame[p].bar)
  BY DEF Transfer, Astray
<1>1. TypeInv'
  <2>1. touch' \in [bar : Bars, first : Nat, last : Int, by : Procs \cup {Nobody}]
    BY <1>6, <1>8 DEF Access, IInv, TypeInv, Bars
  <2>2. frame' \in [Procs -> [bar : Bars, done : Nat, i : Nat]]
    BY <1>0, <1>5, <1>6 DEF IInv, TypeInv
  <2> QED
    BY <1>0, <2>1, <2>2
    DEF Transfer, IInv, TypeInv, LifeTypeOK, lifeVars, semVars
<1>2. LifeInv'
  BY <1>0 DEF Transfer, IInv, LifeInv, lifeVars
<1>3. InsideInv'
  <2>1. Chunk(p)' = Chunk(p) /\ InWords(p)' = InWords(p)
    BY <1>0, <1>7 DEF Chunk, InWords
  <2>2. WorkInv(p)'
    BY <1>0, <1>4, <1>6, <1>7, <2>1 DEF WorkInv, Checked, Inside, Moving
  <2>3. Buffered(p)'
    <3>1. Buffered(p)
      BY <1>0, BufferedEach DEF IInv
    <3>2. CASE req[p].op = "write"
      BY <1>0, <1>7, <2>1, <3>1, <3>2 DEF Buffered, Transfer
    <3>3. CASE req[p].op = "read"
      <4>0. buffer' = [c \in 0 .. Buf - 1 |->
                          IF j <= c /\ c < j + n
                          THEN ReadCell(frame[p].bar, at + c - j) ELSE buffer[c]]
        BY <3>3 DEF Transfer
      <4>1. mem' = mem
        BY <3>3 DEF Transfer
      <4>2. ASSUME NEW c \in 0 .. j + n - 1
            PROVE  buffer'[c] = ReadCell(frame[p].bar, req[p].addr + frame[p].done + c)
        <5>1. c \in 0 .. Buf - 1
          BY <1>5, <1>6, PathAssumption
        <5>2. CASE c < j
          <6>1. buffer'[c] = buffer[c]
            BY <1>5, <1>6, <3>3, <5>1, <5>2 DEF Transfer
          <6> QED
            BY <1>5, <3>1, <3>3, <5>2, <6>1 DEF Buffered
        <5>3. CASE ~(c < j)
          <6>1. buffer'[c] = ReadCell(frame[p].bar, at + c - j)
            <7>1. c \in Int /\ j \in Int /\ j <= c /\ c < j + n
              BY <1>5, <1>6, <4>2, <5>3
            <7> QED
              BY ONLY <4>0, <5>1, <7>1
          <6>2. at + c - j = req[p].addr + frame[p].done + c
            BY <1>5
          <6> QED
            BY <6>1, <6>2
        <5> QED
          BY <5>2, <5>3
      <4>3. ASSUME NEW c \in 0 .. frame'[p].i - 1
            PROVE  buffer'[c] = ReadCell(frame[p].bar, req[p].addr + frame[p].done + c)'
        <5>1. c \in 0 .. j + n - 1
          BY <1>5, <1>6, <1>7, <4>3
        <5>2. buffer'[c] = ReadCell(frame[p].bar, req[p].addr + frame[p].done + c)
          BY <4>2, <5>1
        <5>3. ReadCell(frame[p].bar, req[p].addr + frame[p].done + c)'
              = ReadCell(frame[p].bar, req[p].addr + frame[p].done + c)
          BY <1>0, <1>7, <4>1 DEF ReadCell
        <5> QED
          BY <5>2, <5>3
      <4>4. req'[p].op # "write"
        BY <1>0, <3>3
      <4> QED
        BY <4>3, <4>4 DEF Buffered
    <3> QED
      BY <1>5, <3>2, <3>3 DEF Ops
  <2>4. TouchInv'
    <3>1. req[p].addr <= at /\ at + n <= req[p].addr + Written(req[p].size)
      BY <1>5, <1>6 DEF Written
    <3> QED
      BY <1>0, <1>6, <1>8, <3>1, AccessStays DEF Moving, Inside
  <2> QED
    BY <1>0, <2>2, <2>3, <2>4, InsideStep DEF Inside
<1> QED
  BY <1>1, <1>2, <1>3

(* The end of a chunk and the end of a call *)

\* A chunk of a write has ended.
LEMMA ChunkWrittenKeeps ==
    ASSUME IInv, NEW p \in Procs, ChunkWritten(p)
    PROVE  TypeInv' /\ LifeInv' /\ InsideInv'
<1>0. pc[p] = "dev" /\ pc'[p] \in {"fill", "leave"} /\ req' = req
      /\ size' = size /\ holder' = p
      /\ (\A q \in Procs \ {p} : pc'[q] = pc[q])
      /\ frame' = [frame EXCEPT ![p].done = frame[p].done + Chunk(p), ![p].i = 0]
      /\ (pc'[p] = "fill" => frame[p].done + Chunk(p) < req[p].size)
  BY DEF ChunkWritten, NextChunk, Finish, IInv, TypeInv, LockInv, Inside,
         lifeVars, semVars
<1>4. /\ req[p] \in Transfers /\ req[p].op = "write" /\ WorkInv(p)
      /\ frame[p].done < req[p].size
  BY <1>0 DEF ChunkWritten, IInv, WorkInv, Moving
<1>5. Chunk(p) \in Nat /\ frame[p].done \in Nat /\ frame[p].i \in Nat
      /\ req[p].size \in Nat
  BY <1>4, ChunkIsLeft, PathAssumption DEF IInv
<1>6. pc'[p] = "fill" =>
          /\ frame'[p].i = 0 /\ frame'[p].bar = frame[p].bar
          /\ frame'[p].done = frame[p].done + Chunk(p)
  BY <1>0, <1>5 DEF IInv, TypeInv
<1>1. TypeInv'
  <2>1. pc' \in [Procs -> PCs]
    BY SMTT(30) DEF ChunkWritten, NextChunk, Finish, IInv, TypeInv, PCs, Inside
  <2>2. frame' \in [Procs -> [bar : Bars, done : Nat, i : Nat]]
    <3>1. frame[p].done + Chunk(p) \in Nat
      BY <1>5
    <3>2. frame \in [Procs -> [bar : Bars, done : Nat, i : Nat]]
      BY DEF IInv, TypeInv
    <3>3. PICK done \in Nat : done = frame[p].done + Chunk(p)
      BY ONLY <3>1
    <3>4. frame' = [frame EXCEPT ![p].done = done, ![p].i = 0]
      BY ONLY <1>0, <3>3
    <3> QED
      BY ONLY <3>2, <3>4
  <2>3. DOMAIN user' = Procs
    BY DEF ChunkWritten, CopyOut, data, IInv, TypeInv
  <2> QED
    BY <2>1, <2>2, <2>3
    DEF ChunkWritten, IInv, TypeInv, LifeTypeOK, NoTouch, Bars, lifeVars,
                      semVars, data
<1>2. LifeInv'
  BY <1>0, <1>1 DEF ChunkWritten, IInv, TypeInv, LifeInv, lifeVars
<1>3. InsideInv'
  <2>1. WorkInv(p)'
    <3>1. CASE pc'[p] = "leave"
      BY <1>0, <3>1 DEF IInv, WorkInv, Inside, Moving
    <3>2. CASE pc'[p] = "fill"
      <4>1. frame'[p].done < req[p].size
        BY <1>0, <1>6, <3>2
      <4> QED
        BY <1>0, <1>4, <1>6, <3>2, <4>1 DEF WorkInv, Checked, Inside, Moving
    <3> QED
      BY <1>0, <3>1, <3>2
  <2>2. TouchInv'
    BY NoAccess DEF ChunkWritten
  <2> QED
    BY <1>0, <2>1, <2>2, InsideStep DEF Inside
<1> QED
  BY <1>1, <1>2, <1>3

\* A chunk of a read has come in.
LEMMA ChunkReadKeeps ==
    ASSUME IInv, NEW p \in Procs, ChunkRead(p)
    PROVE  TypeInv' /\ LifeInv' /\ InsideInv'
<1>0. pc[p] = "dev" /\ pc'[p] = "spill" /\ req' = req /\ frame' = frame
      /\ size' = size /\ holder' = p /\ buffer' = buffer /\ mem' = mem
      /\ req[p].op = "read" /\ frame[p].i = Chunk(p)
      /\ (\A q \in Procs \ {p} : pc'[q] = pc[q])
  BY DEF ChunkRead, At, IInv, TypeInv, LockInv, Inside, lifeVars, semVars, data
<1>1. TypeInv'
  <2>1. LifeTypeOK'
    BY DEF ChunkRead, At, lifeVars, IInv, TypeInv, LifeTypeOK
  <2>2. pc' \in [Procs -> PCs]
    BY DEF ChunkRead, At, IInv, TypeInv, PCs, Inside, Waiting
  <2>3. req' \in [Procs -> Requests \cup {NoRequest}]
    BY DEF ChunkRead, At, IInv, TypeInv
  <2>4. frame' \in [Procs -> [bar : Bars, done : Nat, i : Nat]]
    BY DEF ChunkRead, At, IInv, TypeInv, NewFrame, Bars
  <2>5. holder' \in Procs \cup {Nobody} /\ DOMAIN user' = Procs
    BY DEF ChunkRead, At, IInv, TypeInv, data, semVars
  <2>6. touch' \in [bar : Bars, first : Nat, last : Int, by : Procs \cup {Nobody}]
    BY DEF ChunkRead, At, IInv, TypeInv, NoTouch, Bars
  <2> QED
    BY ONLY <2>1, <2>2, <2>3, <2>4, <2>5, <2>6 DEF TypeInv
<1>2. LifeInv'
  BY <1>1 DEF ChunkRead, At, IInv, TypeInv, LifeInv, lifeVars
<1>3. InsideInv'
  <2>1. WorkInv(p)'
    <3>1. WorkInv(p) /\ Chunk(p)' = Chunk(p) /\ frame'[p].i <= Chunk(p)
      BY <1>0 DEF IInv, WorkInv, Chunk
    <3> QED
      BY <1>0, <3>1 DEF WorkInv, Checked, Inside, Moving
  <2>2. Buffered(p)'
    <3>1. Buffered(p)
      BY <1>0, BufferedEach DEF IInv
    <3> QED
      BY <1>0, <3>1 DEF Buffered, ReadCell
  <2>3. TouchInv'
    BY NoAccess DEF ChunkRead
  <2> QED
    BY <1>0, <2>1, <2>2, <2>3, InsideStep DEF Inside
<1> QED
  BY <1>1, <1>2, <1>3

\* A chunk of a read goes to the caller.
LEMMA SpillKeeps ==
    ASSUME IInv, NEW p \in Procs, Spill(p)
    PROVE  TypeInv' /\ LifeInv' /\ InsideInv'
<1>0. pc[p] = "spill" /\ pc'[p] \in {"dev", "leave"} /\ req' = req
      /\ size' = size /\ holder' = p
      /\ (\A q \in Procs \ {p} : pc'[q] = pc[q])
      /\ frame' \in {frame, [frame EXCEPT ![p].done = frame[p].done + Chunk(p),
                                          ![p].i = 0]}
      /\ (pc'[p] = "dev" =>
              /\ frame' = [frame EXCEPT ![p].done = frame[p].done + Chunk(p),
                                        ![p].i = 0]
              /\ frame[p].done + Chunk(p) < req[p].size)
  BY DEF Spill, NextChunk, Finish, IInv, TypeInv, LockInv, Inside, lifeVars,
     semVars
<1>4. /\ req[p] \in Transfers /\ req[p].op = "read" /\ WorkInv(p)
      /\ frame[p].done < req[p].size
  BY <1>0 DEF Spill, IInv, WorkInv, Moving
<1>5. Chunk(p) \in Nat /\ frame[p].done \in Nat /\ frame[p].i \in Nat
      /\ req[p].size \in Nat
  BY <1>4, ChunkIsLeft, PathAssumption DEF IInv
<1>6. pc'[p] = "dev" =>
          /\ frame'[p].i = 0 /\ frame'[p].bar = frame[p].bar
          /\ frame'[p].done = frame[p].done + Chunk(p)
  BY <1>0, <1>5 DEF IInv, TypeInv
<1>1. TypeInv'
  <2>1. pc' \in [Procs -> PCs]
    BY DEF Spill, NextChunk, Finish, IInv, TypeInv, PCs, Inside
  <2>2. frame' \in [Procs -> [bar : Bars, done : Nat, i : Nat]]
    <3>1. frame[p].done + Chunk(p) \in Nat
      BY <1>5
    <3>2. frame \in [Procs -> [bar : Bars, done : Nat, i : Nat]]
      BY DEF IInv, TypeInv
    <3>3. PICK done \in Nat : done = frame[p].done + Chunk(p)
      BY ONLY <3>1
    <3>4. frame' \in {frame, [frame EXCEPT ![p].done = done, ![p].i = 0]}
      BY ONLY <1>0, <3>3
    <3>5. CASE frame' = frame
      BY ONLY <3>2, <3>5
    <3>6. CASE frame' = [frame EXCEPT ![p].done = done, ![p].i = 0]
      BY ONLY <3>2, <3>6
    <3> QED
      BY ONLY <3>4, <3>5, <3>6
  <2>3. DOMAIN user' = Procs
    BY DEF Spill, CopyOut, data, IInv, TypeInv
  <2> QED
    BY <2>1, <2>2, <2>3
    DEF Spill, IInv, TypeInv, LifeTypeOK, NoTouch, Bars, lifeVars,
                      semVars, data
<1>2. LifeInv'
  BY <1>0, <1>1 DEF Spill, IInv, TypeInv, LifeInv, lifeVars
<1>3. InsideInv'
  <2>1. WorkInv(p)'
    <3>1. CASE pc'[p] = "leave"
      BY <1>0, <3>1 DEF IInv, WorkInv, Inside, Moving
    <3>2. CASE pc'[p] = "dev"
      <4>1. frame'[p].done < req[p].size
        BY <1>0, <1>6, <3>2
      <4>2. 0 <= Chunk(p)'
        BY <1>0, <1>5, <1>6, <3>2, <4>1, PathAssumption DEF Chunk
      <4> QED
        BY <1>0, <1>4, <1>6, <3>2, <4>1, <4>2
           DEF WorkInv, Checked, Inside, Moving, Word
    <3> QED
      BY <1>0, <3>1, <3>2
  <2>2. ASSUME pc'[p] = "dev" PROVE Buffered(p)'
    BY <1>0, <1>4, <1>6, <2>2 DEF Buffered
  <2>3. TouchInv'
    BY NoAccess DEF Spill
  <2> QED
    BY <1>0, <2>1, <2>2, <2>3, InsideStep DEF Inside
<1> QED
  BY <1>1, <1>2, <1>3

\* A call releases the semaphore and returns.
LEMMA ReturnKeeps ==
    ASSUME IInv, NEW p \in Procs, Return(p)
    PROVE  TypeInv' /\ LifeInv' /\ InsideInv'
<1>0. pc[p] = "leave" /\ pc'[p] = "idle" /\ size' = size
      /\ (\A q \in Procs \ {p} : pc'[q] = pc[q] /\ req'[q] = req[q])
  BY DEF Return, Leave, At, Forget, IInv, TypeInv, lifeVars
<1>1. TypeInv'
  <2>1. frame' \in [Procs -> [bar : Bars, done : Nat, i : Nat]]
    BY DEF Return, Leave, Forget, NewFrame, Bars, IInv, TypeInv
  <2>2. DOMAIN user' = Procs
    BY DEF Return, IInv, TypeInv
  <2>3. pc' \in [Procs -> PCs]
    BY DEF Return, Leave, At, IInv, TypeInv, PCs
  <2> QED
    BY <2>1, <2>2, <2>3
    DEF Return, Leave, Up, Forget, IInv, TypeInv, LifeTypeOK, NoTouch, Bars,
        lifeVars
<1>2. LifeInv'
  BY <1>1 DEF Return, Leave, At, IInv, TypeInv, LifeInv, lifeVars
<1>3. InsideInv'
  <2>1. WorkInv(p)'
    BY <1>0 DEF WorkInv, Inside, Moving
  <2>2. TouchInv'
    BY NoAccess DEF Return, Leave, Forget
  <2> QED
    BY <1>0, <2>1, <2>2, InsideStep DEF Inside
<1> QED
  BY <1>1, <1>2, <1>3

\* A process dies in the driver and keeps the semaphore.
LEMMA DieKeeps ==
    ASSUME IInv, NEW p \in Procs, Die(p)
    PROVE  TypeInv' /\ LifeInv' /\ InsideInv'
<1>0. pc[p] \in {"command", "small", "dev"} /\ pc'[p] = "dead" /\ size' = size
      /\ (\A q \in Procs \ {p} : pc'[q] = pc[q] /\ req'[q] = req[q])
  BY DEF Die, Astray, Outside, IInv, TypeInv
<1>1. TypeInv'
  <2>1. held' \subseteq Things
    BY DEF Die, IInv, TypeInv, LifeTypeOK, Things
  <2>2. pc' \in [Procs -> PCs]
    BY DEF Die, IInv, TypeInv, PCs
  <2> QED
    BY <2>1, <2>2
    DEF Die, IInv, TypeInv, LifeTypeOK, NoTouch, Bars, data, semVars
<1>2. LifeInv'
  <2>1. p \in users /\ "node" \in held
    BY <1>0 DEF IInv, LifeInv
  <2>2. users' = users /\ life' = life /\ aclsoc' = aclsoc
        /\ held' \cup {"irq"} = held \cup {"irq"}
    BY DEF Die
  <2>3. users = {q \in Procs : pc'[q] # "closed"}
    BY <1>0 DEF Die, IInv, TypeInv, LifeInv
  <2>4. life \notin Unloading \cup {"oops", "out", "dev", "buffer", "region",
                                  "class", "cdev", "node"} /\ aclsoc
    BY <2>1 DEF IInv, LifeInv
  <2>5. "node" \in held' /\ {"dev", "buffer"} \subseteq held'
    BY <2>1, <2>2 DEF IInv, LifeInv
  <2> QED
    BY <2>1, <2>2, <2>3, <2>4, <2>5 DEF LifeInv, Unloading
<1>3. InsideInv'
  <2>1. WorkInv(p)'
    BY <1>0 DEF WorkInv, Inside, Moving
  <2>2. TouchInv'
    BY NoAccess DEF Die
  <2> QED
    BY <1>0, <2>1, <2>2, InsideStep DEF Inside
<1> QED
  BY <1>1, <1>2, <1>3

\* A process dies in mmap().
LEMMA MmapNoTableKeeps ==
    ASSUME IInv, NEW p \in Procs, MmapNoTable(p)
    PROVE  TypeInv' /\ LifeInv' /\ InsideInv'
<1>1. TypeInv'
  <2>1. LifeTypeOK' /\ pc' \in [Procs -> PCs]
    BY DEF MmapNoTable, At, lifeVars, IInv, TypeInv, LifeTypeOK, PCs
  <2> QED
    BY <2>1 DEF MmapNoTable, IInv, TypeInv, NoTouch, Bars, data, semVars
<1>2. LifeInv'
  BY <1>1 DEF MmapNoTable, At, IInv, TypeInv, LifeInv, lifeVars
<1>3. InsideInv'
  <2>1. pc[p] \notin Inside /\ pc'[p] \notin Inside
    BY DEF MmapNoTable, At, IInv, TypeInv, Inside
  <2> QED
    BY <2>1, QuietStep
    DEF MmapNoTable, At, IInv, TypeInv, lifeVars, data, semVars
<1> QED
  BY <1>1, <1>2, <1>3

----------------------------------------------------------------------------
(* The tester *)

\* A tester prepares a test.
LEMMA PrepareKeeps ==
    ASSUME IInv, NEW p \in Procs, Prepare(p)
    PROVE  TypeInv' /\ LifeInv' /\ InsideInv'
<1>1. TypeInv'
  <2>1. LifeTypeOK'
    BY DEF Prepare, lifeVars, IInv, TypeInv, LifeTypeOK
  <2>2. pc' \in [Procs -> PCs]
    BY DEF Prepare, IInv, TypeInv, PCs, Inside, Waiting
  <2>3. req' \in [Procs -> Requests \cup {NoRequest}]
    BY DEF Prepare, IInv, TypeInv
  <2>4. frame' \in [Procs -> [bar : Bars, done : Nat, i : Nat]]
    BY DEF Prepare, IInv, TypeInv, NewFrame, Bars
  <2>5. holder' \in Procs \cup {Nobody} /\ DOMAIN user' = Procs
    BY DEF Prepare, IInv, TypeInv, data, semVars
  <2>6. touch' \in [bar : Bars, first : Nat, last : Int, by : Procs \cup {Nobody}]
    BY DEF Prepare, IInv, TypeInv, NoTouch, Bars
  <2> QED
    BY ONLY <2>1, <2>2, <2>3, <2>4, <2>5, <2>6 DEF TypeInv
<1>2. LifeInv'
  BY DEF Prepare, IInv, LifeInv, lifeVars
<1>3. InsideInv'
  BY QuietStep DEF Prepare, Inside, IInv, TypeInv, lifeVars, data, semVars
<1> QED
  BY <1>1, <1>2, <1>3

\* A tester has read back.
LEMMA ReturnedKeeps ==
    ASSUME IInv, NEW p \in Procs, Returned(p)
    PROVE  TypeInv' /\ LifeInv' /\ InsideInv'
<1>1. TypeInv'
  <2>1. LifeTypeOK'
    BY DEF Returned, lifeVars, IInv, TypeInv, LifeTypeOK
  <2>2. pc' \in [Procs -> PCs]
    BY DEF Returned, IInv, TypeInv, PCs, Inside, Waiting
  <2>3. req' \in [Procs -> Requests \cup {NoRequest}]
    BY DEF Returned, IInv, TypeInv
  <2>4. frame' \in [Procs -> [bar : Bars, done : Nat, i : Nat]]
    BY DEF Returned, IInv, TypeInv, NewFrame, Bars
  <2>5. holder' \in Procs \cup {Nobody} /\ DOMAIN user' = Procs
    BY DEF Returned, IInv, TypeInv, data, semVars
  <2>6. touch' \in [bar : Bars, first : Nat, last : Int, by : Procs \cup {Nobody}]
    BY DEF Returned, IInv, TypeInv, NoTouch, Bars
  <2> QED
    BY ONLY <2>1, <2>2, <2>3, <2>4, <2>5, <2>6 DEF TypeInv
<1>2. LifeInv'
  BY DEF Returned, IInv, LifeInv, lifeVars
<1>3. InsideInv'
  BY QuietStep DEF Returned, Inside, IInv, TypeInv, lifeVars, data, semVars
<1> QED
  BY <1>1, <1>2, <1>3

\* A tester compares.
LEMMA CompareKeeps ==
    ASSUME IInv, NEW p \in Procs, Compare(p)
    PROVE  TypeInv' /\ LifeInv' /\ InsideInv'
<1>1. TypeInv'
  <2>1. LifeTypeOK'
    BY DEF Compare, lifeVars, IInv, TypeInv, LifeTypeOK
  <2>2. pc' \in [Procs -> PCs]
    BY DEF Compare, IInv, TypeInv, PCs, Inside, Waiting
  <2>3. req' \in [Procs -> Requests \cup {NoRequest}]
    BY DEF Compare, IInv, TypeInv
  <2>4. frame' \in [Procs -> [bar : Bars, done : Nat, i : Nat]]
    BY DEF Compare, IInv, TypeInv, NewFrame, Bars
  <2>5. holder' \in Procs \cup {Nobody} /\ DOMAIN user' = Procs
    BY DEF Compare, IInv, TypeInv, data, semVars
  <2>6. touch' \in [bar : Bars, first : Nat, last : Int, by : Procs \cup {Nobody}]
    BY DEF Compare, IInv, TypeInv, NoTouch, Bars
  <2> QED
    BY ONLY <2>1, <2>2, <2>3, <2>4, <2>5, <2>6 DEF TypeInv
<1>2. LifeInv'
  BY DEF Compare, IInv, LifeInv, lifeVars
<1>3. InsideInv'
  BY QuietStep DEF Compare, Inside, IInv, TypeInv, lifeVars, data, semVars
<1> QED
  BY <1>1, <1>2, <1>3

\* A tester's calls are requests that the driver may meet.
LEMMA TesterCallKeeps ==
    ASSUME IInv, NEW t \in Testers, WriteTest(t) \/ ReadTest(t)
    PROVE  TypeInv' /\ LifeInv' /\ InsideInv'
<1>1. t \in Procs /\ test[t] \in Sizes
  BY TesterAssumption DEF WriteTest, ReadTest, Stage, IInv, TestInv
<1>2. \A op \in Ops : TestRequest(op, test[t]) \in Requests
  BY <1>1, TesterAssumption
<1>3. "read" \in Ops /\ "write" \in Ops
  BY DEF Ops
<1>4. \E r \in Requests : Call(t, r) /\ UNCHANGED user
  BY <1>2, <1>3 DEF WriteTest, ReadTest
<1> QED
  BY <1>1, <1>4, CallKeeps

\* The test a tester is in is one of its tests.
LEMMA TestStays ==
    ASSUME IInv, Next
    PROVE  TestInv'
<1>1. CASE UNCHANGED testVars
  BY <1>1 DEF IInv, TestInv, testVars
<1>2. ASSUME NEW p \in Procs, InDriver(p) PROVE TestInv'
  BY <1>2 DEF InDriver, Seen, IInv, TestInv
<1>3. ASSUME NEW t \in Testers,
             \/ Prepare(t) \/ WriteTest(t) \/ ReadTest(t) \/ Returned(t)
             \/ Compare(t)
      PROVE  TestInv'
  <2>1. stage' \in [Testers -> Stages] /\ DOMAIN test' = Testers
    BY <1>3 DEF Prepare, WriteTest, ReadTest, Returned, Compare, Stage, Stages,
                IInv, TestInv
  <2>2. ASSUME NEW u \in Testers, stage'[u] \in {"write", "written"}
        PROVE  test'[u] \in Sizes
    BY <1>3, <2>2 DEF Prepare, WriteTest, ReadTest, Returned, Compare, Stage,
                IInv, TestInv
  <2> QED
    BY <2>1, <2>2 DEF TestInv
<1> QED
  BY <1>1, <1>2, <1>3, Zenon
  DEF Next, TesterStep, TesterExit, TesterMaps, ProgramStep

----------------------------------------------------------------------------
(* insmod and rmmod *)

\* A region only grows while somebody has the device open.
LEMMA RegionsGrow ==
    ASSUME IInv, LifeNext
    PROVE  /\ SizeInv'
           /\ users # {} => users' = users /\ \A b \in Bars : size[b] <= size'[b]
<1>1. RegionSize \in [Bars -> Nat] /\ size \in [Bars -> Nat]
  BY LifeAssumption DEF IInv, TypeInv, LifeTypeOK
<1>2. CASE size' = size
  BY <1>1, <1>2
  DEF IInv, SizeInv, LifeNext, Insmod, Probe, AllocDev, AllocDevFails,
     AllocBuffer, AllocBufferFails, AddName, AddNameFails, Fail, MapRegions, MapRegion,
     HookIrq, HookIrqFails, Remove, Rmmod, Unhook, Unname, Unmap, FreeAll,
     FreeNoTable, Release
<1>3. ASSUME NEW b \in Bars, size' = [size EXCEPT ![b] = RegionSize[b]],
             users' = users
      PROVE  /\ SizeInv'
             /\ \A c \in Bars : size[c] <= size'[c]
  BY <1>1, <1>3 DEF IInv, SizeInv
<1>4. CASE MapRegions
  BY <1>3, <1>4 DEF MapRegions, MapRegion, Bars
<1>5. CASE FreeAll
  <2>1. users = {}
    BY <1>5 DEF FreeAll, Release, IInv, LifeInv, Unloading
  <2> QED
    BY <1>5, <2>1 DEF FreeAll, SizeInv
<1> QED
  BY <1>2, <1>4, <1>5 DEF LifeNext, Insmod, Probe, AllocDev, AllocDevFails,
     AllocBuffer, AllocBufferFails, AddName, AddNameFails, Fail, HookIrq,
     HookIrqFails, Remove, Rmmod, Unhook, Unname, Unmap, FreeNoTable

\* Nothing is given back while somebody has the device open.
LEMMA NothingGoes ==
    ASSUME IInv, LifeNext, users # {}
    PROVE  held \subseteq held'
<1>1. life \notin Unloading \cup {"out", "dev", "buffer", "region", "class",
                              "cdev", "node"}
  BY DEF IInv, LifeInv
<1>2. HookIrq \/ HookIrqFails \/ MapRegions \/ Rmmod
  BY <1>1
  DEF LifeNext, Insmod, Probe, AllocDev, AllocDevFails, AllocBuffer,
      AllocBufferFails, AddName, AddNameFails, Fail, Acquire, Remove, Unhook,
      Unname, Unmap, FreeAll, FreeNoTable, Release, Unloading
<1> QED
  BY <1>2 DEF HookIrq, HookIrqFails, MapRegions, MapRegion, Rmmod, Acquire

\* What is held follows the steps of insmod and rmmod.
LEMMA LifeNextKeeps ==
    ASSUME IInv, LifeNext, pc' = pc
    PROVE  LifeTypeOK' /\ LifeInv'
<1> USE DEF Things, Unloading
<1>1. RegionSize \in [Bars -> Nat]
  BY LifeAssumption
<1>2. CASE Insmod
  <2>1. LifeTypeOK'
    BY <1>2 DEF Insmod, IInv, TypeInv, LifeTypeOK, Steps
  <2>2. LifeInv'
    BY <1>2 DEF Insmod, IInv, TypeInv, LifeTypeOK, LifeInv
  <2> QED
    BY <2>1, <2>2
<1>3. CASE AllocDev
  <2>1. LifeTypeOK'
    BY <1>3 DEF AllocDev, Acquire, IInv, TypeInv, LifeTypeOK, Steps
  <2>2. LifeInv'
    BY <1>3 DEF AllocDev, Acquire, IInv, TypeInv, LifeTypeOK, LifeInv
  <2> QED
    BY <2>1, <2>2
<1>4. CASE AllocDevFails
  <2>1. LifeTypeOK'
    BY <1>4 DEF AllocDevFails, Fail, IInv, TypeInv, LifeTypeOK, Steps
  <2>2. LifeInv'
    BY <1>4 DEF AllocDevFails, Fail, IInv, TypeInv, LifeTypeOK, LifeInv
  <2> QED
    BY <2>1, <2>2
<1>5. CASE AllocBuffer
  <2>1. LifeTypeOK'
    BY <1>5 DEF AllocBuffer, Tables, Acquire, IInv, TypeInv, LifeTypeOK, Steps
  <2>2. LifeInv'
    BY <1>5 DEF AllocBuffer, Tables, Acquire, IInv, TypeInv, LifeTypeOK, LifeInv
  <2> QED
    BY <2>1, <2>2
<1>6. CASE AllocBufferFails
  <2>1. LifeTypeOK'
    BY <1>6 DEF AllocBufferFails, Tables, IInv, TypeInv, LifeTypeOK, Steps
  <2>2. LifeInv'
    BY <1>6 DEF AllocBufferFails, Tables, IInv, TypeInv, LifeTypeOK, LifeInv
  <2> QED
    BY <2>1, <2>2
<1>7. CASE AddName
  <2>1. LifeTypeOK'
    BY <1>7 DEF AddName, Acquire, IInv, TypeInv, LifeTypeOK, Steps
  <2>2. LifeInv'
    BY <1>7 DEF AddName, Acquire, IInv, TypeInv, LifeTypeOK, LifeInv
  <2> QED
    BY <2>1, <2>2
<1>8. CASE AddNameFails
  <2>1. LifeTypeOK'
    BY <1>8 DEF AddNameFails, Fail, IInv, TypeInv, LifeTypeOK, Steps
  <2>2. LifeInv'
    BY <1>8 DEF AddNameFails, Fail, IInv, TypeInv, LifeTypeOK, LifeInv
  <2> QED
    BY <2>1, <2>2
<1>9. CASE MapRegions
  <2>1. LifeTypeOK'
    BY <1>9, <1>1
    DEF MapRegions, MapRegion, Acquire, IInv, TypeInv, LifeTypeOK, Steps, Bars
  <2>2. LifeInv'
    BY <1>9
    DEF MapRegions, MapRegion, Acquire, IInv, TypeInv, LifeTypeOK, LifeInv
  <2> QED
    BY <2>1, <2>2
<1>10. CASE HookIrq
  <2>1. LifeTypeOK'
    BY <1>10 DEF HookIrq, Acquire, IInv, TypeInv, LifeTypeOK, Steps
  <2>2. LifeInv'
    BY <1>10 DEF HookIrq, Acquire, IInv, TypeInv, LifeTypeOK, LifeInv
  <2> QED
    BY <2>1, <2>2
<1>11. CASE HookIrqFails
  <2>1. LifeTypeOK'
    BY <1>11 DEF HookIrqFails, IInv, TypeInv, LifeTypeOK, Steps
  <2>2. LifeInv'
    BY <1>11 DEF HookIrqFails, IInv, TypeInv, LifeTypeOK, LifeInv
  <2> QED
    BY <2>1, <2>2
<1>12. CASE Rmmod
  <2>1. LifeTypeOK'
    BY <1>12 DEF Rmmod, IInv, TypeInv, LifeTypeOK, Steps
  <2>2. LifeInv'
    BY <1>12 DEF Rmmod, IInv, TypeInv, LifeTypeOK, LifeInv
  <2> QED
    BY <2>1, <2>2
<1>13. CASE Unhook
  <2>1. LifeTypeOK'
    BY <1>13 DEF Unhook, Release, IInv, TypeInv, LifeTypeOK, Steps
  <2>2. LifeInv'
    BY <1>13 DEF Unhook, Release, IInv, TypeInv, LifeTypeOK, LifeInv
  <2> QED
    BY <2>1, <2>2
<1>14. CASE Unname
  <2>1. LifeTypeOK'
    BY <1>14 DEF Unname, Release, IInv, TypeInv, LifeTypeOK, Steps
  <2>2. LifeInv'
    BY <1>14 DEF Unname, Release, IInv, TypeInv, LifeTypeOK, LifeInv
  <2> QED
    BY <2>1, <2>2
<1>15. CASE Unmap
  <2>1. LifeTypeOK'
    BY <1>15 DEF Unmap, Release, IInv, TypeInv, LifeTypeOK, Steps
  <2>2. LifeInv'
    BY <1>15 DEF Unmap, Release, IInv, TypeInv, LifeTypeOK, LifeInv
  <2> QED
    BY <2>1, <2>2
<1>16. CASE FreeAll
  <2>1. LifeTypeOK'
    BY <1>16 DEF FreeAll, Release, IInv, TypeInv, LifeTypeOK, Steps
  <2>2. LifeInv'
    BY <1>16 DEF FreeAll, Release, IInv, TypeInv, LifeTypeOK, LifeInv
  <2> QED
    BY <2>1, <2>2
<1>17. CASE FreeNoTable
  <2>1. LifeTypeOK'
    BY <1>17 DEF FreeNoTable, Release, IInv, TypeInv, LifeTypeOK, Steps
  <2>2. LifeInv'
    BY <1>17 DEF FreeNoTable, Release, IInv, TypeInv, LifeTypeOK, LifeInv
  <2> QED
    BY <2>1, <2>2
<1> QED
  BY <1>2, <1>3, <1>4, <1>5, <1>6, <1>7, <1>8, <1>9, <1>10, <1>11, <1>12,
     <1>13, <1>14, <1>15, <1>16, <1>17
  DEF LifeNext, Probe, Remove

\* insmod and rmmod disturb no call that is under way.
LEMMA LifeStepKeeps ==
    ASSUME IInv, LifeStep
    PROVE  TypeInv' /\ LifeInv' /\ InsideInv'
<1> USE DEF LifeStep, pathVars, semVars, data
<1>1. TypeInv' /\ LifeInv'
  BY LifeNextKeeps DEF IInv, TypeInv
<1>2. SizeInv' /\ LockInv'
  BY RegionsGrow DEF IInv, LockInv
<1>3. ASSUME NEW b \in Bars, users # {}
      PROVE  size[b] \in Nat /\ size'[b] \in Nat /\ size[b] <= size'[b]
  BY <1>1, <1>3, RegionsGrow DEF IInv, TypeInv, LifeTypeOK
<1>4. ASSUME NEW p \in Procs PROVE WorkInv(p)'
  <2>1. ASSUME pc[p] \in Moving PROVE Checked(req[p])'
    <3>1. p \in users /\ BarOf(req[p]) \in Bars
      BY <2>1 DEF IInv, LifeInv, Moving, BarOf, Bars
    <3>2. Sum(req[p].addr, req[p].size) <= size[BarOf(req[p])]
      BY <2>1 DEF IInv, WorkInv, Checked
    <3>3. Sum(req[p].addr, req[p].size) \in Nat
      BY <2>1, RequestAssumption, PathAssumption
      DEF IInv, WorkInv, Transfers, Ops, Sum
    <3> QED
      BY <1>3, <3>1, <3>2, <3>3 DEF Checked
  <2> QED
    BY <2>1 DEF IInv, WorkInv, Chunk, InWords
<1>5. BounceBufferIsMine'
  <2>1. ASSUME NEW p \in Procs, pc'[p] \in {"dev", "spill"} PROVE Buffered(p)'
    BY <2>1, BufferedEach DEF IInv, Buffered, Chunk, ReadCell
  <2> QED
    BY <2>1 DEF BounceBufferIsMine, Buffered
<1>6. TouchInv'
  <2>1. ASSUME touch.by # Nobody PROVE Mapped(touch.bar)'
    <3>1. touch.by \in users /\ Mapped(touch.bar)
      BY <2>1 DEF IInv, TypeInv, LifeInv, TouchInv, InRegion, Inside
    <3> QED
      BY <3>1, NothingGoes DEF Mapped
  <2> QED
    BY <2>1 DEF IInv, TouchInv, InRegion
<1> QED
  BY <1>1, <1>2, <1>4, <1>5, <1>6 DEF InsideInv

----------------------------------------------------------------------------
(* The inductive invariant *)

\* Nothing is held and nobody has the device open.
LEMMA InitHolds == TestInit => IInv
<1> SUFFICES ASSUME TestInit PROVE IInv
  OBVIOUS
<1> USE DEF TestInit, Init, LifeInit, PathInit
<1>1. TypeInv /\ SizeInv
  <2>1. LifeTypeOK /\ SizeInv
    BY DEF LifeTypeOK, Bars, SizeInv
  <2>2. touch \in [bar : Bars, first : Nat, last : Int, by : Procs \cup {Nobody}]
    BY DEF NoTouch, Bars
  <2>3. frame \in [Procs -> [bar : Bars, done : Nat, i : Nat]]
    BY DEF NewFrame, Bars
  <2> QED
    BY <2>1, <2>2, <2>3 DEF TypeInv, PCs
<1>2. LifeInv /\ LockInv
  BY DEF LifeInv, LockInv, Inside, Unloading
<1>3. \A p \in Procs : WorkInv(p)
  BY DEF WorkInv, Inside, Moving
<1>4. BounceBufferIsMine
  BY DEF BounceBufferIsMine
<1>5. TouchInv
  BY DEF TouchInv, InRegion, NoTouch
<1>6. TestInv
  BY DEF TestInv, Stages
<1> QED
  BY <1>1, <1>2, <1>3, <1>4, <1>5, <1>6 DEF IInv

\* A call of another program.
LEMMA ProgramCallKeeps ==
    ASSUME IInv, NEW p \in Procs, ProgramCall(p)
    PROVE  TypeInv' /\ LifeInv' /\ InsideInv'
BY CallKeeps, TesterAssumption DEF ProgramCall

\* A signal reaches a process that sleeps.
LEMMA SignalledKeeps ==
    ASSUME IInv, NEW p \in Procs, Signalled(p)
    PROVE  TypeInv' /\ LifeInv' /\ InsideInv'
BY OpenInterruptedKeeps, CloseInterruptedKeeps, CallInterruptedKeeps
DEF Signalled

\* A call that has begun goes on.
LEMMA ProceedKeeps ==
    ASSUME IInv, NEW p \in Procs, Proceed(p)
    PROVE  TypeInv' /\ LifeInv' /\ InsideInv'
BY OpenBodyKeeps, CloseBodyKeeps, EnterKeeps, DispatchKeeps, CommandKeeps,
   ReadSmallKeeps, WriteSmallKeeps, FillKeeps, TransferKeeps, ChunkWrittenKeeps,
   ChunkReadKeeps, SpillKeeps, DieKeeps, Zenon DEF Proceed

\* The invariant is inductive.
LEMMA NextKeeps == IInv /\ [Next]_allVars => IInv'
<1>1. ASSUME IInv, Next PROVE IInv'
  <2>1. TestInv'
    BY <1>1, TestStays
  <2>2. CASE LifeStep
    BY <1>1, <2>1, <2>2, LifeStepKeeps DEF IInv, InsideInv
  <2>3. ASSUME NEW t \in Testers, TesterStep(t) PROVE IInv'
    <3>1. t \in Procs
      BY <2>3, TesterAssumption
    <3>2. TypeInv' /\ LifeInv' /\ InsideInv'
      BY <1>1, <2>3, <3>1, PrepareKeeps, TesterCallKeeps, ReturnedKeeps,
         CompareKeeps, ExitKeeps, OpenCallKeeps, SignalledKeeps,
         MmapNoTableKeeps, Zenon
         DEF TesterStep, TesterExit, TesterMaps
    <3> QED
      BY <2>1, <3>2 DEF IInv, InsideInv
  <2>4. ASSUME NEW p \in Procs, ProgramStep(p) PROVE IInv'
    <3>1. TypeInv' /\ LifeInv' /\ InsideInv'
      BY <1>1, <2>4, ExitKeeps, OpenCallKeeps, SignalledKeeps,
         ProgramCallKeeps, MmapNoTableKeeps, Zenon
         DEF ProgramStep
    <3> QED
      BY <2>1, <3>1 DEF IInv, InsideInv
  <2>5. ASSUME NEW p \in Procs, InDriver(p) PROVE IInv'
    <3>1. TypeInv' /\ LifeInv' /\ InsideInv'
      BY <1>1, <2>5, ProceedKeeps, ReturnKeeps, Zenon DEF InDriver
    <3> QED
      BY <2>1, <3>1 DEF IInv, InsideInv
  <2> QED
    BY <1>1, <2>2, <2>3, <2>4, <2>5, Zenon DEF Next
<1>2. ASSUME IInv, UNCHANGED allVars PROVE IInv'
  <2> USE <1>2 DEF allVars, vars, lifeVars, pathVars, semVars, data, testVars
  <2>1. TypeInv' /\ SizeInv' /\ LifeInv' /\ LockInv'
    BY DEF IInv, TypeInv, LifeTypeOK, SizeInv, LifeInv, LockInv
  <2>2. (\A p \in Procs : WorkInv(p))' /\ BounceBufferIsMine'
    BY DEF IInv, WorkInv, Checked, Chunk, InWords, BounceBufferIsMine, ReadCell
  <2>3. TouchInv' /\ TestInv'
    BY DEF IInv, TouchInv, InRegion, Mapped, TestInv
  <2> QED
    BY <2>1, <2>2, <2>3 DEF IInv
<1> QED
  BY <1>1, <1>2

----------------------------------------------------------------------------
(* Theorems *)

\* The invariant on which the others rest: who is inside a call of the
\* driver, what the module holds then, and how far the transfer has come.
THEOREM PathInv == Spec => []IInv
BY InitHolds, NextKeeps, PTL DEF Spec

\* A process that has the device open finds the device and the bounce buffer,
\* and no rmmod under way, at every point of insmod and whichever steps of the
\* probe fail, the unnoticed ones included.
THEOREM DeviceOutlivesCalls == Spec => []CallsFindTheirDevice
<1>1. ASSUME IInv PROVE CallsFindTheirDevice
  <2>1. ASSUME NEW p \in Procs, pc[p] # "closed"
        PROVE  "node" \in held /\ life \notin Unloading \cup {"oops"}
    BY <1>1, <2>1 DEF IInv, LifeInv
  <2> QED
    BY <1>1, <2>1 DEF CallsFindTheirDevice, IInv, LifeInv
<1> QED
  BY <1>1, PathInv, PTL

\* rmmod gives back whatever the probe has acquired, and the interrupt even if
\* hosts have released and requested it with SAVE and LOAD.
THEOREM NothingIsLeftBehind == Spec => []UnloadReturnsAll
<1>1. ASSUME IInv PROVE UnloadReturnsAll
  BY <1>1 DEF IInv, LifeInv, UnloadReturnsAll
<1> QED
  BY <1>1, PathInv, PTL

\* No call finds another call's data in the bounce buffer, for buffers of any
\* size and transfers of any number of chunks.
THEOREM BufferIsNeverShared == Spec => []BounceBufferIsMine
<1>1. ASSUME IInv PROVE BounceBufferIsMine
  BY <1>1 DEF IInv
<1> QED
  BY <1>1, PathInv, PTL

\* Every access reaches a region that is mapped, and a transfer whose end does
\* not wrap around stays inside it, but for the overhang of a write of two
\* bytes, for regions, windows and transfers of any size and a probe that
\* goes on, or has failed, around it.
THEOREM TransfersStayInside == Spec => []InRegion
<1>1. ASSUME IInv PROVE InRegion
  BY <1>1 DEF IInv, TouchInv
<1> QED
  BY <1>1, PathInv, PTL

----------------------------------------------------------------------------
(* Data: what a transfer has moved *)

\* What the first n cells of a write have done to memory.
MemIs(p, n) ==
    \A a \in Cells :
        mem[a] = IF /\ frame[p].bar = 0
                    /\ req[p].addr <= a /\ a < req[p].addr + n
                 THEN user[p][req[p].user + a - req[p].addr]
                 ELSE was[p][a]

\* What the first n cells of a read have done to the caller's memory.
UserIs(p, n) ==
    \A u \in UserAddrs :
        user[p][u] = IF req[p].user <= u /\ u < req[p].user + n
                     THEN ReadCell(frame[p].bar, req[p].addr + u - req[p].user)
                     ELSE was[p][u]

\* How much of a transfer is done at each of its steps.
MovedInv(p) ==
    /\ pc[p] = "small" =>
           /\ frame[p].done = 0 /\ req[p].size \in {1, 2, 4}
           /\ IF req[p].op = "write" THEN MemIs(p, 0) ELSE UserIs(p, 0)
    /\ pc[p] = "fill" =>
           /\ MemIs(p, frame[p].done)
           /\ Readable(req[p].user, frame[p].done)
    /\ pc[p] = "dev" /\ req[p].op = "write" =>
           /\ MemIs(p, frame[p].done + frame[p].i)
           /\ Readable(req[p].user, frame[p].done + Chunk(p))
    /\ pc[p] \in {"dev", "spill"} /\ req[p].op = "read" =>
           /\ UserIs(p, frame[p].done)
           /\ Readable(req[p].user, frame[p].done)
    /\ pc[p] = "spill" => frame[p].i = Chunk(p)

\* What a call that is about to return has done.
OutcomeOf(p) == IF req[p].op = "write" THEN WriteOutcome(p) ELSE ReadOutcome(p)

LeftInv(p) ==
    /\ pc[p] = "leave"
    /\ was[p] # <<>> \/ (ret[p] = "ok" /\ req[p].op \in Ops)
    => frame[p].bar = BarOf(req[p]) /\ OutcomeOf(p)

\* The memory of p holds nothing that could not be copied.
Clean(p) == \A u \in UserAddrs : user[p][u] # Junk

CleanInv(p) ==
    /\ pc[p] \in Inside \cup {"rw"} /\ req[p].op = "write" => Clean(p)
    /\ p \notin Testers /\ pc[p] \notin Inside \cup {"dead"} => Clean(p)

OwnInv(p) ==
    /\ pc[p] \notin Moving \cup {"leave"} => was[p] = <<>>
    /\ MovedInv(p) /\ LeftInv(p) /\ CleanInv(p)

\* The device holds what the tester has written; the tester has it back.
Stored(t) == \A j \in 0 .. test[t] - 1 : mem[Base + j] = user[t][j]
HasBack(t) == \A j \in 0 .. test[t] - 1 : user[t][Into + j] = user[t][j]

\* What a tester knows at each of its stages.
StageInv(t) ==
    /\ stage[t] # "prepare" =>
           test[t] \in Sizes /\ pc[t] \notin {"closed", "open", "close"}
    /\ stage[t] = "write" => pc[t] = "idle" /\ Clean(t)
    /\ stage[t] = "compare" => pc[t] = "idle"
    /\ stage[t] = "written" /\ pc[t] # "idle" =>
           req[t] = TestRequest("write", test[t])
    /\ stage[t] = "read" /\ pc[t] # "idle" =>
           req[t] = TestRequest("read", test[t])
    /\ stage[t] = "written" /\ pc[t] = "idle" /\ alone[t] /\ ret[t] = "ok" =>
           Stored(t)
    /\ stage[t] = "read" /\ pc[t] # "idle" /\ alone[t] => Stored(t)
    /\ stage[t] \in {"read", "compare"} /\ pc[t] = "idle" /\ alone[t]
           /\ ret[t] = "ok" => HasBack(t)

DataInv ==
    /\ DOMAIN was = Procs /\ DOMAIN ret = Procs /\ DOMAIN alone = Testers
    /\ \A p \in Procs : OwnInv(p)
    /\ \A t \in Testers : StageInv(t)

\* The request and the frame of a transfer.
LEMMA RequestIs ==
    ASSUME IInv, NEW p \in Procs, pc[p] \in Moving
    PROVE  /\ req[p].op \in {"read", "write"} /\ frame[p].bar = BarOf(req[p])
           /\ req[p].addr \in Nat /\ req[p].user \in Nat /\ req[p].size \in Nat
           /\ frame[p].done \in Nat /\ frame[p].i \in Nat
           /\ req[p] \in Transfers
<1>1. req[p] \in Transfers /\ frame[p].bar = BarOf(req[p])
  BY DEF IInv, WorkInv
<1>2. req[p] \in [op : Ops, bar : Nat, addr : 0 .. Width - 1, user : Nat,
                  size : 0 .. Width - 1]
  BY <1>1, RequestAssumption DEF Transfers, Ops
<1> QED
  BY <1>1, <1>2, PathAssumption DEF IInv, TypeInv, Ops

\* Cells and addresses are numbers.
LEMMA AddressesAreNumbers ==
    /\ \A a \in Cells : a \in Nat
    /\ \A u : u \in UserAddrs <=> u \in Nat /\ u < UserCells
    /\ UserCells \in Nat
BY PathAssumption DEF Cells, UserAddrs

\* A call that is inside may change its own memory and the device's; the
\* others are outside and have nothing under way.
LEMMA InsideOwn ==
    ASSUME IInv, \A q \in Procs : OwnInv(q), NEW p \in Procs, pc[p] \in Inside,
           \A q \in Procs \ {p} :
               /\ pc'[q] = pc[q] /\ req'[q] = req[q] /\ user'[q] = user[q]
               /\ was'[q] = was[q],
           OwnInv(p)'
    PROVE  (\A q \in Procs : OwnInv(q))'
<1>1. ASSUME NEW q \in Procs, q # p PROVE OwnInv(q)'
  <2>1. pc'[q] \notin Inside
    BY <1>1 DEF IInv, LockInv
  <2>2. was'[q] = <<>>
    BY <1>1, <2>1 DEF OwnInv, Inside, Moving
  <2>3. MovedInv(q)' /\ LeftInv(q)'
    BY <2>1 DEF MovedInv, LeftInv, Inside
  <2>4. CleanInv(q)'
    BY <1>1 DEF OwnInv, CleanInv, Clean
  <2> QED
    BY <2>2, <2>3, <2>4 DEF OwnInv
<1> QED
  BY <1>1

\* A step outside leaves what is under way alone.
LEMMA OutsideOwn ==
    ASSUME IInv, \A q \in Procs : OwnInv(q), NEW p \in Procs,
           pc[p] \notin Inside, pc'[p] \notin Inside,
           \A q \in Procs \ {p} :
               /\ pc'[q] = pc[q] /\ req'[q] = req[q] /\ user'[q] = user[q]
               /\ ret'[q] = ret[q],
           was' = was, frame' = frame, mem' = mem, CleanInv(p)'
    PROVE  (\A q \in Procs : OwnInv(q))'
<1>1. ASSUME NEW q \in Procs, q # p PROVE OwnInv(q)'
  <2>1. MovedInv(q)'
    BY <1>1 DEF OwnInv, MovedInv, MemIs, UserIs, Chunk, ReadCell
  <2>2. LeftInv(q)'
    BY <1>1
    DEF OwnInv, LeftInv, OutcomeOf, WriteOutcome, ReadOutcome, ReadCell
  <2>3. CleanInv(q)'
    BY <1>1 DEF OwnInv, CleanInv, Clean
  <2> QED
    BY <1>1, <2>1, <2>2, <2>3 DEF OwnInv
<1>2. OwnInv(p)'
  <2>1. MovedInv(p)' /\ LeftInv(p)'
    BY DEF MovedInv, LeftInv, Inside
  <2> QED
    BY <2>1 DEF OwnInv, Inside, Moving
<1> QED
  BY <1>1, <1>2

----------------------------------------------------------------------------
(* Data on its way *)

\* The next cells of a write go to memory.
LEMMA MemGrows ==
    ASSUME NEW p \in Procs, NEW k \in Nat, NEW n \in Nat, NEW s \in Nat,
           req[p].addr \in Nat, req[p].user \in Nat,
           mem' = WriteCells(frame[p].bar, req[p].addr + k, n, buffer, s),
           \A j \in 0 .. n - 1 : buffer[s + j] = user[p][req[p].user + k + j],
           req' = req, user'[p] = user[p], was'[p] = was[p],
           frame'[p].bar = frame[p].bar, MemIs(p, k)
    PROVE  MemIs(p, k + n)'
<1>1. ASSUME NEW a \in Cells
      PROVE  mem'[a] = IF /\ frame[p].bar = 0
                          /\ req[p].addr <= a /\ a < req[p].addr + (k + n)
                       THEN user[p][req[p].user + a - req[p].addr]
                       ELSE was[p][a]
  <2>1. a \in Nat
    BY AddressesAreNumbers
  <2>2. mem'[a] = IF /\ frame[p].bar = 0 /\ req[p].addr + k <= a
                     /\ a < req[p].addr + k + n
                  THEN buffer[s + a - (req[p].addr + k)] ELSE mem[a]
    BY DEF WriteCells
  <2>3. CASE /\ frame[p].bar = 0 /\ req[p].addr + k <= a
             /\ a < req[p].addr + k + n
    <3> DEFINE j == a - (req[p].addr + k)
    <3>1. j \in 0 .. n - 1 /\ s + a - (req[p].addr + k) = s + j
      BY <2>1, <2>3
    <3>2. buffer[s + j] = user[p][req[p].user + k + j]
      BY <3>1
    <3>3. req[p].user + k + j = req[p].user + a - req[p].addr
      BY <2>1
    <3>4. mem'[a] = user[p][req[p].user + a - req[p].addr]
      BY <2>2, <2>3, <3>1, <3>2, <3>3
    <3> QED
      BY <2>1, <2>3, <3>4
  <2>4. CASE ~(/\ frame[p].bar = 0 /\ req[p].addr + k <= a
               /\ a < req[p].addr + k + n)
    <3>1. mem'[a] = mem[a]
      BY <2>2, <2>4
    <3> QED
      BY <2>1, <2>4, <3>1 DEF MemIs
  <2> QED
    BY <2>3, <2>4
<1> QED
  BY <1>1 DEF MemIs

\* The next cells of a read go to the caller.
LEMMA UserGrows ==
    ASSUME IInv, NEW p \in Procs, NEW k \in Nat, NEW n \in Nat, NEW f,
           req[p].addr \in Nat, req[p].user \in Nat,
           user' = CopyOut(p, req[p].user + k, n, f),
           \A j \in 0 .. n - 1 :
               f[j] = ReadCell(frame[p].bar, req[p].addr + k + j),
           req' = req, mem' = mem, was'[p] = was[p],
           frame'[p].bar = frame[p].bar, UserIs(p, k)
    PROVE  UserIs(p, k + n)'
<1>1. ASSUME NEW u \in UserAddrs
      PROVE  user'[p][u] =
                 IF req[p].user <= u /\ u < req[p].user + (k + n)
                 THEN ReadCell(frame[p].bar, req[p].addr + u - req[p].user)
                 ELSE was[p][u]
  <2>1. u \in Nat
    BY AddressesAreNumbers
  <2>2. user'[p][u] = IF req[p].user + k <= u /\ u < req[p].user + k + n
                      THEN f[u - (req[p].user + k)] ELSE user[p][u]
    BY DEF CopyOut, IInv, TypeInv
  <2>3. CASE req[p].user + k <= u /\ u < req[p].user + k + n
    <3> DEFINE j == u - (req[p].user + k)
    <3>1. j \in 0 .. n - 1
      BY <2>1, <2>3
    <3>2. f[j] = ReadCell(frame[p].bar, req[p].addr + k + j)
      BY <3>1
    <3>3. req[p].addr + k + j = req[p].addr + u - req[p].user
      BY <2>1
    <3>4. user'[p][u] = ReadCell(frame[p].bar, req[p].addr + u - req[p].user)
      BY <2>2, <2>3, <3>2, <3>3
    <3> QED
      BY <2>1, <2>3, <3>4
  <2>4. CASE ~(req[p].user + k <= u /\ u < req[p].user + k + n)
    <3>1. user'[p][u] = user[p][u]
      BY <2>2, <2>4
    <3> QED
      BY <2>1, <2>4, <3>1 DEF UserIs
  <2> QED
    BY <2>3, <2>4
<1> QED
  BY <1>1 DEF UserIs, ReadCell

\* A write ends that has moved k cells.
LEMMA WriteEnds ==
    ASSUME NEW p \in Procs, NEW k \in Nat,
           req[p].addr \in Nat, req[p].user \in Nat, req[p].size \in Nat,
           req[p].op = "write", req' = req,
           k = IF ret'[p] = "ok" THEN req[p].size ELSE frame'[p].done,
           Readable(req[p].user, k), MemIs(p, k)', Clean(p)',
           frame'[p].bar = BarOf(req[p])
    PROVE  LeftInv(p)'
<1> DEFINE in(a, n) == /\ frame'[p].bar = 0
                       /\ req[p].addr <= a /\ a < req[p].addr + n
<1>1. ASSUME NEW a \in Cells
      PROVE  /\ in(a, k) => mem'[a] = user'[p][req[p].user + a - req[p].addr]
             /\ ~in(a, k) => mem'[a] = was'[p][a]
             /\ mem'[a] = Junk => was'[p][a] = Junk
  <2>1. mem'[a] = IF in(a, k) THEN user'[p][req[p].user + a - req[p].addr]
                  ELSE was'[p][a]
    BY DEF MemIs
  <2>2. ASSUME in(a, k) PROVE req[p].user + a - req[p].addr \in UserAddrs
    BY <2>2, AddressesAreNumbers DEF Readable
  <2> QED
    BY <2>1, <2>2 DEF Clean
<1>2. ret'[p] = "ok" => Readable(req[p].user, req[p].size)
  OBVIOUS
<1>3. WriteOutcome(p)'
  <2>1. CASE ret'[p] = "ok"
    BY <1>1, <1>2, <2>1 DEF WriteOutcome, Readable
  <2>2. CASE ret'[p] # "ok"
    BY <1>1, <1>2, <2>2 DEF WriteOutcome, Readable
  <2> QED
    BY <2>1, <2>2
<1> QED
  BY <1>3 DEF LeftInv, OutcomeOf

\* A read ends that has moved k cells.
LEMMA ReadEnds ==
    ASSUME NEW p \in Procs, NEW k \in Nat,
           req[p].addr \in Nat, req[p].user \in Nat, req[p].size \in Nat,
           req[p].op = "read", req' = req, k <= req[p].size,
           ret'[p] = "ok" => k = req[p].size /\ Readable(req[p].user, k),
           UserIs(p, k)', frame'[p].bar = BarOf(req[p])
    PROVE  LeftInv(p)'
<1>1. ASSUME NEW u \in UserAddrs
      PROVE  LET new == ReadCell(frame[p].bar, req[p].addr + u - req[p].user)'
                 in == req[p].user <= u /\ u < req[p].user + req[p].size
             IN  /\ in => IF ret'[p] = "ok" THEN user'[p][u] = new
                          ELSE user'[p][u] \in {new, was'[p][u]}
                 /\ ~in => user'[p][u] = was'[p][u]
  <2>1. user'[p][u] = IF req[p].user <= u /\ u < req[p].user + k
                      THEN ReadCell(frame[p].bar,
                                    req[p].addr + u - req[p].user)'
                      ELSE was'[p][u]
    BY DEF UserIs
  <2>2. u \in Nat
    BY AddressesAreNumbers
  <2> QED
    BY <2>1, <2>2
<1>2. ReadOutcome(p)'
  BY <1>1 DEF ReadOutcome, Readable
<1> QED
  BY <1>2 DEF LeftInv, OutcomeOf

----------------------------------------------------------------------------
(* The steps of a transfer, with the data *)

\* What the steps of a call leave to the others.
LEMMA ProceedFrame ==
    ASSUME IInv, DOMAIN was = Procs, DOMAIN ret = Procs, NEW p \in Procs,
           Proceed(p) \/ Return(p)
    PROVE  /\ DOMAIN was' = Procs /\ DOMAIN ret' = Procs
           /\ \A q \in Procs \ {p} :
                  /\ pc'[q] = pc[q] /\ req'[q] = req[q] /\ user'[q] = user[q]
                  /\ was'[q] = was[q] /\ ret'[q] = ret[q]
<1> USE DEF IInv, TypeInv, data, semVars, lifeVars
<1>1. CASE OpenBody(p) \/ CloseBody(p) \/ Enter(p) \/ Command(p)
  BY <1>1 DEF OpenBody, CloseBody, Enter, Command, At, Finish
<1>2. CASE Dispatch(p)
  BY <1>2 DEF Dispatch, Finish
<1>3. CASE ReadSmall(p) \/ WriteSmall(p)
  BY <1>3 DEF ReadSmall, WriteSmall, Finish, CopyOut
<1>4. CASE Fill(p) \/ Transfer(p) \/ ChunkWritten(p) \/ ChunkRead(p)
  BY <1>4 DEF Fill, Transfer, ChunkWritten, ChunkRead, NextChunk, Finish, At
<1>5. CASE Spill(p)
  BY <1>5 DEF Spill, NextChunk, Finish, CopyOut
<1>6. CASE Return(p)
  BY <1>6 DEF Return, Leave, Forget, At
<1>7. CASE Die(p)
  BY <1>7 DEF Die
<1> QED
  BY <1>1, <1>2, <1>3, <1>4, <1>5, <1>6, <1>7 DEF Proceed

\* A call that reads leaves the device alone, and changes its caller's memory
\* only from the target on.
LEMMA ReadsChangeTargetOnly ==
    ASSUME IInv, NEW p \in Procs, Proceed(p), req[p].op = "read",
           pc[p] \in Inside \cup {"rw"}, pc[p] # "leave"
    PROVE  /\ mem' = mem /\ req' = req
           /\ \A u \in UserAddrs : u < req[p].user => user'[p][u] = user[p][u]
<1>1. CASE OpenBody(p) \/ CloseBody(p)
  BY <1>1 DEF OpenBody, CloseBody, At, Inside
<1>2. CASE Enter(p) \/ Command(p) \/ Dispatch(p)
  BY <1>2 DEF Enter, Command, Dispatch, data
<1>3. CASE ReadSmall(p)
  <2>1. user' = CopyOut(p, req[p].user, req[p].size,
                        [j \in 0 .. req[p].size - 1 |->
                            ReadCell(frame[p].bar, req[p].addr + j)])
    BY <1>3 DEF ReadSmall
  <2>2. ASSUME NEW u \in UserAddrs, u < req[p].user
        PROVE  user'[p][u] = user[p][u]
    <3>1. u \in Nat /\ req[p].user \in Nat
      BY <1>3, RequestIs, AddressesAreNumbers DEF ReadSmall, Moving
    <3> QED
      BY <2>1, <2>2, <3>1 DEF CopyOut, IInv, TypeInv
  <2> QED
    BY <1>3, <2>2 DEF ReadSmall
<1>4. CASE WriteSmall(p) \/ Fill(p)
  BY <1>4 DEF WriteSmall, Fill, IInv, WorkInv
<1>5. CASE Transfer(p) \/ ChunkWritten(p) \/ ChunkRead(p)
  BY <1>5 DEF Transfer, ChunkWritten, ChunkRead, data
<1>6. CASE Spill(p)
  <2>1. user' = CopyOut(p, req[p].user + frame[p].done, Chunk(p), buffer)
    BY <1>6 DEF Spill
  <2>2. ASSUME NEW u \in UserAddrs, u < req[p].user
        PROVE  user'[p][u] = user[p][u]
    <3>1. u \in Nat /\ req[p].user \in Nat /\ frame[p].done \in Nat
      BY <1>6, RequestIs, AddressesAreNumbers DEF Spill, Moving
    <3>2. ~(req[p].user + frame[p].done <= u)
      BY <2>2, <3>1
    <3> QED
      BY <2>1, <2>2, <3>2 DEF CopyOut, IInv, TypeInv
  <2> QED
    BY <1>6, <2>2 DEF Spill
<1>7. CASE Die(p)
  BY <1>7 DEF Die, data
<1> QED
  BY <1>1, <1>2, <1>3, <1>4, <1>5, <1>6, <1>7 DEF Proceed

\* The steps before the data moves.
LEMMA EnterOwn ==
    ASSUME IInv, NEW p \in Procs, OwnInv(p), Enter(p)
    PROVE  OwnInv(p)'
<1>1. /\ pc[p] = "rw" /\ pc'[p] = "dispatch" /\ was' = was /\ req' = req
      /\ user' = user
  BY DEF Enter, At, data, IInv, TypeInv
<1> QED
  BY <1>1 DEF OwnInv, MovedInv, LeftInv, CleanInv, Clean, Inside, Moving

LEMMA CommandOwn ==
    ASSUME IInv, NEW p \in Procs, OwnInv(p), Command(p)
    PROVE  OwnInv(p)'
<1>1. /\ pc[p] = "command" /\ pc'[p] = "leave" /\ was' = was /\ req' = req
      /\ user' = user /\ req[p].op = "command"
  BY DEF Command, Finish, data, IInv, TypeInv, WorkInv
<1> QED
  BY <1>1 DEF OwnInv, MovedInv, LeftInv, CleanInv, Clean, Inside, Moving, Ops

LEMMA DispatchOwn ==
    ASSUME IInv, NEW p \in Procs, OwnInv(p), Dispatch(p), DOMAIN was = Procs,
           DOMAIN ret = Procs
    PROVE  OwnInv(p)'
<1>1. /\ pc[p] = "dispatch" /\ req' = req /\ user' = user /\ mem' = mem
      /\ was[p] = <<>> /\ req[p] \in Requests /\ frame[p] = NewFrame
  BY DEF Dispatch, data, OwnInv, IInv, WorkInv, Moving, Inside
<1>2. CleanInv(p)'
  <2>1. pc'[p] \in Inside
    BY DEF Dispatch, Finish, IInv, TypeInv, Inside
  <2> QED
    BY <1>1, <2>1 DEF OwnInv, CleanInv, Clean, Inside
<1>3. CASE req[p].op = "unreadable" \/ (req[p].op \in Ops /\ ~Checked(req[p]))
  <2>1. pc'[p] = "leave" /\ ret'[p] = "fault" /\ was' = was
    BY <1>1, <1>3 DEF Dispatch, Finish, IInv, TypeInv, Ops
  <2> QED
    BY <1>1, <1>2, <2>1 DEF OwnInv, MovedInv, LeftInv, Moving
<1>4. CASE req[p].op = "command"
  <2>1. pc'[p] = "command" /\ was' = was
    BY <1>1, <1>4 DEF Dispatch, IInv, TypeInv, Ops
  <2> QED
    BY <1>1, <1>2, <2>1 DEF OwnInv, MovedInv, LeftInv, Moving
<1>5. CASE req[p].op \in Ops /\ Checked(req[p])
  <2>1. /\ frame' = [frame EXCEPT ![p].bar = BarOf(req[p])]
        /\ was' = [was EXCEPT ![p] = Before(p)]
        /\ IF req[p].size = 0 THEN Finish(p, "ok")
           ELSE pc' = [pc EXCEPT ![p] =
                          IF req[p].size \in {1, 2, 4} THEN "small"
                          ELSE IF req[p].op = "write" THEN "fill" ELSE "dev"]
    BY <1>5 DEF Dispatch, Ops
  <2>2. req[p] \in [op : Ops, bar : Nat, addr : 0 .. Width - 1, user : Nat,
                    size : 0 .. Width - 1]
    BY <1>1, <1>5, RequestAssumption DEF Ops
  <2>3. /\ req[p].op \in {"read", "write"}
        /\ req[p].addr \in Nat /\ req[p].user \in Nat /\ req[p].size \in Nat
    BY <2>2, PathAssumption DEF Ops
  <2>4. /\ frame'[p].bar = BarOf(req[p])
        /\ frame'[p].done = 0 /\ frame'[p].i = 0
    BY <1>1, <2>1 DEF IInv, TypeInv, NewFrame
  <2>5. was'[p] = Before(p)
    BY <2>1
  <2>6. req[p].op = "write" => MemIs(p, 0)'
    <3>1. ASSUME req[p].op = "write", NEW a \in Cells
          PROVE  mem'[a] = was'[p][a] /\ ~(req[p].addr <= a /\ a < req[p].addr + 0)
      BY <1>1, <2>3, <2>5, <3>1, AddressesAreNumbers DEF Before
    <3> QED
      BY <1>1, <3>1 DEF MemIs
  <2>7. req[p].op = "read" => UserIs(p, 0)'
    <3>1. ASSUME req[p].op = "read", NEW u \in UserAddrs
          PROVE  /\ user'[p][u] = was'[p][u]
                 /\ ~(req[p].user <= u /\ u < req[p].user + 0)
      BY <1>1, <2>3, <2>5, <3>1, AddressesAreNumbers DEF Before
    <3> QED
      BY <1>1, <3>1 DEF UserIs
  <2>8. Readable(req[p].user, 0)
    BY DEF Readable
  <2>9. CASE req[p].size = 0
    <3>1. pc'[p] = "leave" /\ ret'[p] = "ok"
      BY <2>1, <2>9 DEF Finish, IInv, TypeInv
    <3>2. LeftInv(p)'
      <4>1. CASE req[p].op = "write"
        <5>1. Clean(p)'
          BY <1>1, <4>1 DEF OwnInv, CleanInv, Clean, Inside
        <5>2. 0 = IF ret'[p] = "ok" THEN req[p].size ELSE frame'[p].done
          BY <2>9, <3>1
        <5> QED
          BY <1>1, <2>3, <2>4, <2>6, <2>8, <4>1, <5>1, <5>2, WriteEnds
      <4>2. CASE req[p].op = "read"
        BY <1>1, <2>3, <2>4, <2>7, <2>8, <2>9, <4>2, ReadEnds
      <4> QED
        BY <2>3, <4>1, <4>2
    <3> QED
      BY <1>2, <3>1, <3>2 DEF OwnInv, MovedInv, Moving
  <2>10. CASE req[p].size # 0
    <3>1. pc'[p] = IF req[p].size \in {1, 2, 4} THEN "small"
                   ELSE IF req[p].op = "write" THEN "fill" ELSE "dev"
      BY <2>1, <2>10 DEF IInv, TypeInv
    <3>2. MovedInv(p)'
      <4>1. CASE req[p].op = "write"
        BY <1>1, <2>4, <2>6, <2>8, <3>1, <4>1 DEF MovedInv
      <4>2. CASE req[p].op = "read"
        BY <1>1, <2>4, <2>7, <2>8, <3>1, <4>2 DEF MovedInv
      <4> QED
        BY <2>3, <4>1, <4>2
    <3> QED
      BY <1>2, <3>1, <3>2 DEF OwnInv, LeftInv, Moving
  <2> QED
    BY <2>9, <2>10
<1>6. req[p].op \in {"unreadable", "command"} \cup Ops
  BY DEF Dispatch
<1> QED
  BY <1>3, <1>4, <1>5, <1>6

\* 1, 2 or 4 cells.
LEMMA ReadSmallOwn ==
    ASSUME IInv, NEW p \in Procs, OwnInv(p), ReadSmall(p), DOMAIN ret = Procs
    PROVE  OwnInv(p)'
<1> DEFINE f == [j \in 0 .. req[p].size - 1 |->
                    ReadCell(frame[p].bar, req[p].addr + j)]
<1>1. /\ pc[p] = "small" /\ pc'[p] = "leave" /\ req' = req /\ frame' = frame
      /\ mem' = mem /\ was' = was /\ req[p].op = "read"
      /\ ret'[p] = IF Readable(req[p].user, req[p].size) THEN "ok" ELSE "fault"
      /\ user' = CopyOut(p, req[p].user, req[p].size, f)
  BY DEF ReadSmall, Finish, IInv, TypeInv
<1>2. /\ frame[p].bar = BarOf(req[p])
      /\ req[p].addr \in Nat /\ req[p].user \in Nat /\ req[p].size \in Nat
  BY <1>1, RequestIs DEF Moving
<1>3. UserIs(p, 0)
  BY <1>1 DEF OwnInv, MovedInv
<1>4. \A j \in 0 .. req[p].size - 1 :
          f[j] = ReadCell(frame[p].bar, req[p].addr + 0 + j)
  BY <1>2
<1>5. user' = CopyOut(p, req[p].user + 0, req[p].size, f)
  BY <1>1, <1>2
<1>6. UserIs(p, 0 + req[p].size)'
  <2> HIDE DEF f
  <2> QED
    BY <1>1, <1>2, <1>3, <1>4, <1>5, UserGrows
<1>7. LeftInv(p)'
  BY <1>1, <1>2, <1>6, ReadEnds
<1> QED
  BY <1>1, <1>7 DEF OwnInv, MovedInv, CleanInv, Moving, Inside

LEMMA WriteSmallOwn ==
    ASSUME IInv, NEW p \in Procs, OwnInv(p), WriteSmall(p), DOMAIN ret = Procs
    PROVE  OwnInv(p)'
<1> DEFINE n == Written(req[p].size)
           f == CopyIn(p, req[p].user, n)
           in(a, k) == /\ frame[p].bar = 0
                       /\ req[p].addr <= a /\ a < req[p].addr + k
<1>1. /\ pc[p] = "small" /\ pc'[p] = "leave" /\ req' = req /\ frame' = frame
      /\ user' = user /\ was' = was /\ req[p].op = "write"
      /\ ret'[p] = IF Readable(req[p].user, n) THEN "ok" ELSE "fault"
      /\ mem' = WriteCells(frame[p].bar, req[p].addr, n, f, 0)
  BY DEF WriteSmall, Finish, IInv, TypeInv
<1>2. /\ frame[p].bar = BarOf(req[p])
      /\ req[p].addr \in Nat /\ req[p].user \in Nat /\ req[p].size \in Nat
  BY <1>1, RequestIs DEF Moving
<1>3. /\ MemIs(p, 0) /\ frame[p].done = 0 /\ req[p].size \in {1, 2, 4}
      /\ Clean(p)
  BY <1>1 DEF OwnInv, MovedInv, CleanInv, Inside
<1>4. n \in {1, 4} /\ req[p].size <= n
  BY <1>3 DEF Written
<1>5. ASSUME NEW a \in Cells
      PROVE  /\ in(a, n) => mem'[a] = f[a - req[p].addr]
             /\ ~in(a, n) => mem'[a] = was[p][a]
  <2>1. a \in Nat
    BY AddressesAreNumbers
  <2>2. mem'[a] = IF in(a, n) THEN f[0 + a - req[p].addr] ELSE mem[a]
    BY <1>1 DEF WriteCells
  <2>3. mem[a] = was[p][a]
    BY <1>2, <1>3, <2>1 DEF MemIs
  <2> QED
    BY <1>2, <2>1, <2>2, <2>3
<1>6. ASSUME ret'[p] = "ok", NEW j \in 0 .. n - 1
      PROVE  f[j] = user[p][req[p].user + j] /\ f[j] # Junk
  <2>1. req[p].user + n <= UserCells
    BY <1>1, <1>4, <1>6 DEF Readable
  <2>2. req[p].user + j \in UserAddrs
    BY <1>2, <1>4, <2>1, AddressesAreNumbers
  <2> QED
    BY <1>3, <2>2 DEF CopyIn, Clean
<1>7. WriteOutcome(p)'
  <2>1. CASE ret'[p] = "ok"
    <3>1. Readable(req[p].user, req[p].size)
      BY <1>1, <1>2, <1>4, <2>1, PathAssumption DEF Readable
    <3>2. ASSUME NEW a \in Cells
          PROVE  /\ in(a, req[p].size) =>
                        mem'[a] = user[p][req[p].user + a - req[p].addr]
                 /\ ~in(a, n) => mem'[a] = was[p][a]
                 /\ mem'[a] = Junk => was[p][a] = Junk
      <4>1. a \in Nat
        BY AddressesAreNumbers
      <4>2. CASE in(a, n)
        <5>1. a - req[p].addr \in 0 .. n - 1
          BY <1>2, <1>4, <4>1, <4>2
        <5>2. mem'[a] = user[p][req[p].user + (a - req[p].addr)]
              /\ mem'[a] # Junk
          BY <1>5, <1>6, <2>1, <4>2, <5>1
        <5>3. req[p].user + (a - req[p].addr) = req[p].user + a - req[p].addr
          BY <1>2, <4>1
        <5> QED
          BY <4>2, <5>2, <5>3
      <4>3. CASE ~in(a, n)
        BY <1>2, <1>4, <1>5, <4>1, <4>3
      <4> QED
        BY <4>2, <4>3
    <3> QED
      BY <1>1, <1>3, <2>1, <3>1, <3>2 DEF WriteOutcome
  <2>2. CASE ret'[p] # "ok"
    <3>1. ret'[p] = "fault"
      BY <1>1, <2>2
    <3>2. ASSUME NEW a \in Cells
          PROVE  ~in(a, 0) /\ (~in(a, n) => mem'[a] = was[p][a])
      BY <1>2, <1>5, <3>2, AddressesAreNumbers
    <3> QED
      BY <1>1, <1>3, <3>1, <3>2 DEF WriteOutcome
  <2> QED
    BY <2>1, <2>2
<1>8. LeftInv(p)'
  BY <1>1, <1>2, <1>7 DEF LeftInv, OutcomeOf
<1>9. CleanInv(p)'
  BY <1>1, <1>3 DEF CleanInv, Clean, Inside
<1> QED
  BY <1>1, <1>8, <1>9 DEF OwnInv, MovedInv, Moving

\* Chunks.
LEMMA FillOwn ==
    ASSUME IInv, NEW p \in Procs, OwnInv(p), Fill(p), DOMAIN ret = Procs
    PROVE  OwnInv(p)'
<1>1. /\ pc[p] = "fill" /\ req' = req /\ frame' = frame /\ mem' = mem
      /\ user' = user /\ was' = was
      /\ \/ /\ Readable(req[p].user + frame[p].done, Chunk(p))
            /\ pc'[p] = "dev"
         \/ pc'[p] = "leave" /\ ret'[p] = "fault"
  BY DEF Fill, Finish, IInv, TypeInv
<1>2. /\ frame[p].bar = BarOf(req[p]) /\ req[p] \in Transfers
      /\ req[p].addr \in Nat /\ req[p].user \in Nat /\ req[p].size \in Nat
      /\ frame[p].done \in Nat
  BY <1>1, RequestIs DEF Moving
<1>3. /\ req[p].op = "write" /\ frame[p].i = 0
      /\ frame[p].done < req[p].size
  BY <1>1 DEF IInv, WorkInv
<1>4. /\ MemIs(p, frame[p].done) /\ Readable(req[p].user, frame[p].done)
      /\ Clean(p)
  BY <1>1, <1>3 DEF OwnInv, MovedInv, CleanInv, Inside
<1>5. MemIs(p, frame[p].done)' /\ Clean(p)' /\ CleanInv(p)'
  BY <1>1, <1>3, <1>4 DEF MemIs, Clean, CleanInv, Inside
<1>6. CASE pc'[p] = "dev"
  <2>1. Chunk(p) \in Nat /\ Chunk(p)' = Chunk(p)
    BY <1>1, <1>2, <1>3, ChunkIsLeft DEF Chunk, IInv
  <2>2. Readable(req[p].user, frame[p].done + Chunk(p))
    <3>1. Chunk(p) # 0
      BY <1>2, <1>3, PathAssumption DEF Chunk
    <3>2. (req[p].user + frame[p].done) + Chunk(p) <= UserCells
      BY <1>1, <1>6, <3>1 DEF Readable
    <3> QED
      BY <1>2, <2>1, <3>2, AddressesAreNumbers DEF Readable
  <2>3. MemIs(p, frame[p].done + frame[p].i)'
    <3>1. frame'[p].done + frame'[p].i = frame'[p].done
      BY <1>1, <1>2, <1>3
    <3> QED
      BY <1>5, <3>1 DEF MemIs
  <2> QED
    BY <1>1, <1>3, <1>5, <1>6, <2>1, <2>2, <2>3
    DEF OwnInv, MovedInv, LeftInv, Moving
<1>7. CASE pc'[p] = "leave" /\ ret'[p] = "fault"
  <2>1. frame[p].done = IF ret'[p] = "ok" THEN req[p].size
                        ELSE frame'[p].done
    BY <1>1, <1>7
  <2>2. LeftInv(p)'
    <3>1. \A k : k = frame[p].done /\ MemIs(p, frame[p].done)' => MemIs(p, k)'
      BY <1>1 DEF MemIs
    <3> QED
      BY <1>1, <1>2, <1>3, <1>4, <1>5, <2>1, <3>1, WriteEnds
  <2> QED
    BY <1>1, <1>5, <1>7, <2>2 DEF OwnInv, MovedInv, Moving
<1> QED
  BY <1>1, <1>6, <1>7

LEMMA TransferOwn ==
    ASSUME IInv, NEW p \in Procs, OwnInv(p), Transfer(p)
    PROVE  OwnInv(p)'
<1>0. PICK n \in Nat : n = IF frame[p].i < InWords(p) THEN Word ELSE 1
  BY DEF Word
<1>1. /\ pc[p] = "dev" /\ pc' = pc /\ req' = req /\ user' = user
      /\ was' = was /\ ret' = ret /\ frame[p].i < Chunk(p)
      /\ frame' = [frame EXCEPT ![p].i = frame[p].i + n]
  BY <1>0 DEF Transfer
<1>2. /\ frame[p].bar = BarOf(req[p]) /\ req[p] \in Transfers
      /\ req[p].op \in {"read", "write"}
      /\ req[p].addr \in Nat /\ req[p].user \in Nat /\ req[p].size \in Nat
      /\ frame[p].done \in Nat /\ frame[p].i \in Nat
  BY <1>1, RequestIs DEF Moving
<1>3. /\ frame[p].done < req[p].size
      /\ InWords(p) <= frame[p].i \/ frame[p].i % Word = 0
  BY <1>1 DEF IInv, WorkInv
<1>4. Chunk(p) \in Nat /\ Chunk(p)' = Chunk(p)
      /\ frame'[p].done = frame[p].done /\ frame'[p].bar = frame[p].bar
      /\ frame'[p].i = frame[p].i + n
  <2>1. /\ frame'[p].done = frame[p].done /\ frame'[p].bar = frame[p].bar
        /\ frame'[p].i = frame[p].i + n
    BY <1>1 DEF IInv, TypeInv
  <2> QED
    BY <1>1, <1>2, <1>3, <2>1, ChunkIsLeft DEF Chunk, IInv
<1>5. frame[p].i + n <= Chunk(p)
  <2>1. InWords(p) \in Nat /\ InWords(p) <= Chunk(p)
    BY <1>4 DEF InWords, Word
  <2>2. CASE frame[p].i < InWords(p)
    BY <1>0, <1>2, <1>3, <1>4, <2>1, <2>2, WholeWords DEF InWords, Word
  <2>3. CASE ~(frame[p].i < InWords(p))
    BY <1>0, <1>1, <1>2, <1>4, <2>1, <2>3
  <2> QED
    BY <2>2, <2>3
<1>6. CleanInv(p)'
  BY <1>1 DEF OwnInv, CleanInv, Clean, Inside
<1>7. CASE req[p].op = "read"
  <2>1. mem' = mem
    BY <1>7 DEF Transfer
  <2>2. UserIs(p, frame[p].done)'
    BY <1>1, <1>4, <1>7, <2>1 DEF OwnInv, MovedInv, UserIs, ReadCell
  <2> QED
    BY <1>1, <1>4, <1>6, <1>7, <2>2 DEF OwnInv, MovedInv, LeftInv, Moving
<1>8. CASE req[p].op = "write"
  <2>1. PICK k \in Nat : k = frame[p].done + frame[p].i
    BY <1>2
  <2>2. mem' = WriteCells(frame[p].bar, req[p].addr + k, n, buffer, frame[p].i)
    <3>1. mem' = WriteCells(frame[p].bar,
                            req[p].addr + frame[p].done + frame[p].i,
                            n, buffer, frame[p].i)
      BY <1>0, <1>8 DEF Transfer
    <3>2. req[p].addr + frame[p].done + frame[p].i = req[p].addr + k
      BY <1>2, <2>1
    <3> QED
      BY <3>1, <3>2
  <2>3. MemIs(p, k) /\ Readable(req[p].user, frame[p].done + Chunk(p))
    BY <1>1, <1>8, <2>1 DEF OwnInv, MovedInv
  <2>4. ASSUME NEW j \in 0 .. n - 1
        PROVE  buffer[frame[p].i + j] = user[p][req[p].user + k + j]
    <3>1. frame[p].i + j \in 0 .. Chunk(p) - 1
      BY <1>2, <1>4, <1>5
    <3>2. buffer[frame[p].i + j]
              = user[p][req[p].user + frame[p].done + (frame[p].i + j)]
      BY <1>1, <1>8, <3>1, BufferedEach DEF IInv, Buffered
    <3>3. req[p].user + frame[p].done + (frame[p].i + j) = req[p].user + k + j
      BY <1>2, <2>1
    <3> QED
      BY <3>2, <3>3
  <2>5. MemIs(p, k + n)'
    <3>1. PICK s \in Nat : s = frame[p].i
      BY <1>2
    <3>2. mem' = WriteCells(frame[p].bar, req[p].addr + k, n, buffer, s)
      BY <2>2, <3>1
    <3>3. \A j \in 0 .. n - 1 : buffer[s + j] = user[p][req[p].user + k + j]
      BY <2>4, <3>1
    <3>4. user'[p] = user[p] /\ was'[p] = was[p]
      BY <1>1
    <3> QED
      BY <1>1, <1>2, <1>4, <2>3, <3>2, <3>3, <3>4, MemGrows
  <2>6. frame'[p].done + frame'[p].i = k + n
    BY <1>2, <1>4, <2>1
  <2>7. MemIs(p, frame[p].done + frame[p].i)'
    BY <2>5, <2>6 DEF MemIs
  <2> QED
    BY <1>1, <1>4, <1>6, <1>8, <2>3, <2>7 DEF OwnInv, MovedInv, LeftInv, Moving
<1> QED
  BY <1>2, <1>7, <1>8

LEMMA ChunkWrittenOwn ==
    ASSUME IInv, NEW p \in Procs, OwnInv(p), ChunkWritten(p), DOMAIN ret = Procs
    PROVE  OwnInv(p)'
<1>1. /\ pc[p] = "dev" /\ req' = req /\ user' = user /\ mem' = mem
      /\ was' = was /\ frame[p].i = Chunk(p) /\ req[p].op = "write"
  BY DEF ChunkWritten, data
<1>2. /\ frame[p].bar = BarOf(req[p]) /\ req[p] \in Transfers
      /\ req[p].addr \in Nat /\ req[p].user \in Nat /\ req[p].size \in Nat
      /\ frame[p].done \in Nat /\ frame[p].done < req[p].size
  BY <1>1, RequestIs DEF Moving, IInv, WorkInv
<1>3. Chunk(p) \in Nat /\ frame[p].done + Chunk(p) <= req[p].size
  BY <1>2, ChunkIsLeft DEF IInv
<1>4. PICK k \in Nat : k = frame[p].done + Chunk(p)
  BY <1>2, <1>3
<1>5. /\ frame' = [frame EXCEPT ![p].done = k, ![p].i = 0]
      /\ \/ k < req[p].size /\ pc'[p] = "fill"
         \/ ~(k < req[p].size) /\ pc'[p] = "leave" /\ ret'[p] = "ok"
  BY <1>4 DEF ChunkWritten, NextChunk, Finish, IInv, TypeInv
<1>6. frame'[p].bar = frame[p].bar /\ frame'[p].done = k /\ frame'[p].i = 0
  BY <1>5 DEF IInv, TypeInv
<1>7. MemIs(p, k) /\ Readable(req[p].user, k) /\ Clean(p)
  BY <1>1, <1>4 DEF OwnInv, MovedInv, CleanInv, Inside
<1>8. MemIs(p, k)' /\ Clean(p)' /\ CleanInv(p)'
  BY <1>1, <1>6, <1>7 DEF MemIs, Clean, CleanInv, Inside
<1>9. CASE k < req[p].size /\ pc'[p] = "fill"
  <2>1. MemIs(p, frame[p].done)'
    BY <1>6, <1>8 DEF MemIs
  <2> QED
    BY <1>1, <1>6, <1>7, <1>8, <1>9, <2>1 DEF OwnInv, MovedInv, LeftInv, Moving
<1>10. CASE ~(k < req[p].size) /\ pc'[p] = "leave" /\ ret'[p] = "ok"
  <2>1. k = IF ret'[p] = "ok" THEN req[p].size ELSE frame'[p].done
    BY <1>2, <1>3, <1>4, <1>10
  <2>2. LeftInv(p)'
    BY <1>1, <1>2, <1>6, <1>7, <1>8, <2>1, WriteEnds
  <2> QED
    BY <1>1, <1>8, <1>10, <2>2 DEF OwnInv, MovedInv, Moving
<1> QED
  BY <1>5, <1>9, <1>10

LEMMA ChunkReadOwn ==
    ASSUME IInv, NEW p \in Procs, OwnInv(p), ChunkRead(p)
    PROVE  OwnInv(p)'
<1>1. /\ pc[p] = "dev" /\ pc'[p] = "spill" /\ req' = req /\ user' = user
      /\ mem' = mem /\ was' = was /\ frame' = frame /\ ret' = ret
      /\ frame[p].i = Chunk(p) /\ req[p].op = "read"
  BY DEF ChunkRead, At, data, IInv, TypeInv
<1>2. MovedInv(p)'
  BY <1>1 DEF OwnInv, MovedInv, UserIs, ReadCell, Chunk
<1> QED
  BY <1>1, <1>2 DEF OwnInv, LeftInv, CleanInv, Moving, Inside

LEMMA SpillOwn ==
    ASSUME IInv, NEW p \in Procs, OwnInv(p), Spill(p), DOMAIN ret = Procs
    PROVE  OwnInv(p)'
<1>1. /\ pc[p] = "spill" /\ req' = req /\ mem' = mem /\ was' = was
      /\ req[p].op = "read"
  BY DEF Spill, IInv, WorkInv
<1>2. /\ frame[p].bar = BarOf(req[p]) /\ req[p] \in Transfers
      /\ req[p].addr \in Nat /\ req[p].user \in Nat /\ req[p].size \in Nat
      /\ frame[p].done \in Nat /\ frame[p].done < req[p].size
  BY <1>1, RequestIs DEF Moving, IInv, WorkInv
<1>3. Chunk(p) \in Nat /\ frame[p].done + Chunk(p) <= req[p].size
      /\ Chunk(p) # 0
  <2>1. Chunk(p) # 0
    BY <1>2, PathAssumption DEF Chunk
  <2> QED
    BY <1>2, <2>1, ChunkIsLeft DEF IInv
<1>4. PICK k \in Nat : k = frame[p].done
  BY <1>2
<1>5. PICK n \in Nat : n = Chunk(p)
  BY <1>3
<1>6. /\ user' = CopyOut(p, req[p].user + k, n, buffer)
      /\ \/ /\ Readable(req[p].user + k, n)
            /\ frame' = [frame EXCEPT ![p].done = k + n, ![p].i = 0]
            /\ \/ k + n < req[p].size /\ pc'[p] = "dev"
               \/ ~(k + n < req[p].size) /\ pc'[p] = "leave"
         \/ pc'[p] = "leave" /\ ret'[p] = "fault" /\ frame' = frame
  BY <1>4, <1>5 DEF Spill, NextChunk, Finish, IInv, TypeInv
<1>7. UserIs(p, k) /\ Readable(req[p].user, k) /\ frame[p].i = n
  BY <1>1, <1>4, <1>5 DEF OwnInv, MovedInv
<1>8. \A j \in 0 .. n - 1 :
          buffer[j] = ReadCell(frame[p].bar, req[p].addr + k + j)
  BY <1>1, <1>4, <1>7, BufferedEach DEF IInv, Buffered
<1>9. frame'[p].bar = frame[p].bar
  BY <1>6 DEF IInv, TypeInv
<1>10. UserIs(p, k + n)'
  BY <1>1, <1>2, <1>6, <1>7, <1>8, <1>9, UserGrows
<1>11. CleanInv(p)'
  BY <1>1, <1>6 DEF CleanInv, Inside
<1>12. Readable(req[p].user + k, n) => Readable(req[p].user, k + n)
  BY <1>2, <1>3, <1>5, AddressesAreNumbers DEF Readable
<1>13. CASE pc'[p] = "leave"
  <2>1. ret'[p] = "ok" =>
            k + n = req[p].size /\ Readable(req[p].user, k + n)
    <3>1. PICK z \in Nat : z = req[p].size
      BY ONLY <1>2
    <3>2. k + n <= z
      BY ONLY <1>3, <1>4, <1>5, <3>1
    <3>3. ret'[p] = "ok" =>
              Readable(req[p].user + k, n) /\ ~(k + n < req[p].size)
      BY ONLY <1>6, <1>13
    <3>4. ~(k + n < z) => k + n = z
      BY ONLY <3>2, k \in Nat, n \in Nat, z \in Nat
    <3> QED
      BY ONLY <1>12, <3>1, <3>3, <3>4
  <2>2. LeftInv(p)'
    BY <1>1, <1>2, <1>3, <1>4, <1>5, <1>9, <1>10, <2>1, ReadEnds
  <2> QED
    BY <1>1, <1>11, <1>13, <2>2 DEF OwnInv, MovedInv, Moving
<1>14. CASE pc'[p] = "dev"
  <2>1. frame'[p].done = k + n /\ Readable(req[p].user, k + n)
    BY <1>6, <1>12, <1>14 DEF IInv, TypeInv
  <2>2. UserIs(p, frame[p].done)'
    BY <1>10, <2>1 DEF UserIs
  <2> QED
    BY <1>1, <1>11, <1>14, <2>1, <2>2 DEF OwnInv, MovedInv, LeftInv, Moving
<1> QED
  BY <1>6, <1>13, <1>14

\* A process's own values are no junk.
LEMMA FreshIsClean ==
    ASSUME NEW p \in Procs
    PROVE  /\ \A n, u : <<p, n, u>> # Junk
           /\ \A u \in UserAddrs : Fresh(p)[u] # Junk
<1>1. p # "junk"
  BY MarksAssumption
<1>2. \A n, u : <<p, n, u>> # Junk
  BY <1>1 DEF Junk
<1> QED
  BY <1>2 DEF Fresh

LEMMA ReturnOwn ==
    ASSUME IInv, NEW p \in Procs, OwnInv(p), Return(p), DOMAIN was = Procs
    PROVE  OwnInv(p)'
<1>1. pc'[p] = "idle" /\ was'[p] = <<>>
  BY DEF Return, Leave, At, Forget, IInv, TypeInv
<1>2. p \notin Testers => Clean(p)'
  <2>1. p \notin Testers => user'[p] = Fresh(p)
    BY DEF Return, IInv, TypeInv
  <2> QED
    BY <2>1, FreshIsClean DEF Clean
<1> QED
  BY <1>1, <1>2 DEF OwnInv, MovedInv, LeftInv, CleanInv, Inside

\* A process that dies in the driver.
LEMMA DieOwn ==
    ASSUME IInv, NEW p \in Procs, Die(p), DOMAIN was = Procs
    PROVE  OwnInv(p)'
<1>1. pc'[p] = "dead" /\ was'[p] = <<>>
  BY DEF Die, IInv, TypeInv
<1> QED
  BY <1>1 DEF OwnInv, MovedInv, LeftInv, CleanInv, Inside

\* A step of a call that goes on or returns.
LEMMA InDriverOwn ==
    ASSUME IInv, DataInv, NEW p \in Procs, Proceed(p) \/ Return(p)
    PROVE  (\A q \in Procs : OwnInv(q))'
<1>1. DOMAIN was = Procs /\ DOMAIN ret = Procs /\ \A q \in Procs : OwnInv(q)
  BY DEF DataInv
<1>2. \A q \in Procs \ {p} :
          /\ pc'[q] = pc[q] /\ req'[q] = req[q] /\ user'[q] = user[q]
          /\ was'[q] = was[q] /\ ret'[q] = ret[q]
  BY <1>1, ProceedFrame
<1>3. CASE OpenBody(p) \/ CloseBody(p)
  <2>1. /\ pc[p] \in {"open", "close"} /\ pc'[p] \in {"idle", "closed"}
        /\ was' = was /\ frame' = frame /\ mem' = mem /\ user' = user
    BY <1>3 DEF OpenBody, CloseBody, At, data, IInv, TypeInv
  <2>2. CleanInv(p)'
    BY <1>1, <2>1 DEF OwnInv, CleanInv, Clean, Inside
  <2> QED
    BY <1>1, <1>2, <2>1, <2>2, OutsideOwn DEF Inside
<1>4. CASE Enter(p)
  <2>1. pc[p] = "rw" /\ pc' = [pc EXCEPT ![p] = "dispatch"]
    BY <1>4 DEF Enter, At
  <2>2. \A q \in Procs : pc[q] \notin Inside
    BY <1>4, PathAssumption DEF Enter, Granted, IInv, LockInv
  <2>3. OwnInv(p)'
    BY <1>1, <1>4, EnterOwn
  <2>4. ASSUME NEW q \in Procs, q # p PROVE OwnInv(q)'
    <3>1. pc'[q] \notin Inside /\ OwnInv(q)
      BY <1>1, <1>2, <2>2, <2>4
    <3> QED
      BY <1>2, <2>2, <2>4, <3>1
      DEF OwnInv, MovedInv, LeftInv, CleanInv, Clean, Inside, Moving
  <2> QED
    BY <2>3, <2>4
<1>5. ASSUME pc[p] \in Inside, OwnInv(p)' PROVE (\A q \in Procs : OwnInv(q))'
  BY <1>1, <1>2, <1>5, InsideOwn
<1>6. CASE Dispatch(p) \/ Command(p)
  BY <1>1, <1>5, <1>6, DispatchOwn, CommandOwn DEF Dispatch, Command, Inside
<1>7. CASE ReadSmall(p) \/ WriteSmall(p)
  BY <1>1, <1>5, <1>7, ReadSmallOwn, WriteSmallOwn
  DEF ReadSmall, WriteSmall, Inside
<1>8. CASE Fill(p) \/ Transfer(p)
  BY <1>1, <1>5, <1>8, FillOwn, TransferOwn DEF Fill, Transfer, Inside
<1>9. CASE ChunkWritten(p) \/ ChunkRead(p)
  <2>1. pc[p] = "dev"
    BY <1>9 DEF ChunkWritten, ChunkRead, At
  <2> QED
    BY <1>1, <1>5, <1>9, <2>1, ChunkWrittenOwn, ChunkReadOwn DEF Inside
<1>10. CASE Spill(p)
  BY <1>1, <1>5, <1>10, SpillOwn DEF Spill, Inside
<1>11. CASE Return(p)
  <2>1. pc[p] = "leave"
    BY <1>11 DEF Return, Leave, At
  <2> QED
    BY <1>1, <1>5, <1>11, <2>1, ReturnOwn DEF Inside
<1>12. CASE Die(p)
  <2>1. pc[p] \in Inside
    BY <1>12 DEF Die, Astray, Outside, Inside
  <2> QED
    BY <1>1, <1>5, <1>12, <2>1, DieOwn
<1> QED
  BY <1>3, <1>4, <1>6, <1>7, <1>8, <1>9, <1>10, <1>11, <1>12 DEF Proceed

\* Programs outside the driver, or at its door: p does the step.
Outer(p) ==
    \/ OpenCall(p) \/ Exit(p) \/ Signalled(p) \/ MmapNoTable(p)
    \/ \E r \in Requests : Call(p, r) /\ UNCHANGED user
    \/ p \in Testers /\ (Prepare(p) \/ Returned(p) \/ Compare(p))

LEMMA OuterFrame ==
    ASSUME IInv, DOMAIN was = Procs, DOMAIN ret = Procs, NEW p \in Procs,
           Outer(p)
    PROVE  /\ pc[p] \notin Inside /\ pc'[p] \notin Inside
           /\ was' = was /\ frame' = frame /\ mem' = mem
           /\ DOMAIN ret' = Procs
           /\ \A q \in Procs \ {p} :
                  /\ pc'[q] = pc[q] /\ req'[q] = req[q] /\ user'[q] = user[q]
                  /\ ret'[q] = ret[q]
<1> USE DEF IInv, TypeInv, data, semVars, Inside
<1>1. CASE OpenCall(p) \/ Exit(p)
  BY <1>1 DEF OpenCall, Exit, CloseCall, Arrive, At
<1>2. CASE Signalled(p)
  BY <1>2 DEF Signalled, OpenInterrupted, CloseInterrupted, CallInterrupted,
     Interrupted, At
<1>3. CASE \E r \in Requests : Call(p, r) /\ UNCHANGED user
  BY <1>3 DEF Call, Arrive, At
<1>4. CASE Prepare(p) \/ Returned(p) \/ Compare(p)
  BY <1>4 DEF Prepare, Returned, Compare
<1>5. CASE MmapNoTable(p)
  BY <1>5 DEF MmapNoTable, At
<1> QED
  BY <1>1, <1>2, <1>3, <1>4, <1>5 DEF Outer

LEMMA OuterOwn ==
    ASSUME IInv, DataInv, NEW p \in Procs, Outer(p),
           p \in Testers /\ pc'[p] = "rw" /\ req'[p].op = "write" => Clean(p)
    PROVE  (\A q \in Procs : OwnInv(q))'
<1>1. DOMAIN was = Procs /\ DOMAIN ret = Procs /\ \A q \in Procs : OwnInv(q)
  BY DEF DataInv
<1>2. /\ pc[p] \notin Inside /\ pc'[p] \notin Inside
      /\ was' = was /\ frame' = frame /\ mem' = mem
      /\ DOMAIN ret' = Procs
      /\ \A q \in Procs \ {p} :
             /\ pc'[q] = pc[q] /\ req'[q] = req[q] /\ user'[q] = user[q]
             /\ ret'[q] = ret[q]
  BY <1>1, OuterFrame
<1>3. CleanInv(p)'
  <2>1. CASE Exit(p)
    <3>1. user'[p] = Fresh(p)
      BY <2>1 DEF Exit, IInv, TypeInv
    <3> QED
      BY <3>1, FreshIsClean DEF CleanInv, Clean
  <2>2. CASE OpenCall(p) \/ Signalled(p)
    <3>1. user' = user /\ pc'[p] # "rw" /\ pc[p] # "dead"
      BY <2>2 DEF OpenCall, Arrive, Signalled, OpenInterrupted,
         CloseInterrupted, CallInterrupted, Interrupted, At, data, IInv, TypeInv
    <3> QED
      BY <1>1, <1>2, <3>1 DEF OwnInv, CleanInv, Clean
  <2>3. CASE \E r \in Requests : Call(p, r) /\ UNCHANGED user
    <3>1. user' = user /\ pc[p] = "idle"
      BY <2>3 DEF Call, Arrive, At
    <3>2. CASE p \in Testers
      BY <1>2, <3>1, <3>2 DEF CleanInv, Clean
    <3>3. CASE p \notin Testers
      BY <1>1, <1>2, <3>1, <3>3 DEF OwnInv, CleanInv, Clean
    <3> QED
      BY <3>2, <3>3
  <2>4. CASE p \in Testers /\ (Prepare(p) \/ Returned(p) \/ Compare(p))
    <3>1. pc'[p] = "idle"
      BY <2>4 DEF Prepare, Returned, Compare
    <3> QED
      BY <1>2, <2>4, <3>1 DEF CleanInv, Inside
  <2>5. CASE MmapNoTable(p)
    <3>1. pc'[p] = "dead"
      BY <2>5 DEF MmapNoTable, At, IInv, TypeInv
    <3> QED
      BY <3>1 DEF CleanInv, Inside
  <2> QED
    BY <2>1, <2>2, <2>3, <2>4, <2>5 DEF Outer
<1> QED
  BY <1>1, <1>2, <1>3, OutsideOwn

----------------------------------------------------------------------------
(* What the tester knows *)

\* The tester's transfers go through the window to global memory.
LEMMA TestBar ==
    ASSUME NEW n \in Sizes, NEW op \in Ops
    PROVE  /\ BarOf(TestRequest(op, n)) = 0
           /\ \A j \in 0 .. n - 1 :
                  Base + j \in Cells /\ j \in UserAddrs /\ Into + j \in UserAddrs
           /\ n \in Nat /\ Into \in Nat /\ Base \in Nat /\ n <= Into
<1>1. /\ Base \in Nat /\ Window \in Nat /\ Width \in Nat /\ UserCells \in Nat
      /\ Base # 0 /\ Window # 0 /\ Width # 0 /\ UserCells # 0
  BY PathAssumption
<1>2. Into \in Nat /\ Into + Into <= UserCells
  BY <1>1 DEF Into
<1>3. n \in Nat /\ 1 <= n /\ n <= Into /\ n <= Window
  BY <1>1, <1>2, TesterAssumption
<1>4. RegionSize[0] \in Nat /\ Base + Window <= RegionSize[0]
      /\ RegionSize[0] <= Width \div 2
  BY PathAssumption, LifeAssumption DEF Bars
<1>5. Base < Width \div 2 /\ Base + n < Width
  BY <1>1, <1>3, <1>4
<1>6. Signed(Base) = Base
  BY <1>5 DEF Signed
<1>7. Sum(Base, n) = Base + n
  BY <1>1, <1>3, <1>5, SumIsPlain
<1>8. BarOf(TestRequest(op, n)) = 0
  BY <1>1, <1>3, <1>6, <1>7 DEF BarOf, TestRequest
<1>9. \A j \in 0 .. n - 1 :
          Base + j \in Cells /\ j \in UserAddrs /\ Into + j \in UserAddrs
  BY <1>1, <1>2, <1>3 DEF Cells, UserAddrs
<1> QED
  BY <1>1, <1>2, <1>3, <1>8, <1>9

\* A step of another program: if it writes to the device the test is no
\* longer alone.
LEMMA StageOther ==
    ASSUME NEW t \in Testers, StageInv(t),
           pc'[t] = pc[t], req'[t] = req[t], ret'[t] = ret[t],
           user'[t] = user[t], stage'[t] = stage[t], test'[t] = test[t],
           alone'[t] => alone[t] /\ mem' = mem
    PROVE  StageInv(t)'
BY DEF StageInv, Clean, Stored, HasBack

\* A call that has written and returns.
LEMMA WriteStores ==
    ASSUME NEW t \in Procs, LeftInv(t), pc[t] = "leave", ret[t] = "ok",
           test[t] \in Sizes, req[t] = TestRequest("write", test[t])
    PROVE  Stored(t)
<1>1. PICK n \in Sizes : n = test[t]
  OBVIOUS
<1>2. /\ req[t].op = "write" /\ req[t].addr = Base /\ req[t].user = 0
      /\ req[t].size = n
  BY <1>1 DEF TestRequest
<1>3. frame[t].bar = 0 /\ WriteOutcome(t)
  BY <1>1, <1>2, TestBar DEF LeftInv, OutcomeOf, Ops
<1>4. n \in Nat /\ Base \in Nat /\ \A j \in 0 .. n - 1 : Base + j \in Cells
  BY TestBar DEF Ops
<1>5. ASSUME NEW j \in 0 .. n - 1 PROVE mem[Base + j] = user[t][j]
  <2>1. PICK a \in Cells : a = Base + j
    BY <1>4
  <2>2. Base <= a /\ a < Base + n /\ 0 + a - Base = j
    BY <1>4, <2>1
  <2>3. mem[a] = user[t][0 + a - Base]
    BY <1>2, <1>3, <2>2 DEF WriteOutcome
  <2> QED
    BY <2>1, <2>2, <2>3
<1> QED
  BY <1>1, <1>5 DEF Stored

\* A call that has read and returns.
LEMMA ReadGivesBack ==
    ASSUME NEW t \in Procs, LeftInv(t), pc[t] = "leave", ret[t] = "ok",
           test[t] \in Sizes, req[t] = TestRequest("read", test[t]), Stored(t)
    PROVE  HasBack(t)
<1>1. PICK n \in Sizes : n = test[t]
  OBVIOUS
<1>2. /\ req[t].op = "read" /\ req[t].addr = Base /\ req[t].user = Into
      /\ req[t].size = n
  BY <1>1 DEF TestRequest
<1>3. frame[t].bar = 0 /\ ReadOutcome(t)
  BY <1>1, <1>2, TestBar DEF LeftInv, OutcomeOf, Ops
<1>4. /\ n \in Nat /\ Base \in Nat /\ Into \in Nat
      /\ \A j \in 0 .. n - 1 : Base + j \in Cells /\ Into + j \in UserAddrs
  BY TestBar DEF Ops
<1>5. ASSUME NEW j \in 0 .. n - 1 PROVE user[t][Into + j] = user[t][j]
  <2>1. PICK u \in UserAddrs : u = Into + j
    BY <1>4
  <2>2. Into <= u /\ u < Into + n /\ Base + u - Into = Base + j
    BY <1>4, <2>1
  <2>3. user[t][u] = ReadCell(0, Base + u - Into)
    BY <1>2, <1>3, <2>2 DEF ReadOutcome
  <2>4. ReadCell(0, Base + j) = mem[Base + j]
    BY <1>4 DEF ReadCell
  <2> QED
    BY <1>1, <2>1, <2>2, <2>3, <2>4 DEF Stored
<1> QED
  BY <1>1, <1>5 DEF HasBack

\* The tester's own call goes on.
LEMMA StageProceeds ==
    ASSUME IInv, DataInv, NEW t \in Testers, Proceed(t), UNCHANGED <<stage, test>>,
           alone'[t] => alone[t]
    PROVE  StageInv(t)'
<1>0. t \in Procs /\ StageInv(t) /\ OwnInv(t)
  BY TesterAssumption DEF DataInv
<1>1. CASE stage[t] = "prepare"
  BY <1>1 DEF StageInv
<1>2. CASE stage[t] # "prepare"
  <2>1. pc[t] \notin {"closed", "open", "close"} /\ test[t] \in Sizes
    BY <1>0, <1>2 DEF StageInv
  <2>2. /\ pc[t] \in Inside \cup {"rw"} /\ pc[t] # "leave"
        /\ pc'[t] \notin {"idle", "closed", "open", "close"}
        /\ req' = req
    <3>1. CASE OpenBody(t) \/ CloseBody(t)
      BY <2>1, <3>1 DEF OpenBody, CloseBody, At
    <3>2. CASE Enter(t) \/ Command(t) \/ Dispatch(t)
      BY <1>0, <3>2
      DEF Enter, Command, Dispatch, Finish, At, Inside, IInv, TypeInv
    <3>3. CASE ReadSmall(t) \/ WriteSmall(t) \/ Fill(t) \/ Transfer(t)
      BY <1>0, <3>3
      DEF ReadSmall, WriteSmall, Fill, Transfer, Finish, Inside, IInv, TypeInv
    <3>4. CASE ChunkWritten(t) \/ ChunkRead(t) \/ Spill(t)
      BY <1>0, <3>4
      DEF ChunkWritten, ChunkRead, Spill, NextChunk, Finish, At, Inside, IInv,
          TypeInv
    <3>5. CASE Die(t)
      BY <1>0, <3>5 DEF Die, Astray, Outside, Inside, IInv, TypeInv
    <3> QED
      BY <3>1, <3>2, <3>3, <3>4, <3>5 DEF Proceed
  <2>3. stage[t] \in {"written", "read"}
    <3>1. stage[t] \in Stages
      BY DEF IInv, TestInv
    <3> QED
      BY <1>0, <1>2, <2>2, <3>1 DEF StageInv, Stages, Inside
  <2>4. ASSUME stage[t] = "read", alone[t] PROVE Stored(t)'
    <3>1. PICK n \in Sizes : n = test[t]
      BY <2>1
    <3>2. req[t] = TestRequest("read", n) /\ Stored(t)
      BY <1>0, <2>2, <2>4, <3>1 DEF StageInv, Inside
    <3>3. req[t].op = "read" /\ req[t].user = Into
      BY <3>2 DEF TestRequest
    <3>4. mem' = mem /\ \A u \in UserAddrs : u < Into => user'[t][u] = user[t][u]
      BY <1>0, <2>2, <3>3, ReadsChangeTargetOnly
    <3>5. \A j \in 0 .. n - 1 : j \in UserAddrs /\ j < Into
      BY TestBar DEF Ops
    <3> QED
      BY <3>1, <3>2, <3>4, <3>5 DEF Stored
  <2> QED
    BY <1>0, <2>1, <2>2, <2>3, <2>4 DEF StageInv, Inside
<1> QED
  BY <1>1, <1>2

\* The tester's own call returns.
LEMMA StageReturns ==
    ASSUME IInv, DataInv, NEW t \in Testers, Return(t), UNCHANGED <<stage, test>>,
           alone'[t] => alone[t]
    PROVE  StageInv(t)'
<1>1. t \in Procs /\ StageInv(t) /\ LeftInv(t)
  BY TesterAssumption DEF DataInv, OwnInv
<1>2. /\ pc[t] = "leave" /\ pc'[t] = "idle" /\ user' = user /\ mem' = mem
      /\ ret' = ret
  BY <1>1 DEF Return, Leave, At, IInv, TypeInv
<1>3. ASSUME stage[t] = "written", ret[t] = "ok" PROVE Stored(t)'
  <2>1. Stored(t)
    BY <1>1, <1>2, <1>3, WriteStores DEF StageInv
  <2> QED
    BY <1>2, <2>1 DEF Stored
<1>4. ASSUME stage[t] = "read", alone[t], ret[t] = "ok" PROVE HasBack(t)'
  <2>1. HasBack(t)
    BY <1>1, <1>2, <1>4, ReadGivesBack DEF StageInv
  <2> QED
    BY <1>2, <2>1 DEF HasBack
<1>5. stage[t] \notin {"write", "compare"}
  BY <1>1, <1>2 DEF StageInv
<1> QED
  BY <1>1, <1>2, <1>3, <1>4, <1>5 DEF StageInv

\* The steps of the tester outside the driver.
LEMMA StageSteps ==
    ASSUME IInv, DataInv, NEW t \in Testers, TesterStep(t)
    PROVE  StageInv(t)'
<1>1. /\ t \in Procs /\ StageInv(t) /\ DOMAIN ret = Procs
      /\ DOMAIN alone = Testers
  BY TesterAssumption DEF DataInv
<1>2. CASE Prepare(t)
  <2>1. PICK n \in Sizes :
            /\ test' = [test EXCEPT ![t] = n]
            /\ user' = [user EXCEPT ![t] = [u \in UserAddrs |->
                           IF u < n THEN <<t, n, u>> ELSE Fresh(t)[u]]]
    BY <1>2 DEF Prepare
  <2>2. /\ stage'[t] = "write" /\ test'[t] = n /\ pc'[t] = "idle"
        /\ \A u \in UserAddrs :
               user'[t][u] = IF u < n THEN <<t, n, u>> ELSE Fresh(t)[u]
    BY <1>1, <1>2, <2>1 DEF Prepare, Stage, IInv, TypeInv, TestInv
  <2>3. Clean(t)'
    BY <1>1, <2>2, FreshIsClean DEF Clean
  <2> QED
    BY <2>2, <2>3 DEF StageInv
<1>3. CASE WriteTest(t)
  <2>1. /\ stage[t] = "write" /\ stage'[t] = "written" /\ test' = test
        /\ pc'[t] = "rw" /\ req'[t] = TestRequest("write", test[t])
    BY <1>1, <1>3
    DEF WriteTest, Call, Arrive, At, Stage, IInv, TypeInv, TestInv
  <2> QED
    BY <1>1, <2>1 DEF StageInv
<1>4. CASE ReadTest(t)
  <2>1. /\ stage[t] = "written" /\ stage'[t] = "read" /\ test' = test
        /\ pc[t] = "idle" /\ pc'[t] = "rw" /\ user' = user /\ mem' = mem
        /\ req'[t] = TestRequest("read", test[t])
        /\ alone'[t] => alone[t] /\ ret[t] = "ok"
    BY <1>1, <1>4
    DEF ReadTest, Call, Arrive, At, Stage, IInv, TypeInv, TestInv
  <2>2. alone'[t] => Stored(t)'
    BY <1>1, <2>1 DEF StageInv, Stored
  <2> QED
    BY <1>1, <2>1, <2>2 DEF StageInv
<1>5. CASE Returned(t)
  <2>1. /\ stage[t] = "read" /\ stage'[t] = "compare" /\ pc[t] = "idle"
        /\ UNCHANGED <<pc, ret, user, test, alone>>
    BY <1>5 DEF Returned, Stage, IInv, TestInv, data
  <2> QED
    BY <1>1, <2>1 DEF StageInv, HasBack
<1>6. CASE Compare(t)
  <2>1. stage'[t] = "prepare"
    BY <1>6 DEF Compare, Stage, IInv, TestInv
  <2> QED
    BY <2>1 DEF StageInv
<1>7. CASE TesterExit(t)
  BY <1>7 DEF TesterExit, testVars, StageInv
<1>8. CASE OpenCall(t) /\ UNCHANGED testVars
  <2>1. pc[t] = "closed"
    BY <1>8 DEF OpenCall, Arrive, At
  <2> QED
    BY <1>1, <1>8, <2>1 DEF StageInv, testVars
<1>9. CASE Signalled(t) /\ UNCHANGED testVars
  <2>1. CASE OpenInterrupted(t) \/ CloseInterrupted(t)
    <3>1. pc[t] \in {"open", "close"}
      BY <2>1 DEF OpenInterrupted, CloseInterrupted, Interrupted, At
    <3> QED
      BY <1>1, <1>9, <3>1 DEF StageInv, testVars
  <2>2. CASE CallInterrupted(t)
    <3>1. /\ pc[t] = "rw" /\ pc'[t] = "idle" /\ ret'[t] = "fault"
      BY <1>1, <2>2 DEF CallInterrupted, Interrupted, At, IInv, TypeInv
    <3> QED
      BY <1>1, <1>9, <3>1 DEF StageInv, testVars
  <2> QED
    BY <1>9, <2>1, <2>2 DEF Signalled
<1>10. CASE TesterMaps(t)
  BY <1>10 DEF TesterMaps, testVars, StageInv
<1> QED
  BY <1>2, <1>3, <1>4, <1>5, <1>6, <1>7, <1>8, <1>9, <1>10 DEF TesterStep

----------------------------------------------------------------------------
(* The invariant of the data is inductive *)

\* At first nothing is under way.
LEMMA InitData == TestInit => DataInv
<1> SUFFICES ASSUME TestInit PROVE DataInv
  OBVIOUS
<1> USE DEF TestInit, Init, PathInit
<1>1. DOMAIN was = Procs /\ DOMAIN ret = Procs /\ DOMAIN alone = Testers
  OBVIOUS
<1>2. ASSUME NEW p \in Procs PROVE OwnInv(p)
  <2>1. pc[p] = "closed" /\ was[p] = <<>> /\ user[p] = Fresh(p)
    OBVIOUS
  <2>2. Clean(p)
    BY <2>1, FreshIsClean DEF Clean
  <2> QED
    BY <2>1, <2>2 DEF OwnInv, MovedInv, LeftInv, CleanInv, Inside
<1>3. \A t \in Testers : StageInv(t)
  BY DEF StageInv
<1> QED
  BY <1>1, <1>2, <1>3 DEF DataInv

\* insmod and rmmod move no data.
LEMMA QuietData ==
    ASSUME DataInv, UNCHANGED pathVars, UNCHANGED testVars
    PROVE  DataInv'
<1> USE DEF pathVars, semVars, data, testVars
<1>1. ASSUME NEW p \in Procs PROVE OwnInv(p)'
  <2>1. OwnInv(p)
    BY DEF DataInv
  <2>2. MovedInv(p)'
    BY <2>1 DEF OwnInv, MovedInv, MemIs, UserIs, Chunk, ReadCell
  <2>3. LeftInv(p)'
    BY <2>1
    DEF OwnInv, LeftInv, OutcomeOf, WriteOutcome, ReadOutcome, ReadCell
  <2>4. CleanInv(p)'
    BY <2>1 DEF OwnInv, CleanInv, Clean
  <2> QED
    BY <2>1, <2>2, <2>3, <2>4 DEF OwnInv
<1>2. \A t \in Testers : StageInv(t)'
  BY DEF DataInv, StageInv, Clean, Stored, HasBack
<1> QED
  BY <1>1, <1>2 DEF DataInv

\* A call of any process goes on or returns.
LEMMA InDriverData ==
    ASSUME IInv, DataInv, NEW p \in Procs, InDriver(p)
    PROVE  DataInv'
<1>1. /\ DOMAIN was = Procs /\ DOMAIN ret = Procs /\ DOMAIN alone = Testers
      /\ \A t \in Testers : StageInv(t)
  BY DEF DataInv
<1>2. /\ Proceed(p) \/ Return(p)
      /\ alone' = [t \in Testers |-> alone[t] /\ (t = p \/ mem' = mem)]
      /\ UNCHANGED <<stage, test>>
  BY DEF InDriver, Seen
<1>3. /\ DOMAIN was' = Procs /\ DOMAIN ret' = Procs
      /\ \A q \in Procs \ {p} :
             /\ pc'[q] = pc[q] /\ req'[q] = req[q] /\ user'[q] = user[q]
             /\ was'[q] = was[q] /\ ret'[q] = ret[q]
  BY <1>1, <1>2, ProceedFrame
<1>4. (\A q \in Procs : OwnInv(q))'
  BY <1>2, InDriverOwn
<1>5. ASSUME NEW t \in Testers PROVE StageInv(t)'
  <2>1. t \in Procs
    BY TesterAssumption
  <2>2. CASE t = p
    <3>1. alone'[t] => alone[t]
      BY <1>2, <2>2
    <3> QED
      BY <1>2, <2>2, <3>1, StageProceeds, StageReturns
  <2>3. CASE t # p
    <3>1. alone'[t] => alone[t] /\ mem' = mem
      BY <1>2, <2>3
    <3> QED
      BY <1>1, <1>2, <1>3, <2>1, <2>3, <3>1, StageOther
  <2> QED
    BY <2>2, <2>3
<1> QED
  BY <1>2, <1>3, <1>4, <1>5 DEF DataInv

\* A step outside the driver leaves the testers but its own alone.
LEMMA OuterData ==
    ASSUME IInv, DataInv, NEW p \in Procs, Outer(p),
           p \in Testers /\ pc'[p] = "rw" /\ req'[p].op = "write" => Clean(p),
           DOMAIN alone' = Testers,
           \A t \in Testers \ {p} :
               /\ stage'[t] = stage[t] /\ test'[t] = test[t]
               /\ alone'[t] = alone[t],
           p \in Testers => StageInv(p)'
    PROVE  DataInv'
<1>1. /\ DOMAIN was = Procs /\ DOMAIN ret = Procs
      /\ \A t \in Testers : StageInv(t)
  BY DEF DataInv
<1>2. /\ was' = was /\ mem' = mem /\ DOMAIN ret' = Procs
      /\ \A q \in Procs \ {p} :
             /\ pc'[q] = pc[q] /\ req'[q] = req[q] /\ user'[q] = user[q]
             /\ ret'[q] = ret[q]
  BY <1>1, OuterFrame
<1>3. (\A q \in Procs : OwnInv(q))'
  BY OuterOwn
<1>4. ASSUME NEW t \in Testers, t # p PROVE StageInv(t)'
  <2>1. t \in Procs
    BY TesterAssumption
  <2>2. alone'[t] => alone[t] /\ mem' = mem
    BY <1>2, <1>4
  <2> QED
    BY <1>1, <1>2, <1>4, <2>1, <2>2, StageOther
<1> QED
  BY <1>1, <1>2, <1>3, <1>4 DEF DataInv

\* The steps of a tester outside the driver.
LEMMA TesterData ==
    ASSUME IInv, DataInv, NEW t \in Testers, TesterStep(t)
    PROVE  DataInv'
<1>1. /\ t \in Procs /\ StageInv(t) /\ DOMAIN alone = Testers
  BY TesterAssumption DEF DataInv
<1>2. Outer(t)
  <2>1. CASE WriteTest(t) \/ ReadTest(t)
    <3>1. test[t] \in Sizes /\ \E op \in Ops : Call(t, TestRequest(op, test[t]))
      BY <2>1 DEF WriteTest, ReadTest, Stage, IInv, TestInv, Ops
    <3>2. \E r \in Requests : Call(t, r)
      BY <3>1, TesterAssumption
    <3>3. UNCHANGED user
      BY <2>1 DEF WriteTest, ReadTest
    <3> QED
      BY <3>2, <3>3 DEF Outer
  <2>2. CASE ~(WriteTest(t) \/ ReadTest(t))
    BY <2>2 DEF TesterStep, Outer, TesterExit, TesterMaps
  <2> QED
    BY <2>1, <2>2
<1>3. ASSUME pc'[t] = "rw", req'[t].op = "write" PROVE Clean(t)
  <2>1. CASE WriteTest(t)
    BY <1>1, <2>1 DEF WriteTest, Stage, StageInv
  <2>2. CASE ReadTest(t)
    <3>1. req'[t].op = "read"
      BY <1>1, <2>2 DEF ReadTest, Call, TestRequest, IInv, TypeInv
    <3> QED
      BY <1>3, <3>1
  <2>3. CASE Prepare(t) \/ Returned(t) \/ Compare(t)
    BY <1>3, <2>3 DEF Prepare, Returned, Compare
  <2>4. CASE TesterExit(t) \/ OpenCall(t)
    BY <1>1, <1>3, <2>4
    DEF TesterExit, Exit, CloseCall, OpenCall, Arrive, At, IInv, TypeInv
  <2>5. CASE Signalled(t)
    BY <1>1, <1>3, <2>5
    DEF Signalled, OpenInterrupted, CloseInterrupted, CallInterrupted,
        Interrupted, At, IInv, TypeInv
  <2>6. CASE TesterMaps(t)
    BY <1>1, <1>3, <2>6 DEF TesterMaps, MmapNoTable, At, IInv, TypeInv
  <2> QED
    BY <2>1, <2>2, <2>3, <2>4, <2>5, <2>6 DEF TesterStep
<1>4. /\ DOMAIN alone' = Testers
      /\ \A q \in Testers \ {t} :
             /\ stage'[q] = stage[q] /\ test'[q] = test[q]
             /\ alone'[q] = alone[q]
  <2> USE <1>1 DEF Stage, IInv, TestInv
  <2>1. CASE Prepare(t)
    BY <2>1 DEF Prepare
  <2>2. CASE WriteTest(t)
    BY <2>2 DEF WriteTest
  <2>3. CASE ReadTest(t)
    BY <2>3 DEF ReadTest
  <2>4. CASE Returned(t)
    BY <2>4 DEF Returned
  <2>5. CASE Compare(t)
    BY <2>5 DEF Compare
  <2>6. CASE UNCHANGED testVars
    BY <2>6 DEF testVars
  <2> QED
    BY <2>1, <2>2, <2>3, <2>4, <2>5, <2>6
    DEF TesterStep, TesterExit, TesterMaps
<1>5. StageInv(t)'
  BY StageSteps
<1> QED
  BY <1>1, <1>2, <1>3, <1>4, <1>5, OuterData

\* The steps of another program outside the driver.
LEMMA ProgramData ==
    ASSUME IInv, DataInv, NEW p \in Procs \ Testers, ProgramStep(p)
    PROVE  DataInv'
<1>1. Outer(p)
  BY TesterAssumption DEF ProgramStep, ProgramCall, Outer
<1>2. DOMAIN alone = Testers /\ UNCHANGED testVars
  BY DEF ProgramStep, DataInv
<1> QED
  BY <1>1, <1>2, OuterData DEF testVars

LEMMA NextData == IInv /\ DataInv /\ [Next]_allVars => DataInv'
<1>1. ASSUME IInv, DataInv, Next PROVE DataInv'
  <2>1. CASE LifeStep /\ UNCHANGED testVars
    BY <1>1, <2>1, QuietData DEF LifeStep
  <2>2. ASSUME NEW t \in Testers, TesterStep(t) PROVE DataInv'
    BY <1>1, <2>2, TesterData
  <2>3. ASSUME NEW p \in Procs \ Testers, ProgramStep(p) PROVE DataInv'
    BY <1>1, <2>3, ProgramData
  <2>4. ASSUME NEW p \in Procs, InDriver(p) PROVE DataInv'
    BY <1>1, <2>4, InDriverData
  <2> QED
    BY <1>1, <2>1, <2>2, <2>3, <2>4 DEF Next
<1>2. ASSUME DataInv, UNCHANGED allVars PROVE DataInv'
  BY <1>2, QuietData DEF allVars, vars
<1> QED
  BY <1>1, <1>2

\* Where the data of every transfer is, at every point of it.
LEMMA DataHolds == Spec => []DataInv
BY InitData, PathInv, NextData, PTL DEF Spec

\* What a call reports is what it has done, for transfers of any size in any
\* number of chunks: a write that returns 0 has put all of the data in place, a
\* read that returns 0 has delivered it, one that faults has moved whole chunks
\* and no more, and only the target changes, but for the overhang of a write of
\* two bytes.
THEOREM OutcomesAreTrue == Spec => []OutcomeMatchesData
<1>1. ASSUME DataInv PROVE OutcomeMatchesData
  <2>1. ASSUME NEW p \in Procs, pc[p] = "leave", was[p] # <<>>
        PROVE  OutcomeOf(p)
    BY <1>1, <2>1 DEF DataInv, OwnInv, LeftInv
  <2> QED
    BY <2>1 DEF OutcomeMatchesData, OutcomeOf
<1> QED
  BY <1>1, DataHolds, PTL

\* A tester reads back what it wrote, for tests of any size and whatever other
\* programs read meanwhile.
THEOREM TestersPass == Spec => []TesterPasses
<1>1. ASSUME DataInv PROVE TesterPasses
  <2>1. ASSUME NEW t \in Testers, stage[t] = "compare", alone[t],
               ret[t] = "ok"
        PROVE  HasBack(t)
    BY <1>1, <2>1 DEF DataInv, StageInv
  <2> QED
    BY <2>1 DEF TesterPasses, HasBack
<1> QED
  BY <1>1, DataHolds, PTL

=============================================================================
