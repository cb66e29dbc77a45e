------------------------ MODULE SharedBuffers_proof ------------------------
(***************************************************************************)
(* The table of reference counts (AddrMap) implements what mmap() promises *)
(* (SharedBuffers), and a remap that fails is the only way to lose a       *)
(* buffer, for any number of processes, addresses, buffers and slots, as   *)
(* long as mapping calls of different processes do not overlap             *)
(* (SerialSpec).  The second part is about the command                     *)
(* GET_PHYS_PTR_FROM_VIRT: while slots come and go beside it, a lookup     *)
(* never runs past the slot of the mapping it was asked about, whoever     *)
(* else has a mapping at the same address.                                 *)
(***************************************************************************)
EXTENDS AddrMap_proof

\* The places of a call that own a slot in use, and those that own a buffer.
OwnsSlot == {"fill", "release", "wipe"}
OwnsBuf == {"remap", "fill"}

\* What the call of p knows of the slot that it fills or clears.
CallInv(p) ==
    /\ pc[p] = "fill" => handle[idx[p]] = NoBuf
    /\ pc[p] = "release" => start[idx[p]] # NoAddr /\ handle[idx[p]] \in live
    /\ pc[p] = "wipe" => handle[idx[p]] \notin live
    /\ pc[p] = "clear" => start[idx[p]] = NoAddr

\* A free slot has no handle, but while it is being cleared.
FreeIsClean ==
    \A s \in Slots : start[s] = NoAddr /\ handle[s] # NoBuf =>
        \E p \in Procs : pc[p] = "clear" /\ idx[p] = s

\* A slot in use has a VMA, or a call that works on it.
FilledIsUsed ==
    \A s \in Slots : start[s] # NoAddr =>
        \/ \E v \in vmas : v.slot = s
        \/ \E p \in Procs : pc[p] \in OwnsSlot /\ idx[p] = s

\* A buffer has a VMA, or a call that is about to map it or to give it back,
\* or a failed remap has dropped it.
BufferIsOwned ==
    \A b \in live :
        \/ \E v \in vmas : v.buf = b
        \/ \E p \in Procs : pc[p] \in OwnsBuf /\ got[p] = b
        \/ \E p \in Procs : pc[p] = "release" /\ handle[idx[p]] = b
        \/ b \in lost

SlotInv ==
    /\ \A p \in Procs : CallInv(p)
    /\ FreeIsClean
    /\ FilledIsUsed
    /\ BufferIsOwned

----------------------------------------------------------------------------
(* The mapping, buffer by buffer *)

Same(b) == PhaseOf(b)' = PhaseOf(b) /\ UsersOf(b)' = UsersOf(b)

\* A step that leaves every buffer alone is a stutter.
LEMMA AllSame ==
    ASSUME \A b \in Bufs : Same(b)
    PROVE  UNCHANGED SB!vars
BY DEF Same, SB!vars

\* If neither VMAs nor table nor allocations change, nothing does.
LEMMA QuietIsSame ==
    ASSUME UNCHANGED <<start, handle, live, vmas>>
    PROVE  \A b \in Bufs : Same(b)
BY DEF Same, PhaseOf, UsersOf, Filled

\* A buffer is mapped if it has a VMA.
LEMMA HasUsers ==
    ASSUME NEW b \in Bufs
    PROVE  UsersOf(b) # {} <=> \E v \in vmas : v.buf = b
BY DEF UsersOf

\* While p is inside a mapping call, nobody else is.
LEMMA OthersOut ==
    ASSUME IInv, NEW p \in Procs, pc[p] \in MapPcs
    PROVE  \A q \in Procs \ {p} : pc[q] \notin MapPcs
BY DEF IInv, Serial

\* Then every slot in use has a VMA, or is the one that p works on.
LEMMA FilledByOther ==
    ASSUME IInv, SlotInv, NEW p \in Procs, pc[p] \in MapPcs,
           NEW s \in Slots, start[s] # NoAddr,
           pc[p] \in OwnsSlot => idx[p] # s
    PROVE  \E v \in vmas : v.slot = s /\ v.buf = handle[s] /\ handle[s] \in live
<1>1. \A q \in Procs : pc[q] \in OwnsSlot => idx[q] # s
  BY OthersOut DEF OwnsSlot, MapPcs
<1>2. PICK v \in vmas : v.slot = s
  BY <1>1 DEF SlotInv, FilledIsUsed
<1> QED
  BY <1>2 DEF IInv, VmaInv, SlotDescribesItsVmas, MappedIsAllocated

----------------------------------------------------------------------------
(* The steps of a call *)

\* The steps of mmap() before the slot is touched, and the lookup.
LEMMA QuietSlots ==
    ASSUME IInv, SlotInv, NEW p \in Procs, OnlyLocals(p),
           pc[p] \notin {"fill", "release", "wipe", "clear"},
           pc'[p] \notin {"remap", "fill", "release", "wipe", "clear"},
           lost \subseteq lost', pc[p] = "remap" => got[p] \in lost'
    PROVE  SlotInv' /\ \A b \in Bufs : Same(b)
<1> USE DEF OnlyLocals, table
<1>1. \A q \in Procs : CallInv(q)'
  BY DEF SlotInv, CallInv
<1>2. FreeIsClean'
  BY DEF SlotInv, FreeIsClean
<1>3. FilledIsUsed'
  BY DEF SlotInv, FilledIsUsed, OwnsSlot
<1>4. BufferIsOwned'
  BY DEF SlotInv, BufferIsOwned, OwnsBuf
<1> QED
  BY <1>1, <1>2, <1>3, <1>4, QuietIsSame DEF SlotInv

\* The same, step by step.
LEMMA QuietKeeps ==
    ASSUME IInv, SlotInv, NEW p \in Procs,
           \/ MmapCall(p) \/ ScanTaken(p) \/ ScanFree(p) \/ ScanFull(p)
           \/ AllocFail(p) \/ RemapFail(p)
           \/ LookupCall(p) \/ Lookup(p)
    PROVE  SlotInv' /\ \A b \in Bufs : Same(b)
<1>1. OnlyLocals(p)
  BY DEF OnlyLocals, table, MmapCall, ScanTaken, ScanFree, ScanFull, AllocFail,
         RemapFail, LookupCall, Lookup, LookupNext, LookupHit, LookupMiss,
         LookupCopy, LookupReturn, Return, Goto, IInv, TypeOK
<1>2. /\ pc[p] \notin {"fill", "release", "wipe", "clear"}
      /\ pc'[p] \notin {"remap", "fill", "release", "wipe", "clear"}
      /\ lost \subseteq lost' /\ (pc[p] = "remap" => got[p] \in lost')
  BY DEF MmapCall, ScanTaken, ScanFree, ScanFull, AllocFail, RemapFail,
         LookupCall, Lookup, LookupNext, LookupHit, LookupMiss, LookupCopy,
         LookupReturn, Return, Goto, IInv, TypeOK
<1> QED
  BY <1>1, <1>2, QuietSlots

\* A buffer is allocated that no slot in use names.
LEMMA AllocKeeps ==
    ASSUME IInv, SlotInv, NEW p \in Procs, Alloc(p)
    PROVE  SlotInv' /\ \E b \in Bufs : SB!Allocate(b)
<1>1. PICK b \in Bufs \ live :
         /\ pc[p] = "alloc"
         /\ live' = live \cup {b}
         /\ got' = [got EXCEPT ![p] = b]
         /\ pc' = [pc EXCEPT ![p] = "remap"]
         /\ UNCHANGED <<start, handle, ref, vmas, arg, idx, ret, loaded, lost>>
  BY DEF Alloc, Goto, table
<1>2. pc[p] \in MapPcs /\ \A q \in Procs \ {p} : pc[q] \notin MapPcs
  BY <1>1, OthersOut DEF MapPcs
<1>3. \A s \in Slots : start[s] # NoAddr => handle[s] # b
  BY <1>1, <1>2, FilledByOther DEF OwnsSlot
<1>4. /\ pc'[p] = "remap" /\ got'[p] = b
      /\ \A q \in Procs \ {p} : pc'[q] = pc[q] /\ got'[q] = got[q]
  BY <1>1 DEF IInv, TypeOK
<1>5. SlotInv'
  <2>1. \A q \in Procs : CallInv(q)'
    BY <1>2, <1>4 DEF CallInv, MapPcs
  <2>2. FreeIsClean'
    BY <1>1, <1>4 DEF SlotInv, FreeIsClean
  <2>3. FilledIsUsed'
    BY <1>1, <1>4 DEF SlotInv, FilledIsUsed, OwnsSlot
  <2>4. BufferIsOwned'
    BY <1>1, <1>4 DEF SlotInv, BufferIsOwned, OwnsBuf
  <2> QED
    BY <2>1, <2>2, <2>3, <2>4 DEF SlotInv
<1>6. \A c \in Bufs : UsersOf(c)' = UsersOf(c)
  BY <1>1 DEF UsersOf
<1>7. UsersOf(b) = {}
  BY <1>1 DEF UsersOf, IInv, VmaInv, MappedIsAllocated
<1>8. PhaseOf(b) = "free" /\ PhaseOf(b)' = "fresh"
  BY <1>1, <1>3, <1>6, <1>7 DEF PhaseOf, Filled
<1>9. \A c \in Bufs \ {b} : PhaseOf(c)' = PhaseOf(c)
  BY <1>1, <1>6 DEF PhaseOf, Filled
<1>10. SB!Allocate(b)
  BY <1>6, <1>8, <1>9 DEF SB!Allocate
<1> QED
  BY <1>5, <1>10

\* The slot is taken; its handle is still empty, so no buffer has changed.
LEMMA FillStartKeeps ==
    ASSUME IInv, SlotInv, NEW p \in Procs, FillStart(p)
    PROVE  SlotInv' /\ \A b \in Bufs : Same(b)
<1>1. /\ pc[p] = "remap"
      /\ start' = [start EXCEPT ![idx[p]] = arg[p]]
      /\ pc' = [pc EXCEPT ![p] = "fill"]
      /\ UNCHANGED <<handle, ref, live, vmas, arg, idx, got, ret, loaded, lost>>
  BY DEF FillStart, Goto
<1>2. pc[p] \in MapPcs /\ \A q \in Procs \ {p} : pc[q] \notin MapPcs
  BY <1>1, OthersOut DEF MapPcs
<1>3. /\ pc'[p] = "fill"
      /\ \A q \in Procs \ {p} : pc'[q] = pc[q]
  BY <1>1 DEF IInv, TypeOK
<1>4. idx[p] \in Slots /\ start[idx[p]] = NoAddr
  BY <1>1 DEF IInv, LocalInv
<1>5. handle[idx[p]] = NoBuf
  BY <1>1, <1>2, <1>4 DEF SlotInv, FreeIsClean, MapPcs
<1>6. \A s \in Slots \ {idx[p]} : start'[s] = start[s]
  BY <1>1, <1>4 DEF IInv, TypeOK
<1>7. SlotInv'
  <2>1. \A q \in Procs : CallInv(q)'
    BY <1>1, <1>2, <1>3, <1>5 DEF CallInv, MapPcs
  <2>2. FreeIsClean'
    BY <1>1, <1>3, <1>5, <1>6 DEF SlotInv, FreeIsClean
  <2>3. FilledIsUsed'
    BY <1>1, <1>3, <1>6 DEF SlotInv, FilledIsUsed, OwnsSlot
  <2>4. BufferIsOwned'
    BY <1>1, <1>3 DEF SlotInv, BufferIsOwned, OwnsBuf
  <2> QED
    BY <2>1, <2>2, <2>3, <2>4 DEF SlotInv
<1>8. ASSUME NEW b \in Bufs PROVE Same(b)
  <2>1. UsersOf(b)' = UsersOf(b)
    BY <1>1 DEF UsersOf
  <2>2. (\E s \in Filled' : handle'[s] = b) <=> (\E s \in Filled : handle[s] = b)
    BY <1>1, <1>4, <1>5, <1>6, ValuesAssumption DEF Filled
  <2> QED
    BY <1>1, <2>1, <2>2 DEF Same, PhaseOf
<1> QED
  BY <1>7, <1>8

\* The buffer gets its first VMA.
LEMMA FillRestKeeps ==
    ASSUME IInv, SlotInv, NEW p \in Procs, FillRest(p)
    PROVE  SlotInv' /\ \E b \in Bufs, u \in Procs \X Addrs : SB!Publish(b, u)
<1>0. PICK n \in VMA : n = [proc |-> p, addr |-> arg[p], slot |-> idx[p],
                             buf |-> got[p]]
  <2>1. pc[p] = "fill"
    BY DEF FillRest
  <2> QED
    BY <2>1 DEF IInv, LocalInv, TypeOK, VMA
<1>1. PICK b \in Bufs : b = n.buf
  BY DEF VMA
<1>2. PICK u \in Procs \X Addrs : u = <<n.proc, n.addr>>
  BY DEF VMA
<1>3. /\ pc[p] = "fill"
      /\ handle' = [handle EXCEPT ![idx[p]] = b]
      /\ vmas' = vmas \cup {n}
      /\ pc' = [pc EXCEPT ![p] = "idle"]
      /\ idx' = [idx EXCEPT ![p] = 1]
      /\ got' = [got EXCEPT ![p] = NoBuf]
      /\ UNCHANGED <<start, live, loaded, lost>>
  BY <1>0, <1>1 DEF FillRest, Return, Goto
<1>4. pc[p] \in MapPcs /\ \A q \in Procs \ {p} : pc[q] \notin MapPcs
  BY <1>3, OthersOut DEF MapPcs
<1>5. /\ pc'[p] = "idle"
      /\ \A q \in Procs \ {p} : pc'[q] = pc[q] /\ idx'[q] = idx[q] /\ got'[q] = got[q]
  BY <1>3 DEF IInv, TypeOK
<1>6. /\ idx[p] \in Slots /\ start[idx[p]] # NoAddr
      /\ b = got[p] /\ b \in live
      /\ \A v \in vmas : v.slot # idx[p] /\ v.buf # b
  BY <1>0, <1>3, <1>1 DEF IInv, LocalInv, TypeOK
<1>7. handle[idx[p]] = NoBuf
  BY <1>3 DEF SlotInv, CallInv
<1>8. /\ handle'[idx[p]] = b
      /\ \A s \in Slots \ {idx[p]} : handle'[s] = handle[s]
  BY <1>3, <1>6 DEF IInv, TypeOK
<1>9. n \in vmas' /\ n.slot = idx[p] /\ n.buf = b
  BY <1>0, <1>3, <1>1
<1>10. \A v \in vmas : v \in vmas'
  BY <1>3
<1>11. SlotInv'
  <2>1. \A q \in Procs : CallInv(q)'
    BY <1>4, <1>5 DEF CallInv, MapPcs
  <2>2. FreeIsClean'
    BY <1>3, <1>4, <1>5, <1>6, <1>8 DEF SlotInv, FreeIsClean, MapPcs
  <2>3. FilledIsUsed'
    <3>1. ASSUME NEW s \in Slots, start'[s] # NoAddr
          PROVE  \E v \in vmas' : v.slot = s
      <4>1. CASE s = idx[p]
        BY <1>9, <4>1
      <4>2. CASE s # idx[p]
        BY <1>3, <1>4, <1>10, <3>1, <4>2, FilledByOther
      <4> QED
        BY <4>1, <4>2
    <3> QED
      BY <3>1 DEF FilledIsUsed
  <2>4. BufferIsOwned'
    <3>1. ASSUME NEW c \in live PROVE c \in lost \/ \E v \in vmas' : v.buf = c
      <4>1. CASE c = b
        BY <1>9, <4>1
      <4>2. CASE c # b
        BY <1>3, <1>4, <1>6, <1>10, <3>1, <4>2
        DEF SlotInv, BufferIsOwned, OwnsBuf, MapPcs
      <4> QED
        BY <4>1, <4>2
    <3> QED
      BY <1>3, <3>1 DEF BufferIsOwned
  <2> QED
    BY <2>1, <2>2, <2>3, <2>4 DEF SlotInv
<1>12. UsersOf(b) = {} /\ UsersOf(b)' = {u}
  <2>1. UsersOf(b) = {}
    BY <1>6 DEF UsersOf
  <2>2. {w \in vmas' : w.buf = b} = {n}
    BY <1>3, <1>6, <1>9
  <2>3. UsersOf(b)' = {<<v.proc, v.addr>> : v \in {n}}
    BY <2>2 DEF UsersOf
  <2> QED
    BY <2>1, <2>3, <1>2
<1>13. PhaseOf(b) = "fresh" /\ PhaseOf(b)' = "mapped"
  <2>1. \A s \in Filled : handle[s] # b
    <3>1. ASSUME NEW s \in Slots, start[s] # NoAddr PROVE handle[s] # b
      <4>1. CASE s = idx[p]
        BY <1>6, <1>7, <4>1, ValuesAssumption
      <4>2. CASE s # idx[p]
        BY <1>4, <1>6, <3>1, <4>2, FilledByOther
      <4> QED
        BY <4>1, <4>2
    <3> QED
      BY <3>1 DEF Filled
  <2> QED
    BY <1>3, <1>6, <1>12, <2>1 DEF PhaseOf
<1>14. ASSUME NEW c \in Bufs, c # b PROVE Same(c)
  <2>1. {w \in vmas' : w.buf = c} = {w \in vmas : w.buf = c}
    BY <1>3, <1>9, <1>14
  <2>2. UsersOf(c)' = UsersOf(c)
    BY <2>1 DEF UsersOf
  <2>3. (\E s \in Filled' : handle'[s] = c) <=> (\E s \in Filled : handle[s] = c)
    BY <1>3, <1>6, <1>7, <1>8, <1>14, ValuesAssumption DEF Filled
  <2> QED
    BY <1>3, <2>2, <2>3 DEF Same, PhaseOf
<1>15. SB!Publish(b, u)
  BY <1>6, <1>12, <1>13, <1>14 DEF SB!Publish, Same
<1> QED
  BY <1>6, <1>11, <1>15

\* The buffer without users goes back to the kernel.
LEMMA ReleaseFreeKeeps ==
    ASSUME IInv, SlotInv, NEW p \in Procs, ReleaseFree(p)
    PROVE  SlotInv' /\ \E b \in Bufs : SB!Reclaim(b)
<1>1. pc[p] = "release" /\ start[idx[p]] # NoAddr
  BY DEF ReleaseFree, SlotInv, CallInv
<1>2. PICK b \in Bufs : b = handle[idx[p]]
  BY <1>1 DEF SlotInv, CallInv, IInv, TypeOK
<1>3. /\ live' = live \ {b}
      /\ pc' = [pc EXCEPT ![p] = "wipe"]
      /\ UNCHANGED <<start, handle, vmas, idx, got, lost>>
  BY <1>1, <1>2 DEF ReleaseFree, Goto, table
<1>4. pc[p] \in MapPcs /\ \A q \in Procs \ {p} : pc[q] \notin MapPcs
  BY <1>1, OthersOut DEF MapPcs
<1>5. /\ pc'[p] = "wipe"
      /\ \A q \in Procs \ {p} : pc'[q] = pc[q]
  BY <1>3 DEF IInv, TypeOK
<1>6. /\ b \in live /\ idx[p] \in Slots
      /\ \A v \in vmas : v.buf # b
  BY <1>1, <1>2 DEF SlotInv, CallInv, IInv, LocalInv
<1>7. SlotInv'
  <2>1. \A q \in Procs : CallInv(q)'
    BY <1>2, <1>3, <1>4, <1>5 DEF CallInv, MapPcs
  <2>2. FreeIsClean'
    BY <1>1, <1>3, <1>5 DEF SlotInv, FreeIsClean
  <2>3. FilledIsUsed'
    BY <1>3, <1>5 DEF SlotInv, FilledIsUsed, OwnsSlot
  <2>4. BufferIsOwned'
    BY <1>1, <1>2, <1>3, <1>4, <1>5 DEF SlotInv, BufferIsOwned, OwnsBuf, MapPcs
  <2> QED
    BY <2>1, <2>2, <2>3, <2>4 DEF SlotInv
<1>8. \A c \in Bufs : UsersOf(c)' = UsersOf(c)
  BY <1>3 DEF UsersOf
<1>9. PhaseOf(b) = "dying" /\ PhaseOf(b)' = "free"
  BY <1>1, <1>2, <1>3, <1>6, HasUsers DEF PhaseOf, Filled
<1>10. \A c \in Bufs \ {b} : PhaseOf(c)' = PhaseOf(c)
  BY <1>3, <1>8 DEF PhaseOf, Filled
<1>11. SB!Reclaim(b)
  BY <1>8, <1>9, <1>10 DEF SB!Reclaim
<1> QED
  BY <1>7, <1>11

\* The slot of the buffer that went back is emptied: nobody sees it any more.
LEMMA WipeKeeps ==
    ASSUME IInv, SlotInv, NEW p \in Procs, WipeStart(p) \/ WipeRest(p)
    PROVE  SlotInv' /\ \A b \in Bufs : Same(b)
<1> USE ValuesAssumption
<1>1. /\ pc[p] \in {"wipe", "clear"} /\ UNCHANGED <<live, vmas, lost>>
      /\ pc[p] \in MapPcs /\ idx[p] \in Slots
  BY DEF WipeStart, WipeRest, MapPcs, IInv, LocalInv
<1>2. \A q \in Procs \ {p} : pc[q] \notin MapPcs
  BY <1>1, OthersOut
<1>3. \A q \in Procs \ {p} : pc'[q] = pc[q] /\ idx'[q] = idx[q] /\ got'[q] = got[q]
  BY DEF WipeStart, WipeRest, Goto, Return, IInv, TypeOK
<1>4. \A s \in Slots \ {idx[p]} : start'[s] = start[s] /\ handle'[s] = handle[s]
  BY DEF WipeStart, WipeRest, IInv, TypeOK
<1>5. CASE WipeStart(p)
  <2>1. /\ pc[p] = "wipe" /\ pc'[p] = "clear" /\ idx'[p] = idx[p]
        /\ start'[idx[p]] = NoAddr /\ handle' = handle /\ got' = got
    BY <1>1, <1>5 DEF WipeStart, Goto, IInv, TypeOK
  <2>2. SlotInv'
    <3>1. \A q \in Procs : CallInv(q)'
      BY <1>2, <1>3, <2>1 DEF CallInv, MapPcs
    <3>2. FreeIsClean'
      BY <1>2, <1>3, <1>4, <2>1 DEF SlotInv, FreeIsClean
    <3>3. FilledIsUsed'
      BY <1>1, <1>2, <1>3, <1>4, <2>1
      DEF SlotInv, FilledIsUsed, OwnsSlot, MapPcs
    <3>4. BufferIsOwned'
      BY <1>1, <1>3, <2>1 DEF SlotInv, BufferIsOwned, OwnsBuf
    <3> QED
      BY <3>1, <3>2, <3>3, <3>4 DEF SlotInv
  <2>3. ASSUME NEW b \in Bufs PROVE Same(b)
    <3>1. handle[idx[p]] \notin live
      BY <2>1 DEF SlotInv, CallInv
    <3>2. b \in live => ((\E s \in Filled' : handle'[s] = b)
                            <=> (\E s \in Filled : handle[s] = b))
      BY <1>1, <1>4, <2>1, <3>1 DEF Filled
    <3>3. UsersOf(b)' = UsersOf(b)
      BY <1>1 DEF UsersOf
    <3> QED
      BY <1>1, <3>2, <3>3 DEF Same, PhaseOf
  <2> QED
    BY <2>2, <2>3
<1>6. CASE WipeRest(p)
  <2>1. /\ pc[p] = "clear" /\ pc'[p] = "idle"
        /\ handle'[idx[p]] = NoBuf /\ start' = start
    BY <1>1, <1>6 DEF WipeRest, Goto, Return, IInv, TypeOK
  <2>2. start[idx[p]] = NoAddr
    BY <2>1 DEF SlotInv, CallInv
  <2>3. SlotInv'
    <3>1. \A q \in Procs : CallInv(q)'
      BY <1>2, <1>3, <2>1 DEF CallInv, MapPcs
    <3>2. FreeIsClean'
      BY <1>2, <1>3, <1>4, <2>1 DEF SlotInv, FreeIsClean, MapPcs
    <3>3. FilledIsUsed'
      BY <1>1, <1>3, <2>1 DEF SlotInv, FilledIsUsed, OwnsSlot
    <3>4. BufferIsOwned'
      BY <1>1, <1>2, <1>3, <2>1 DEF SlotInv, BufferIsOwned, OwnsBuf, MapPcs
    <3> QED
      BY <3>1, <3>2, <3>3, <3>4 DEF SlotInv
  <2>4. ASSUME NEW b \in Bufs PROVE Same(b)
    <3>1. (\E s \in Filled' : handle'[s] = b) <=> (\E s \in Filled : handle[s] = b)
      BY <1>4, <2>1, <2>2 DEF Filled
    <3>2. UsersOf(b)' = UsersOf(b)
      BY <1>1 DEF UsersOf
    <3> QED
      BY <1>1, <3>1, <3>2 DEF Same, PhaseOf
  <2> QED
    BY <2>3, <2>4
<1> QED
  BY <1>5, <1>6

----------------------------------------------------------------------------
(* VMAs come and go *)

\* Copies of VMAs: the same slots and buffers, more users.
LEMMA CopiesShare ==
    ASSUME IInv, SlotInv, UNCHANGED <<start, handle, live, pc, idx, got, lost>>,
           vmas \subseteq vmas',
           \A w \in vmas' : \E v \in vmas : w.slot = v.slot /\ w.buf = v.buf
    PROVE  SlotInv' /\ SB!Share
<1>1. SlotInv'
  <2>1. \A q \in Procs : CallInv(q)'
    BY DEF SlotInv, CallInv
  <2>2. FreeIsClean' /\ FilledIsUsed'
    BY DEF SlotInv, FreeIsClean, FilledIsUsed
  <2>3. BufferIsOwned'
    BY DEF SlotInv, BufferIsOwned
  <2> QED
    BY <2>1, <2>2, <2>3 DEF SlotInv
<1>2. ASSUME NEW b \in Bufs
      PROVE  /\ UsersOf(b) \subseteq UsersOf(b)'
             /\ UsersOf(b)' # UsersOf(b) => PhaseOf(b) = "mapped"
             /\ PhaseOf(b)' = PhaseOf(b)
  <2>1. UsersOf(b) \subseteq UsersOf(b)'
    BY DEF UsersOf
  <2>2. UsersOf(b)' # {} <=> UsersOf(b) # {}
    BY HasUsers DEF UsersOf
  <2>3. PhaseOf(b)' = PhaseOf(b)
    BY <2>2 DEF PhaseOf, Filled
  <2>4. UsersOf(b) # {} => b \in live
    BY HasUsers DEF IInv, VmaInv, MappedIsAllocated
  <2> QED
    BY <2>1, <2>2, <2>3, <2>4 DEF PhaseOf
<1> QED
  BY <1>1, <1>2 DEF SB!Share

\* aclsoc_vma_open, for one VMA or for all of a process.
LEMMA OpenKeeps ==
    ASSUME IInv, SlotInv, NEW p \in Procs, Split(p) \/ Fork(p)
    PROVE  SlotInv' /\ SB!Share
<1>1. UNCHANGED <<start, handle, live, pc, idx, got, lost>> /\ vmas \subseteq vmas'
  BY DEF Split, Fork
<1>2. ASSUME NEW w \in vmas'
      PROVE  \E v \in vmas : w.slot = v.slot /\ w.buf = v.buf
  <2>1. \A v \in vmas : v \in [proc : Procs, addr : Addrs, slot : Slots, buf : Bufs]
    BY DEF IInv, TypeOK, VMA
  <2> QED
    BY <1>2, <2>1 DEF Split, Fork, Inherited, VmasOf
<1> QED
  BY <1>1, <1>2, CopiesShare

\* aclsoc_vma_close: a user leaves, and the last one leaves the buffer dying.
LEMMA MunmapKeeps ==
    ASSUME IInv, SlotInv, NEW p \in Procs, Munmap(p)
    PROVE  SlotInv' /\ \E b \in Bufs, u \in Procs \X Addrs : SB!Withdraw(b, u)
<1>1. PICK v \in VmasOf(p) : Munmap(p)!(v)
  BY DEF Munmap
<1>2. v \in vmas /\ v \in VMA
  BY DEF VmasOf, IInv, TypeOK
<1>3. PICK b \in Bufs, u \in Procs \X Addrs, s \in Slots :
          b = v.buf /\ u = <<v.proc, v.addr>> /\ s = v.slot
  BY <1>2 DEF VMA
<1>4. /\ pc[p] = "idle" /\ vmas' = vmas \ {v}
      /\ UNCHANGED <<start, handle, live, got, lost>>
  BY <1>1
<1>5. start[s] # NoAddr /\ handle[s] = b /\ b \in live
  BY <1>2, <1>3 DEF IInv, VmaInv, SlotDescribesItsVmas, MappedIsAllocated
<1>6. \A q \in Procs \ {p} : pc'[q] = pc[q] /\ idx'[q] = idx[q]
  BY <1>1 DEF Goto, IInv, TypeOK
<1>7. IsFiniteSet(On(s)) /\ ref[s] = Cardinality(On(s)) /\ v \in On(s)
  BY <1>2, <1>3, OnFinite DEF IInv, RefCounts, On
\* The last VMA of the slot is the last one of the buffer.
<1>8. \/ /\ pc'[p] = "release" /\ idx'[p] = s
         /\ \A w \in vmas' : w.slot # s /\ w.buf # b
      \/ /\ pc' = pc /\ idx' = idx
         /\ \E w \in vmas' : w.slot = s /\ w.buf = b
  <2>1. CASE ref[s] = 1
    <3>1. On(s) = {v}
      BY <1>7, <2>1, CardOne
    <3>2. \A w \in vmas' : w.slot # s
      BY <1>4, <3>1 DEF On
    <3>3. \A w \in vmas' : w.buf # b
      BY <1>2, <1>3, <1>4, <3>2 DEF IInv, VmaInv, NoAliasing
    <3>4. pc'[p] = "release" /\ idx'[p] = s
      BY <1>1, <1>3, <2>1 DEF Goto, IInv, TypeOK
    <3> QED
      BY <3>2, <3>3, <3>4
  <2>2. CASE ref[s] # 1
    <3>1. On(s) # {v}
      BY <1>7, <2>2, FS_Singleton
    <3>2. PICK w \in On(s) : w # v
      BY <1>7, <3>1
    <3>3. w \in vmas' /\ w.slot = s
      BY <1>4, <3>2 DEF On
    <3>4. w.buf = b
      BY <1>4, <1>5, <3>3 DEF IInv, VmaInv, SlotDescribesItsVmas
    <3>5. pc' = pc /\ idx' = idx
      BY <1>1, <1>3, <2>2
    <3> QED
      BY <3>3, <3>4, <3>5
  <2> QED
    BY <2>1, <2>2
<1>9. SlotInv'
  <2>1. \A q \in Procs : CallInv(q)'
    BY <1>4, <1>5, <1>6, <1>8 DEF SlotInv, CallInv
  <2>2. FreeIsClean'
    BY <1>4, <1>6 DEF SlotInv, FreeIsClean
  <2>3. FilledIsUsed'
    <3>1. ASSUME NEW t \in Slots, start[t] # NoAddr
          PROVE  \/ \E w \in vmas' : w.slot = t
                 \/ \E q \in Procs : pc'[q] \in OwnsSlot /\ idx'[q] = t
      <4>1. CASE t = s
        BY <1>8, <4>1 DEF OwnsSlot
      <4>2. CASE t # s /\ \E w \in vmas : w.slot = t
        BY <1>3, <1>4, <4>2
      <4>3. CASE \E q \in Procs : pc[q] \in OwnsSlot /\ idx[q] = t
        BY <1>4, <1>6, <4>3 DEF OwnsSlot
      <4> QED
        BY <3>1, <4>1, <4>2, <4>3 DEF SlotInv, FilledIsUsed
    <3> QED
      BY <1>4, <3>1 DEF FilledIsUsed
  <2>4. BufferIsOwned'
    <3>1. ASSUME NEW c \in live
          PROVE  \/ \E w \in vmas' : w.buf = c
                 \/ \E q \in Procs : pc'[q] \in OwnsBuf /\ got[q] = c
                 \/ \E q \in Procs : pc'[q] = "release" /\ handle[idx'[q]] = c
                 \/ c \in lost
      <4>1. CASE c = b
        BY <1>5, <1>8, <4>1
      <4>2. CASE c # b /\ \E w \in vmas : w.buf = c
        BY <1>3, <1>4, <4>2
      <4>3. CASE \E q \in Procs : pc[q] \in OwnsBuf /\ got[q] = c
        BY <1>4, <1>6, <4>3 DEF OwnsBuf
      <4>4. CASE \E q \in Procs : pc[q] = "release" /\ handle[idx[q]] = c
        BY <1>4, <1>6, <4>4
      <4> QED
        BY <3>1, <4>1, <4>2, <4>3, <4>4 DEF SlotInv, BufferIsOwned
    <3> QED
      BY <1>4, <3>1 DEF BufferIsOwned
  <2> QED
    BY <2>1, <2>2, <2>3, <2>4 DEF SlotInv
<1>10. UsersOf(b)' = UsersOf(b) \ {u} /\ u \in UsersOf(b)
  <2>1. ASSUME NEW w \in vmas, w.buf = b, <<w.proc, w.addr>> = u PROVE w = v
    <3>1. w.slot = v.slot /\ w \in VMA
      BY <1>2, <1>3, <2>1 DEF IInv, VmaInv, NoAliasing, TypeOK
    <3>2. w.proc = v.proc /\ w.addr = v.addr /\ w.buf = v.buf
      BY <1>3, <2>1
    <3> QED
      BY <1>2, <3>1, <3>2 DEF VMA
  <2>2. u \in UsersOf(b)
    BY <1>2, <1>3 DEF UsersOf
  <2>3. \A w \in vmas : w.buf = b /\ w # v => <<w.proc, w.addr>> # u
    BY <2>1
  <2>4. \A x : x \in UsersOf(b)' <=> \E w \in vmas : w # v /\ w.buf = b
                                          /\ x = <<w.proc, w.addr>>
    BY <1>4 DEF UsersOf
  <2>5. \A x : x \in UsersOf(b) <=> \E w \in vmas : w.buf = b
                                          /\ x = <<w.proc, w.addr>>
    BY DEF UsersOf
  <2>6. \A x : x \in UsersOf(b)' <=> x \in UsersOf(b) \ {u}
    BY <1>3, <2>3, <2>4, <2>5
  <2> QED
    BY <2>2, <2>6
<1>11. PhaseOf(b) = "mapped"
       /\ PhaseOf(b)' = IF UsersOf(b) = {u} THEN "dying" ELSE "mapped"
  <2>1. UsersOf(b)' = {} <=> UsersOf(b) = {u}
    BY <1>10
  <2>2. \E t \in Filled' : handle'[t] = b
    BY <1>4, <1>5 DEF Filled
  <2> QED
    BY <1>4, <1>5, <1>10, <2>1, <2>2 DEF PhaseOf
<1>12. ASSUME NEW c \in Bufs, c # b PROVE Same(c)
  <2>1. {w \in vmas' : w.buf = c} = {w \in vmas : w.buf = c}
    BY <1>3, <1>4, <1>12
  <2>2. UsersOf(c)' = UsersOf(c)
    BY <2>1 DEF UsersOf
  <2> QED
    BY <1>4, <2>2 DEF Same, PhaseOf, Filled
<1>13. SB!Withdraw(b, u)
  BY <1>10, <1>11, <1>12 DEF SB!Withdraw, Same
<1> QED
  BY <1>9, <1>13

\* At rmmod no slot is in use, so there is nothing to give back.
LEMMA UnloadKeeps ==
    ASSUME IInv, SlotInv, Unload \/ Load
    PROVE  SlotInv' /\ \A b \in Bufs : Same(b)
<1>1. CASE Unload
  <2>1. vmas = {} /\ \A p \in Procs : pc[p] = "idle"
    BY <1>1 DEF Unload
  <2>2. Filled = {}
    BY <2>1 DEF SlotInv, FilledIsUsed, Filled, OwnsSlot
  <2>3. /\ start' = [s \in Slots |-> NoAddr] /\ handle' = [s \in Slots |-> NoBuf]
        /\ live' = live /\ UNCHANGED <<vmas, pc, idx, got, lost>>
    BY <1>1, <2>2 DEF Unload
  <2>4. Filled' = {}
    BY <2>3 DEF Filled
  <2>5. SlotInv'
    BY <2>1, <2>3
    DEF SlotInv, CallInv, FreeIsClean, FilledIsUsed, BufferIsOwned,
                      OwnsBuf
  <2>6. \A b \in Bufs : Same(b)
    BY <2>2, <2>3, <2>4 DEF Same, PhaseOf, UsersOf
  <2> QED
    BY <2>5, <2>6
<1>2. CASE Load
  <2>1. UNCHANGED <<start, handle, live, vmas, pc, idx, got, lost>>
    BY <1>2 DEF Load, table
  <2>2. SlotInv'
    BY <2>1 DEF SlotInv, CallInv, FreeIsClean, FilledIsUsed, BufferIsOwned
  <2> QED
    BY <2>1, <2>2, QuietIsSame
<1> QED
  BY <1>1, <1>2

----------------------------------------------------------------------------
(* The refinement *)

\* Nothing is allocated.
LEMMA InitMaps == Init => SlotInv /\ SB!Init
<1> SUFFICES ASSUME Init PROVE SlotInv /\ SB!Init
  OBVIOUS
<1>1. SlotInv
  BY DEF Init, SlotInv, CallInv, FreeIsClean, FilledIsUsed, BufferIsOwned
<1>2. \A b \in Bufs : PhaseOf(b) = "free" /\ UsersOf(b) = {}
  BY DEF Init, PhaseOf, UsersOf
<1> QED
  BY <1>1, <1>2 DEF SB!Init

\* Every step of the table is a step of the promise, or a stutter.
LEMMA NextMaps ==
    ASSUME IInv, SlotInv, [SerialNext]_vars
    PROVE  SlotInv' /\ [SB!Next]_(SB!vars)
<1>1. ASSUME \A b \in Bufs : Same(b) PROVE [SB!Next]_(SB!vars)
  BY <1>1, AllSame
<1>2. CASE UNCHANGED vars
  <2>1. UNCHANGED <<start, handle, live, vmas, pc, idx, got, lost>>
    BY <1>2 DEF vars
  <2>2. SlotInv'
    BY <2>1 DEF SlotInv, CallInv, FreeIsClean, FilledIsUsed, BufferIsOwned
  <2> QED
    BY <1>1, <2>1, <2>2, QuietIsSame
<1>3. ASSUME NEW p \in Procs, Start(p) PROVE SlotInv' /\ [SB!Next]_(SB!vars)
  <2>1. CASE MmapCall(p) \/ LookupCall(p)
    BY <1>1, <2>1, QuietKeeps
  <2>2. CASE Split(p) \/ Fork(p)
    BY <2>2, OpenKeeps DEF SB!Next
  <2>3. CASE Munmap(p)
    BY <2>3, MunmapKeeps DEF SB!Next
  <2> QED
    BY <1>3, <2>1, <2>2, <2>3 DEF Start
<1>4. ASSUME NEW p \in Procs, Continue(p) PROVE SlotInv' /\ [SB!Next]_(SB!vars)
  <2>1. CASE \/ ScanTaken(p) \/ ScanFree(p) \/ ScanFull(p)
             \/ AllocFail(p) \/ RemapFail(p) \/ Lookup(p)
    BY <1>1, <2>1, QuietKeeps
  <2>2. CASE Alloc(p)
    BY <2>2, AllocKeeps DEF SB!Next
  <2>3. CASE FillStart(p)
    BY <1>1, <2>3, FillStartKeeps
  <2>4. CASE FillRest(p)
    BY <2>4, FillRestKeeps DEF SB!Next
  <2>5. CASE ReleaseFree(p)
    BY <2>5, ReleaseFreeKeeps DEF SB!Next
  <2>6. CASE WipeStart(p) \/ WipeRest(p)
    BY <1>1, <2>6, WipeKeeps
  <2> QED
    BY <1>4, <2>1, <2>2, <2>3, <2>4, <2>5, <2>6
    DEF Continue, Mapping, Releasing
<1>5. CASE Unload \/ Load
  BY <1>1, <1>5, UnloadKeeps
<1> QED
  BY <1>2, <1>3, <1>4, <1>5 DEF SerialNext, Next

\* The two invariants together.
LEMMA BothHold == SerialSpec => [](IInv /\ SlotInv)
<1>1. Init => SlotInv
  BY InitMaps
<1>2. IInv /\ SlotInv /\ [SerialNext]_vars => SlotInv'
  BY NextMaps
<1> QED
  BY <1>1, <1>2, Invariance, PTL DEF SerialSpec

\* The table with its reference counts implements the promise of mmap(): a
\* buffer is mapped by one caller first and by copies later, and goes back to
\* the kernel exactly after its last mapping (aclsoc_mmap, aclsoc_vma_open,
\* aclsoc_vma_close, free_map_info), whatever fails.
THEOREM TableImplementsSharedBuffers == SerialSpec => ImplementsSharedBuffers
<1>1. Init => SB!Init
  BY InitMaps
<1>2. IInv /\ SlotInv /\ [SerialNext]_vars => [SB!Next]_(SB!vars)
  BY NextMaps
<1> QED
  BY <1>1, <1>2, BothHold, PTL
     DEF SerialSpec, ImplementsSharedBuffers, SB!Spec

----------------------------------------------------------------------------
(* Lost buffers                                                            *)

\* A buffer that a failed remap has dropped stays allocated: no VMA, no slot in
\* use and no call has it.
LostInv ==
    \A b \in lost :
        /\ b \in live /\ \A v \in vmas : v.buf # b
        /\ \A s \in Slots : start[s] # NoAddr => handle[s] # b
        /\ \A p \in Procs : pc[p] \in OwnsBuf => got[p] # b

\* Steps of a call that is alone among the mapping calls.
LEMMA CallLost ==
    ASSUME IInv, IInv', SlotInv, LostInv, NEW p \in Procs,
           pc[p] \in MapPcs, Continue(p)
    PROVE  LostInv'
<1>1. \A q \in Procs \ {p} : pc[q] \notin MapPcs
  BY OthersOut
<1>2. \A q \in Procs \ {p} : pc'[q] = pc[q]
  BY DEF Continue, Mapping, ScanTaken, ScanFree, ScanFull, Alloc, AllocFail,
     RemapFail, FillStart, FillRest, Releasing, ReleaseFree, WipeStart, WipeRest,
     Lookup, LookupNext, LookupHit, LookupMiss, LookupCopy, LookupReturn, Return,
     Goto, IInv, TypeOK
<1>3. \A q \in Procs \ {p} : pc'[q] \notin OwnsBuf
  BY <1>1, <1>2 DEF OwnsBuf, MapPcs
<1>4. ~Lookup(p)
  BY DEF Lookup, LookupNext, LookupHit, LookupMiss, LookupCopy, LookupReturn,
     MapPcs
<1>5. CASE ScanTaken(p) \/ ScanFree(p) \/ ScanFull(p) \/ AllocFail(p)
  <2>1. UNCHANGED <<start, handle, live, vmas, lost>> /\ pc'[p] \notin OwnsBuf
    BY <1>5 DEF ScanTaken, ScanFree, ScanFull, AllocFail, Return, Goto, table,
       OwnsBuf, IInv, TypeOK
  <2> QED
    BY <1>3, <2>1 DEF LostInv
<1>6. CASE Alloc(p)
  <2>1. PICK b \in Bufs \ live :
           /\ live' = live \cup {b} /\ got' = [got EXCEPT ![p] = b]
           /\ UNCHANGED <<start, handle, vmas, lost>>
    BY <1>6 DEF Alloc, table
  <2>2. got'[p] = b
    BY <2>1 DEF IInv, TypeOK
  <2> QED
    BY <1>3, <2>1, <2>2 DEF LostInv
<1>7. CASE RemapFail(p)
  <2>1. /\ pc[p] = "remap" /\ lost' = lost \cup {got[p]}
        /\ UNCHANGED <<start, handle, live, vmas>> /\ pc'[p] = "idle"
    BY <1>7 DEF RemapFail, Return, Goto, table, IInv, TypeOK
  <2>2. got[p] \in live /\ \A v \in vmas : v.buf # got[p]
    BY <2>1 DEF IInv, LocalInv
  <2>3. \A s \in Slots : start[s] # NoAddr => handle[s] # got[p]
    BY <2>1, <2>2, FilledByOther DEF OwnsSlot
  <2> QED
    BY <1>3, <2>1, <2>2, <2>3 DEF LostInv, OwnsBuf
<1>8. CASE FillStart(p)
  <2>1. /\ pc[p] = "remap" /\ start' = [start EXCEPT ![idx[p]] = arg[p]]
        /\ UNCHANGED <<handle, live, vmas, got, lost>>
    BY <1>8 DEF FillStart
  <2>2. handle[idx[p]] = NoBuf
    BY <1>1, <2>1 DEF SlotInv, FreeIsClean, IInv, LocalInv, MapPcs
  <2>3. \A s \in Slots : s # idx[p] => start'[s] = start[s]
    BY <2>1 DEF IInv, TypeOK
  <2>4. \A b \in lost : b # NoBuf
    BY ValuesAssumption DEF IInv, TypeOK
  <2> QED
    BY <1>3, <2>1, <2>2, <2>3, <2>4 DEF LostInv, OwnsBuf
<1>9. CASE FillRest(p)
  <2>1. /\ pc[p] = "fill" /\ handle' = [handle EXCEPT ![idx[p]] = got[p]]
        /\ \A v \in vmas' : v \in vmas \/ v.buf = got[p]
        /\ UNCHANGED <<start, live, lost>> /\ pc'[p] = "idle"
    BY <1>9 DEF FillRest, Return, Goto, IInv, TypeOK
  <2>2. \A b \in lost : got[p] # b
    BY <2>1 DEF LostInv, OwnsBuf
  <2>3. \A s \in Slots : handle'[s] \in {handle[s], got[p]}
    BY <2>1 DEF IInv, TypeOK
  <2> QED
    BY <1>3, <2>1, <2>2, <2>3 DEF LostInv, OwnsBuf
<1>10. CASE ReleaseFree(p)
  <2>1. /\ pc[p] = "release" /\ start[idx[p]] # NoAddr /\ idx[p] \in Slots
        /\ live' = live \ {handle[idx[p]]}
        /\ UNCHANGED <<start, handle, vmas, lost>> /\ pc'[p] = "wipe"
    BY <1>10 DEF ReleaseFree, SlotInv, CallInv, table, Goto, IInv, LocalInv,
       TypeOK
  <2> QED
    BY <1>3, <2>1 DEF LostInv, OwnsBuf
<1>11. CASE WipeStart(p) \/ WipeRest(p)
  <2>1. /\ \A s \in Slots : start'[s] \in {start[s], NoAddr}
        /\ \A s \in Slots : handle'[s] \in {handle[s], NoBuf}
        /\ UNCHANGED <<live, vmas, lost>> /\ pc'[p] \notin OwnsBuf
    BY <1>11 DEF WipeStart, WipeRest, Return, Goto, OwnsBuf, IInv, TypeOK
  <2>2. \A b \in lost : b # NoBuf
    BY ValuesAssumption DEF IInv, TypeOK
  <2> QED
    BY <1>3, <2>1, <2>2 DEF LostInv
<1> QED
  BY <1>4, <1>5, <1>6, <1>7, <1>8, <1>9, <1>10, <1>11
  DEF Continue, Mapping, Releasing

\* Everything else leaves the table alone or empties it.
LEMMA RestLost ==
    ASSUME IInv, LostInv,
           \/ \E p \in Procs : Start(p) \/ Lookup(p)
           \/ Unload \/ Load \/ UNCHANGED vars
    PROVE  LostInv'
<1>1. ASSUME NEW p \in Procs, Start(p) \/ Lookup(p) PROVE LostInv'
  <2>1. ASSUME NEW w \in vmas' PROVE \E v \in vmas : v.buf = w.buf
    <3>1. \A v \in vmas : v \in [proc : Procs, addr : Addrs, slot : Slots,
                                 buf : Bufs]
      BY DEF IInv, TypeOK, VMA
    <3> QED
      BY <1>1, <2>1, <3>1 DEF Start, MmapCall, Split, Fork, Inherited, Munmap,
         LookupCall, Lookup, LookupNext, LookupHit, LookupMiss, LookupCopy,
         LookupReturn, VmasOf
  <2>2. /\ UNCHANGED <<start, handle, live, lost>>
        /\ \A q \in Procs : pc'[q] \in OwnsBuf =>
                              pc[q] \in OwnsBuf /\ got'[q] = got[q]
    BY <1>1 DEF Start, MmapCall, Split, Fork, Munmap, LookupCall, Lookup,
       LookupNext, LookupHit, LookupMiss, LookupCopy, LookupReturn, Return, Goto,
       OwnsBuf, table, IInv, TypeOK
  <2> QED
    BY <2>1, <2>2 DEF LostInv
<1>2. CASE Unload
  BY <1>2 DEF Unload, LostInv, Filled, OwnsBuf
<1>3. CASE Load \/ UNCHANGED vars
  BY <1>3 DEF Load, vars, table, LostInv
<1> QED
  BY <1>1, <1>2, <1>3

LEMMA LostHolds == SerialSpec => []LostInv
<1>1. Init => LostInv
  BY DEF Init, LostInv
<1>2. IInv /\ IInv' /\ SlotInv /\ LostInv /\ [SerialNext]_vars => LostInv'
  <2> SUFFICES ASSUME IInv, IInv', SlotInv, LostInv, [SerialNext]_vars
               PROVE  LostInv'
    OBVIOUS
  <2>1. ASSUME NEW p \in Procs, Continue(p), ~Lookup(p) PROVE LostInv'
    <3>1. pc[p] \in MapPcs
      BY <2>1 DEF Continue, Mapping, ScanTaken, ScanFree, ScanFull, Alloc,
         AllocFail, RemapFail, FillStart, FillRest, Releasing, ReleaseFree,
         WipeStart, WipeRest, MapPcs
    <3> QED
      BY <2>1, <3>1, CallLost
  <2> QED
    BY <2>1, RestLost DEF SerialNext, Next
<1> QED
  BY <1>1, <1>2, BothHold, Invariance, PTL DEF SerialSpec

\* A buffer that is allocated while no mapping call is in progress is mapped by
\* somebody or was dropped by a failed remap (aclsoc_mmap), and the dropped ones
\* are never given back, whatever else fails or comes in between.
THEOREM NothingElseIsLost == SerialSpec => []NoOrphans
<1>1. ASSUME IInv, SlotInv, LostInv PROVE NoOrphans
  <2>1. SUFFICES ASSUME \A p \in Procs : pc[p] \notin MapPcs
                 PROVE  live = {v.buf : v \in vmas} \cup lost
    BY DEF NoOrphans
  <2>2. \A b \in live : b \in lost \/ \E v \in vmas : v.buf = b
    BY <1>1, <2>1 DEF SlotInv, BufferIsOwned, OwnsBuf, MapPcs
  <2>3. \A v \in vmas : v.buf \in live
    BY <1>1 DEF IInv, VmaInv, MappedIsAllocated
  <2>4. lost \subseteq live
    BY <1>1 DEF LostInv
  <2> QED
    BY <2>2, <2>3, <2>4
<1> QED
  BY <1>1, BothHold, LostHolds, PTL

----------------------------------------------------------------------------
(* How far a lookup has come                                               *)

\* A lookup has not passed the slot of the mapping it was asked about, and what
\* it took from that slot is the buffer of that mapping.
NotPassed(p) ==
    \A v \in At(p, arg[p]) : Recorded(v) =>
        /\ pc[p] \in {"lookup", "copy"} => idx[p] <= v.slot
        /\ pc[p] = "answer" /\ got[p] # NoBuf =>
               v.buf = got[p] \/ idx[p] < v.slot

\* No step touches the recorded address of a slot that a VMA stands on, but
\* rmmod, when there are no VMAs.
LEMMA RecordedStays ==
    ASSUME IInv, NEW q \in Procs, Start(q) \/ Continue(q)
    PROVE  \A v \in vmas : start'[v.slot] = start[v.slot]
<1>1. CASE FillStart(q)
  <2>1. /\ pc[q] = "remap" /\ start' = [start EXCEPT ![idx[q]] = arg[q]]
    BY <1>1 DEF FillStart
  <2>2. \A v \in vmas : v.slot # idx[q]
    BY <2>1 DEF IInv, LocalInv, VmaInv, SlotDescribesItsVmas
  <2> QED
    BY <2>1, <2>2 DEF IInv, TypeOK, VMA
<1>2. CASE WipeStart(q)
  <2>1. /\ pc[q] = "wipe" /\ start' = [start EXCEPT ![idx[q]] = NoAddr]
    BY <1>2 DEF WipeStart
  <2>2. \A v \in vmas : v.slot # idx[q]
    BY <2>1 DEF IInv, LocalInv
  <2> QED
    BY <2>1, <2>2 DEF IInv, TypeOK, VMA
<1>3. CASE ~FillStart(q) /\ ~WipeStart(q)
  <2>1. start' = start
    BY <1>3 DEF Start, MmapCall, Split, Fork, Munmap, LookupCall, Continue,
       Mapping, ScanTaken, ScanFree, ScanFull, Alloc, AllocFail, RemapFail,
       FillRest, Releasing, ReleaseFree, WipeRest, Lookup, LookupNext, LookupHit,
       LookupMiss, LookupCopy, LookupReturn, table
  <2> QED
    BY <2>1
<1> QED
  BY <1>1, <1>2, <1>3

\* While p is in a call, only p changes its mappings and its locals.
LEMMA OthersKeepMine ==
    ASSUME IInv, NEW p \in Procs, NEW q \in Procs, q # p, pc[p] # "idle",
           Start(q) \/ Continue(q)
    PROVE  /\ pc'[p] = pc[p] /\ arg'[p] = arg[p] /\ idx'[p] = idx[p]
           /\ got'[p] = got[p] /\ At(p, arg[p])' = At(p, arg[p])
<1>1. CASE FillRest(q)
  <2>1. vmas' = vmas \cup {[proc |-> q, addr |-> arg[q],
                            slot |-> idx[q], buf |-> got[q]]}
    BY <1>1 DEF FillRest
  <2>2. /\ pc'[p] = pc[p] /\ arg'[p] = arg[p] /\ idx'[p] = idx[p]
        /\ got'[p] = got[p]
    BY <1>1 DEF FillRest, Return, Goto, IInv, TypeOK
  <2> QED
    BY <2>1, <2>2 DEF At, VmasOf
<1>2. CASE Munmap(q)
  <2>1. \E v \in VmasOf(q) : vmas' = vmas \ {v}
    BY <1>2 DEF Munmap
  <2>2. /\ pc'[p] = pc[p] /\ arg'[p] = arg[p] /\ idx'[p] = idx[p]
        /\ got'[p] = got[p]
    BY <1>2 DEF Munmap, Goto, IInv, TypeOK
  <2> QED
    BY <2>1, <2>2 DEF At, VmasOf
<1>3. CASE Split(q)
  <2>1. PICK v \in VmasOf(q), a \in Addrs : vmas' = vmas \cup {[v EXCEPT !.addr = a]}
    BY <1>3 DEF Split
  <2>2. [v EXCEPT !.addr = a].proc = q
    BY DEF VmasOf, IInv, TypeOK, VMA
  <2>3. UNCHANGED <<pc, arg, idx, got>>
    BY <1>3 DEF Split
  <2> QED
    BY <2>1, <2>2, <2>3 DEF At, VmasOf
<1>4. CASE Fork(q)
  <2>1. PICK c \in Procs : c # p /\ vmas' = vmas \cup Inherited(q, c)
    BY <1>4 DEF Fork
  <2>2. \A w \in Inherited(q, c) : w.proc = c
    BY DEF Inherited, VmasOf, IInv, TypeOK, VMA
  <2>3. UNCHANGED <<pc, arg, idx, got>>
    BY <1>4 DEF Fork
  <2> QED
    BY <2>1, <2>2, <2>3 DEF At, VmasOf
<1>5. CASE MmapCall(q) \/ LookupCall(q)
  BY <1>5 DEF MmapCall, LookupCall, Goto, IInv, TypeOK, At, VmasOf
<1>6. CASE \/ ScanTaken(q) \/ ScanFree(q) \/ ScanFull(q) \/ Alloc(q)
           \/ AllocFail(q) \/ RemapFail(q) \/ FillStart(q)
  BY <1>6 DEF ScanTaken, ScanFree, ScanFull, Alloc, AllocFail, RemapFail,
     FillStart, Return, Goto, IInv, TypeOK, At, VmasOf
<1>7. CASE Releasing(q) \/ Lookup(q)
  BY <1>7 DEF Releasing, ReleaseFree, WipeStart, WipeRest, Lookup, LookupNext,
     LookupHit, LookupMiss, LookupCopy, LookupReturn, Return, Goto, IInv,
     TypeOK, At, VmasOf
<1> QED
  BY <1>1, <1>2, <1>3, <1>4, <1>5, <1>6, <1>7 DEF Start, Continue, Mapping

\* The invariant: a lookup holds no buffer before it has found one.
LookInv ==
    \A p \in Procs :
        /\ NotPassed(p)
        /\ pc[p] \in {"idle", "lookup", "copy"} => got[p] = NoBuf

\* What p itself does while it looks, and when it begins to.
LEMMA MineNotPassed ==
    ASSUME IInv, IInv', LookInv, NEW p \in Procs, Start(p) \/ Continue(p)
    PROVE  /\ NotPassed(p)'
           /\ pc'[p] \in {"idle", "lookup", "copy"} => got'[p] = NoBuf
<1> USE SlotsAssumption
<1>0. /\ NotPassed(p)
      /\ pc[p] \in {"idle", "lookup", "copy"} => got[p] = NoBuf
      /\ \A v \in vmas : start'[v.slot] = start[v.slot]
  BY RecordedStays DEF LookInv
<1>1. CASE LookupCall(p)
  <2>1. pc[p] = "idle" /\ pc'[p] = "lookup" /\ idx'[p] = 1 /\ got' = got
    BY <1>1 DEF LookupCall, Goto, IInv, TypeOK
  <2>2. \A v \in At(p, arg[p])' : v.slot \in 1..NSlots
    BY DEF At, VmasOf, IInv, TypeOK, VMA, Slots
  <2> QED
    BY <1>0, <2>1, <2>2 DEF NotPassed
<1>2. CASE LookupNext(p)
  <2>1. /\ pc[p] = "lookup" /\ start[idx[p]] # arg[p]
        /\ idx'[p] = idx[p] + 1
        /\ UNCHANGED <<pc, arg, got, vmas, start>>
    BY <1>2 DEF LookupNext, table, IInv, TypeOK
  <2>2. At(p, arg[p])' = At(p, arg[p])
    BY <2>1 DEF At, VmasOf
  <2>3. ASSUME NEW v \in At(p, arg[p]), Recorded(v) PROVE idx'[p] <= v.slot
    <3>1. v.addr = arg[p] /\ v.slot \in 1..NSlots /\ idx[p] \in Int
      BY <2>3 DEF At, VmasOf, IInv, TypeOK, VMA, Slots
    <3>2. idx[p] <= v.slot /\ idx[p] # v.slot
      BY <1>0, <2>1, <2>3, <3>1 DEF NotPassed, Recorded
    <3> QED
      BY <2>1, <3>1, <3>2
  <2> QED
    BY <1>0, <2>1, <2>2, <2>3 DEF NotPassed, Recorded
<1>3. CASE LookupHit(p) \/ LookupMiss(p)
  <2>1. /\ pc[p] = "lookup" /\ pc'[p] \in {"copy", "answer"}
        /\ UNCHANGED <<arg, idx, got, vmas, start>>
    BY <1>3 DEF LookupHit, LookupMiss, Goto, table, IInv, TypeOK
  <2>2. At(p, arg[p])' = At(p, arg[p])
    BY <2>1 DEF At, VmasOf
  <2> QED
    BY <1>0, <2>1, <2>2 DEF NotPassed, Recorded
<1>4. CASE LookupCopy(p)
  <2>1. /\ pc[p] = "copy" /\ pc'[p] = "answer"
        /\ got'[p] \in {handle[idx[p]], got[p]}
        /\ UNCHANGED <<arg, idx, vmas, start>>
    BY <1>4 DEF LookupCopy, Goto, table, IInv, TypeOK
  <2>2. At(p, arg[p])' = At(p, arg[p])
    BY <2>1 DEF At, VmasOf
  <2>3. ASSUME NEW v \in At(p, arg[p]), Recorded(v), got'[p] # NoBuf
        PROVE  v.buf = got'[p] \/ idx[p] < v.slot
    <3>1. v \in vmas /\ v.slot \in 1..NSlots /\ idx[p] \in Int
      BY <2>3 DEF At, VmasOf, IInv, TypeOK, VMA, Slots
    <3>2. idx[p] <= v.slot
      BY <1>0, <2>1, <2>3 DEF NotPassed
    <3>3. CASE idx[p] = v.slot
      BY <1>0, <2>1, <2>3, <3>1, <3>3 DEF IInv, VmaInv, SlotDescribesItsVmas
    <3> QED
      BY <3>1, <3>2, <3>3
  <2> QED
    BY <2>1, <2>2, <2>3 DEF NotPassed, Recorded
<1>5. CASE LookupReturn(p) \/ ScanFull(p) \/ AllocFail(p) \/ RemapFail(p)
           \/ FillRest(p) \/ WipeRest(p)
  <2>1. pc'[p] = "idle" /\ got'[p] = NoBuf
    BY <1>5 DEF LookupReturn, ScanFull, AllocFail, RemapFail, FillRest, WipeRest,
       Return, Goto, IInv, TypeOK
  <2> QED
    BY <2>1 DEF NotPassed
<1>6. CASE ReleaseFree(p)
  <2>1. pc'[p] = "wipe" \/ (pc'[p] = "idle" /\ got'[p] = NoBuf)
    BY <1>6 DEF ReleaseFree, Return, Goto, IInv, TypeOK
  <2> QED
    BY <2>1 DEF NotPassed
<1>7. CASE \/ MmapCall(p) \/ ScanTaken(p) \/ ScanFree(p) \/ Alloc(p)
           \/ FillStart(p) \/ WipeStart(p)
  <2>1. pc'[p] \in {"scan", "alloc", "remap", "fill", "clear"}
    BY <1>7 DEF MmapCall, ScanTaken, ScanFree, Alloc, FillStart, WipeStart, Goto,
       IInv, TypeOK
  <2> QED
    BY <2>1 DEF NotPassed
<1>8. CASE Split(p) \/ Fork(p) \/ Munmap(p)
  <2>1. /\ pc[p] = "idle" /\ pc'[p] \in {"idle", "release"} /\ got' = got
    BY <1>8 DEF Split, Fork, Munmap, Goto, IInv, TypeOK
  <2> QED
    BY <1>0, <2>1 DEF NotPassed
<1> QED
  BY <1>1, <1>2, <1>3, <1>4, <1>5, <1>6, <1>7, <1>8
  DEF Start, Continue, Mapping, Releasing, Lookup

LEMMA LooksHold == SerialSpec => []LookInv
<1>1. Init => LookInv
  BY DEF Init, LookInv, NotPassed
<1>2. IInv /\ IInv' /\ LookInv /\ [SerialNext]_vars => LookInv'
  <2> SUFFICES ASSUME IInv, IInv', LookInv, [SerialNext]_vars PROVE LookInv'
    OBVIOUS
  <2>1. ASSUME NEW q \in Procs, Start(q) \/ Continue(q) PROVE LookInv'
    <3> SUFFICES ASSUME NEW p \in Procs
                 PROVE  /\ NotPassed(p)'
                        /\ pc'[p] \in {"idle", "lookup", "copy"} =>
                               got'[p] = NoBuf
      BY DEF LookInv
    <3>1. CASE p = q
      BY <2>1, <3>1, MineNotPassed
    <3>2. CASE p # q /\ pc[p] # "idle"
      <4>1. /\ pc'[p] = pc[p] /\ arg'[p] = arg[p] /\ idx'[p] = idx[p]
            /\ got'[p] = got[p] /\ At(p, arg[p])' = At(p, arg[p])
        BY <2>1, <3>2, OthersKeepMine
      <4>2. \A v \in At(p, arg[p]) : start'[v.slot] = start[v.slot]
        BY <2>1, RecordedStays DEF At, VmasOf
      <4> QED
        BY <4>1, <4>2 DEF LookInv, NotPassed, Recorded
    <3>3. CASE p # q /\ pc[p] = "idle"
      <4>1. pc'[p] = "idle" /\ got'[p] = got[p]
        BY <2>1, <3>3 DEF Start, MmapCall, Split, Fork, Munmap, LookupCall,
           Continue, Mapping, ScanTaken, ScanFree, ScanFull, Alloc, AllocFail,
           RemapFail, FillStart, FillRest, Releasing, ReleaseFree, WipeStart,
           WipeRest, Lookup, LookupNext, LookupHit, LookupMiss, LookupCopy,
           LookupReturn, Return, Goto, IInv, TypeOK
      <4> QED
        BY <3>3, <4>1 DEF LookInv, NotPassed
    <3> QED
      BY <3>1, <3>2, <3>3
  <2>2. CASE Unload \/ Load \/ UNCHANGED vars
    <3>1. /\ UNCHANGED <<pc, arg, idx, got, vmas>>
          /\ start' = start \/ vmas = {}
      BY <2>2 DEF Unload, Load, vars, table
    <3> QED
      BY <3>1 DEF LookInv, NotPassed, Recorded, At, VmasOf
  <2> QED
    BY <2>1, <2>2 DEF SerialNext, Next
<1> QED
  BY <1>1, <1>2, Invariance, PTL DEF SerialSpec

\* A lookup answers the buffer it was asked about, or one that it met in a slot
\* before that of its mapping under the same address: it never runs past the
\* slot of its mapping, and never takes anything else from it, though no lock
\* keeps the table still (aclsoc_exec_cmd, GET_PHYS_PTR_FROM_VIRT).
THEOREM LookupsReachTheirOwn == SerialSpec => []OwnSlotAnswers
<1>1. IInv /\ LookInv => OwnSlotAnswers
  BY DEF LookInv, NotPassed, OwnSlotAnswers
<1> QED
  BY <1>1, LooksHold, Invariance, PTL

\* A lookup that gives up does so in front of a free slot, or at its limit, or
\* past a slot that does not carry the address of its mapping.
LEMMA GivesUpForAReason ==
    ASSUME IInv, LookInv, [SerialNext]_vars,
           NEW p \in Procs, pc[p] = "lookup", pc'[p] = "answer",
           NEW v \in At(p, arg[p])
    PROVE  \/ ~Recorded(v) \/ v.slot > LookupLimit
           \/ \E s \in Slots : s < v.slot /\ start[s] = NoAddr
<1> USE SlotsAssumption
<1>1. LookupMiss(p)
  <2>1. \A q \in Procs \ {p} : ~(Start(q) \/ Continue(q))
    BY OthersKeepMine
  <2>2. ~Unload /\ ~Load /\ ~UNCHANGED vars
    BY DEF Unload, Load, vars
  <2>3. Start(p) \/ Continue(p)
    BY <2>1, <2>2 DEF SerialNext, Next
  <2>4. ~Start(p) /\ ~Mapping(p) /\ ~Releasing(p)
    BY DEF Start, MmapCall, Split, Fork, Munmap, LookupCall, Mapping,
       ScanTaken, ScanFree, ScanFull, Alloc, AllocFail, RemapFail, FillStart,
       FillRest, Releasing, ReleaseFree, WipeStart, WipeRest
  <2>5. ~LookupNext(p) /\ ~LookupHit(p) /\ ~LookupCopy(p) /\ ~LookupReturn(p)
    BY DEF LookupNext, LookupHit, LookupCopy, LookupReturn, Goto, IInv, TypeOK
  <2> QED
    BY <2>3, <2>4, <2>5 DEF Continue, Lookup
<1>2. SUFFICES ASSUME Recorded(v), v.slot <= LookupLimit
               PROVE  idx[p] \in Slots /\ idx[p] < v.slot /\ start[idx[p]] = NoAddr
  BY DEF At, VmasOf, IInv, TypeOK, VMA, Slots
<1>3. /\ v \in vmas /\ v.slot \in 1..NSlots /\ idx[p] \in 1..(NSlots + 1)
      /\ idx[p] <= v.slot
  BY <1>2 DEF LookInv, NotPassed, At, VmasOf, IInv, TypeOK, VMA, Slots
<1>4. start[idx[p]] = NoAddr
  BY <1>1, <1>2, <1>3 DEF LookupMiss
<1>5. idx[p] # v.slot
  BY <1>3, <1>4 DEF IInv, VmaInv, SlotDescribesItsVmas
<1> QED
  BY <1>3, <1>4, <1>5 DEF Slots

\* A lookup gives up for three reasons only: its mapping is not recorded under
\* that address, its slot lies beyond the limit of the loop, or a slot below it
\* is free at that moment (the hole at which the loop of aclsoc_exec_cmd stops).
THEOREM MissesAreExplained == SerialSpec => MissIsExplained
<1>1. IInv /\ LookInv /\ [SerialNext]_vars
      => [\A p \in Procs : pc[p] = "lookup" /\ pc'[p] = "answer" =>
             \A v \in At(p, arg[p]) :
                 \/ ~Recorded(v)
                 \/ v.slot > LookupLimit
                 \/ \E s \in Slots : s < v.slot /\ start[s] = NoAddr]_vars
  BY GivesUpForAReason
<1> QED
  BY <1>1, LooksHold, Invariance, PTL DEF SerialSpec, MissIsExplained

=============================================================================
