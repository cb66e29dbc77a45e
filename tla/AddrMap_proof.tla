--------------------------- MODULE AddrMap_proof ---------------------------
(***************************************************************************)
(* Proofs about AddrMap: the reference counting of DMA buffers is right    *)
(* for any number of processes, addresses, buffers and slots, as long as   *)
(* mapping calls of different processes do not overlap (SerialSpec).       *)
(***************************************************************************)
EXTENDS AddrMap, FiniteSetTheorems, FunctionTheorems, TLAPS

\* What a process that is inside a call knows of the slot and the buffer it
\* works on: nobody else uses them.
LocalInv(p) ==
    /\ pc[p] \in {"scan", "alloc", "remap", "fill"} => arg[p] \in Addrs
    /\ pc[p] \in {"alloc", "remap"} =>
           idx[p] \in Slots /\ start[idx[p]] = NoAddr
    /\ pc[p] \in {"remap", "fill"} =>
           got[p] \in live /\ \A v \in vmas : v.buf # got[p]
    /\ pc[p] \in {"fill", "release", "wipe", "clear", "copy"} => idx[p] \in Slots
    /\ pc[p] = "fill" => start[idx[p]] # NoAddr
    /\ pc[p] \in {"fill", "release", "wipe", "clear"} =>
           \A v \in vmas : v.slot # idx[p]
    /\ pc[p] = "release" => \A v \in vmas : v.buf # handle[idx[p]]

\* Everything about the VMAs but the counts.
VmaInv ==
    /\ SlotDescribesItsVmas
    /\ MappedIsAllocated
    /\ NoAliasing

IInv ==
    /\ TypeOK
    /\ Serial
    /\ IsFiniteSet(vmas)
    /\ RefCounts
    /\ VmaInv
    /\ \A p \in Procs : LocalInv(p)

----------------------------------------------------------------------------
(* Finite sets *)

\* A set with a single element counts 1, and conversely.
LEMMA CardOne ==
    ASSUME NEW S, IsFiniteSet(S), NEW x \in S, Cardinality(S) = 1
    PROVE  S = {x}
<1>1. IsFiniteSet(S \ {x}) /\ Cardinality(S \ {x}) = 0
  BY FS_RemoveElement
<1>2. S \ {x} = {}
  BY <1>1, FS_EmptySet
<1> QED
  BY <1>2

\* The VMAs of a slot are finitely many.
LEMMA OnFinite ==
    ASSUME IsFiniteSet(vmas), NEW s \in Slots
    PROVE  IsFiniteSet(On(s)) /\ Cardinality(On(s)) \in Nat
<1>1. On(s) \subseteq vmas
  BY DEF On
<1> QED
  BY <1>1, FS_Subset, FS_CardinalityType

\* The copies that fork makes of some VMAs of a process are as many as these.
LEMMA CopiesCount ==
    ASSUME NEW p \in Procs, NEW c \in Procs, NEW S \in SUBSET VMA,
           IsFiniteSet(S), \A v \in S : v.proc = p
    PROVE  LET T == {[v EXCEPT !.proc = c] : v \in S}
           IN  IsFiniteSet(T) /\ Cardinality(T) = Cardinality(S)
<1> DEFINE T == {[v EXCEPT !.proc = c] : v \in S}
           F == [v \in S |-> [v EXCEPT !.proc = c]]
<1>1. F \in [S -> T] /\ \A t \in T : \E v \in S : F[v] = t
  OBVIOUS
<1>2. ASSUME NEW v \in S, NEW w \in S, F[v] = F[w] PROVE v = w
  <2>1. v \in VMA /\ w \in VMA /\ v.proc = w.proc
    OBVIOUS
  <2>2. [v EXCEPT !.proc = c] = [w EXCEPT !.proc = c]
    BY <1>2
  <2>3. v.addr = w.addr /\ v.slot = w.slot /\ v.buf = w.buf
    BY <2>1, <2>2 DEF VMA
  <2> QED
    BY <2>1, <2>3 DEF VMA
<1> HIDE DEF T, F
<1>3. F \in Bijection(S, T)
  BY <1>1, <1>2, Fun_IsBij
<1>4. ExistsBijection(S, T)
  BY <1>3 DEF ExistsBijection
<1>5. IsFiniteSet(T) /\ Cardinality(T) = Cardinality(S)
  BY <1>4, FS_Bijection
<1> QED
  BY <1>5 DEF T

----------------------------------------------------------------------------
(* The initial states and the steps *)

LEMMA InitIInv == Init => IInv
<1> SUFFICES ASSUME Init PROVE IInv
  OBVIOUS
<1> USE SlotsAssumption, ValuesAssumption DEF Init
<1>1. TypeOK
  BY DEF TypeOK, Slots, Results
<1>2. Serial
  BY DEF Serial, MapPcs
<1>3. IsFiniteSet(vmas)
  BY FS_EmptySet
<1>4. RefCounts
  <2>1. \A s \in Slots : On(s) = {}
    BY DEF On
  <2> QED
    BY <2>1, FS_EmptySet DEF RefCounts
<1>5. VmaInv
  BY DEF VmaInv, SlotDescribesItsVmas, MappedIsAllocated, NoAliasing
<1>6. \A p \in Procs : LocalInv(p)
  BY DEF LocalInv
<1> QED
  BY <1>1, <1>2, <1>3, <1>4, <1>5, <1>6 DEF IInv

\* A step that changes only the locals of p.
OnlyLocals(p) ==
    /\ UNCHANGED <<table, live, vmas>>
    /\ \A q \in Procs \ {p} : /\ pc'[q] = pc[q] /\ arg'[q] = arg[q]
                              /\ idx'[q] = idx[q] /\ got'[q] = got[q]

\* Such a step can disturb nothing but what p knows.
LEMMA LocalStep ==
    ASSUME IInv, NEW p \in Procs, OnlyLocals(p),
           TypeOK', Serial', LocalInv(p)'
    PROVE  IInv'
<1> USE DEF OnlyLocals, table
<1>1. IsFiniteSet(vmas)'
  BY DEF IInv
<1>2. RefCounts'
  BY DEF IInv, RefCounts, On
<1>3. VmaInv'
  BY DEF IInv, VmaInv, SlotDescribesItsVmas, MappedIsAllocated, NoAliasing
<1>4. ASSUME NEW q \in Procs PROVE LocalInv(q)'
  <2>1. CASE q = p
    BY <2>1
  <2>2. CASE q # p
    BY <2>2 DEF IInv, LocalInv
  <2> QED
    BY <2>1, <2>2
<1> QED
  BY <1>1, <1>2, <1>3, <1>4 DEF IInv

\* The steps of mmap() before the slot is touched, and the whole lookup.
LEMMA QuietSteps ==
    ASSUME IInv, NEW p \in Procs, Serial',
           \/ MmapCall(p) \/ ScanTaken(p) \/ ScanFree(p) \/ ScanFull(p)
           \/ AllocFail(p) \/ RemapFail(p)
           \/ LookupCall(p) \/ Lookup(p)
    PROVE  IInv'
<1> USE SlotsAssumption, MayMapAssumption DEF Slots
<1>0. TypeOK /\ LocalInv(p)
  BY DEF IInv
<1>1. CASE MmapCall(p)
  <2>1. PICK a \in MayMap[p] : MmapCall(p)!(a)
    BY <1>1 DEF MmapCall
  <2>2. TypeOK' /\ LocalInv(p)' /\ OnlyLocals(p)
    BY <1>0, <2>1 DEF TypeOK, LocalInv, OnlyLocals, table, Goto, MapPcs
  <2> QED
    BY <2>2, LocalStep
<1>2. CASE ScanTaken(p)
  <2>2. TypeOK' /\ LocalInv(p)' /\ OnlyLocals(p)
    BY <1>0, <1>2 DEF ScanTaken, TypeOK, LocalInv, OnlyLocals, table
  <2> QED
    BY <2>2, LocalStep
<1>3. CASE ScanFree(p)
  <2>2. TypeOK' /\ LocalInv(p)' /\ OnlyLocals(p)
    BY <1>0, <1>3 DEF ScanFree, TypeOK, LocalInv, OnlyLocals, table, Goto, MapPcs
  <2> QED
    BY <2>2, LocalStep
<1>4. CASE ScanFull(p) \/ AllocFail(p) \/ RemapFail(p) \/ LookupReturn(p)
  <2>1. Return(p) /\ UNCHANGED <<start, handle, ref, live, vmas, loaded>>
    BY <1>4 DEF ScanFull, AllocFail, RemapFail, LookupReturn, table
  <2>4. lost' \in SUBSET Bufs
    BY <1>0, <1>4 DEF ScanFull, AllocFail, RemapFail, LookupReturn, TypeOK,
       LocalInv
  <2>2. TypeOK' /\ OnlyLocals(p)
    BY <1>0, <2>1, <2>4 DEF Return, TypeOK, OnlyLocals, table, Goto, Results
  <2>3. LocalInv(p)'
    BY <1>0, <2>1 DEF Return, TypeOK, LocalInv, Goto
  <2> QED
    BY <2>2, <2>3, LocalStep
<1>5. CASE LookupCall(p)
  <2>1. PICK a \in Addrs \cup {NoAddr}, r \in Results :
           /\ pc' = [pc EXCEPT ![p] = "lookup"]
           /\ arg' = [arg EXCEPT ![p] = a]
           /\ idx' = [idx EXCEPT ![p] = 1]
           /\ ret' = [ret EXCEPT ![p] = r]
           /\ UNCHANGED <<start, handle, ref, live, vmas, got, loaded, lost>>
    BY <1>5 DEF LookupCall, Goto, table
  <2>3. /\ pc' = [pc EXCEPT ![p] = "lookup"]
        /\ UNCHANGED <<start, handle, ref, live, vmas, got, loaded, lost>>
    BY <2>1
  <2>4. TypeOK' /\ OnlyLocals(p)
    BY <1>0, <2>1 DEF TypeOK, OnlyLocals, table, LookupPcs
  <2>5. LocalInv(p)'
    BY <1>0, <2>3 DEF TypeOK, LocalInv
  <2> QED
    BY <2>4, <2>5, LocalStep
<1>6. CASE LookupNext(p)
  <2>1. idx[p] + 1 \in 1..(NSlots + 1)
    BY <1>0, <1>6 DEF LookupNext, TypeOK
  <2>2. TypeOK' /\ LocalInv(p)' /\ OnlyLocals(p)
    BY <1>0, <1>6, <2>1 DEF LookupNext, TypeOK, LocalInv, OnlyLocals, table
  <2> QED
    BY <2>2, LocalStep
<1>8. CASE LookupHit(p) \/ LookupMiss(p)
  <2>1. pc[p] = "lookup" /\ (pc'[p] = "copy" => idx[p] \in Slots)
    BY <1>0, <1>8 DEF LookupHit, LookupMiss, TypeOK, Goto
  <2>2. TypeOK' /\ LocalInv(p)' /\ OnlyLocals(p)
    BY <1>0, <1>8, <2>1 DEF LookupHit, LookupMiss, TypeOK, LocalInv,
       OnlyLocals, table, Goto, LookupPcs
  <2> QED
    BY <2>2, LocalStep
<1>7. CASE LookupCopy(p)
  <2>2. TypeOK' /\ LocalInv(p)' /\ OnlyLocals(p)
    BY <1>0, <1>7 DEF LookupCopy, TypeOK, LocalInv, OnlyLocals, table, Goto,
       LookupPcs, Results
  <2> QED
    BY <2>2, LocalStep
<1> QED
  BY <1>1, <1>2, <1>3, <1>4, <1>5, <1>6, <1>7, <1>8 DEF Lookup

\* While p is inside aclsoc_mmap or free_map_info, nobody else is: all that
\* another process knows is the slot of its lookup.
LEMMA OthersIdle ==
    ASSUME IInv, NEW p \in Procs, pc[p] \in MapPcs,
           NEW q \in Procs, q # p, pc'[q] = pc[q], idx'[q] = idx[q]
    PROVE  LocalInv(q)'
<1>1. pc[q] \notin MapPcs
  BY DEF IInv, Serial
<1>2. pc[q] = "copy" => idx[q] \in Slots
  BY DEF IInv, LocalInv
<1> QED
  BY <1>1, <1>2 DEF LocalInv, MapPcs

\* dma_alloc_coherent returns a buffer that nobody maps.
LEMMA AllocStep ==
    ASSUME IInv, NEW p \in Procs, Alloc(p), Serial'
    PROVE  IInv'
<1>1. PICK b \in Bufs \ live :
         /\ pc[p] = "alloc"
         /\ live' = live \cup {b}
         /\ got' = [got EXCEPT ![p] = b]
         /\ pc' = [pc EXCEPT ![p] = "remap"]
         /\ UNCHANGED <<start, handle, ref, vmas, arg, idx, ret, loaded, lost>>
  BY DEF Alloc, Goto, table
<1>2. TypeOK /\ LocalInv(p) /\ pc[p] \in MapPcs
  BY <1>1 DEF IInv, MapPcs
<1>3. TypeOK'
  BY <1>1, <1>2 DEF TypeOK, MapPcs
<1>4. IsFiniteSet(vmas)' /\ RefCounts'
  BY <1>1 DEF IInv, RefCounts, On
<1>5. VmaInv'
  BY <1>1 DEF IInv, VmaInv, SlotDescribesItsVmas, MappedIsAllocated, NoAliasing
<1>6. ASSUME NEW q \in Procs PROVE LocalInv(q)'
  <2>1. CASE q = p
    <3>1. \A v \in vmas : v.buf # b
      BY <1>1 DEF IInv, VmaInv, MappedIsAllocated
    <3> QED
      BY <1>1, <1>2, <2>1, <3>1 DEF LocalInv, TypeOK
  <2>2. CASE q # p
    BY <1>1, <1>2, <2>2, OthersIdle DEF TypeOK
  <2> QED
    BY <2>1, <2>2
<1> QED
  BY <1>3, <1>4, <1>5, <1>6 DEF IInv

\* The free slot that the scan found gets its vm_start.
LEMMA FillStartStep ==
    ASSUME IInv, NEW p \in Procs, FillStart(p), Serial'
    PROVE  IInv'
<1> USE ValuesAssumption
<1>1. /\ pc[p] = "remap"
      /\ start' = [start EXCEPT ![idx[p]] = arg[p]]
      /\ pc' = [pc EXCEPT ![p] = "fill"]
      /\ UNCHANGED <<handle, ref, live, vmas, arg, idx, got, ret, loaded, lost>>
  BY DEF FillStart, Goto
<1>2. TypeOK /\ LocalInv(p) /\ pc[p] \in MapPcs
  BY <1>1 DEF IInv, MapPcs
<1>3. TypeOK'
  BY <1>1, <1>2 DEF TypeOK, MapPcs, LocalInv
<1>4. IsFiniteSet(vmas)' /\ RefCounts'
  BY <1>1 DEF IInv, RefCounts, On
<1>5. idx[p] \in Slots /\ \A v \in vmas : v.slot # idx[p]
  BY <1>1, <1>2 DEF IInv, VmaInv, SlotDescribesItsVmas, LocalInv
<1>6. VmaInv'
  BY <1>1, <1>2, <1>5 DEF IInv, VmaInv, SlotDescribesItsVmas,
     MappedIsAllocated, NoAliasing, TypeOK, VMA
<1>7. ASSUME NEW q \in Procs PROVE LocalInv(q)'
  <2>1. CASE q = p
    BY <1>1, <1>2, <1>5, <2>1 DEF LocalInv, TypeOK
  <2>2. CASE q # p
    BY <1>1, <1>2, <2>2, OthersIdle DEF TypeOK
  <2> QED
    BY <2>1, <2>2
<1> QED
  BY <1>3, <1>4, <1>6, <1>7 DEF IInv

\* The first VMA of a slot: the slot had none, and now counts one.
LEMMA FillRestStep ==
    ASSUME IInv, NEW p \in Procs, FillRest(p), Serial'
    PROVE  IInv'
<1> DEFINE n == [proc |-> p, addr |-> arg[p], slot |-> idx[p], buf |-> got[p]]
<1>1. /\ pc[p] = "fill"
      /\ handle' = [handle EXCEPT ![idx[p]] = got[p]]
      /\ ref' = [ref EXCEPT ![idx[p]] = 1]
      /\ vmas' = vmas \cup {n}
      /\ pc' = [pc EXCEPT ![p] = "idle"]
      /\ arg' = [arg EXCEPT ![p] = NoAddr]
      /\ idx' = [idx EXCEPT ![p] = 1]
      /\ got' = [got EXCEPT ![p] = NoBuf]
      /\ ret' = [ret EXCEPT ![p] = "ok"]
      /\ UNCHANGED <<start, live, loaded, lost>>
  BY DEF FillRest, Return, Goto
<1>2. TypeOK /\ LocalInv(p) /\ pc[p] \in MapPcs
  BY <1>1 DEF IInv, MapPcs
<1>3. /\ idx[p] \in Slots /\ start[idx[p]] # NoAddr
      /\ got[p] \in live
      /\ \A v \in vmas : v.slot # idx[p] /\ v.buf # got[p]
  BY <1>1, <1>2 DEF LocalInv
<1>4. TypeOK'
  <2>1. n \in VMA
    BY <1>1, <1>2, <1>3 DEF TypeOK, LocalInv, VMA
  <2> HIDE DEF n
  <2> QED
    BY <1>1, <1>2, <1>3, <2>1, SlotsAssumption DEF TypeOK, Slots, Results
<1>5. IsFiniteSet(vmas)'
  BY <1>1, FS_AddElement DEF IInv
<1>6. ASSUME NEW s \in Slots PROVE ref'[s] = Cardinality(On(s)')
  <2>1. CASE s = idx[p]
    <3>1. On(s)' = {n}
      BY <1>1, <1>3, <2>1 DEF On
    <3> HIDE DEF n
    <3> QED
      BY <1>1, <1>2, <2>1, <3>1, FS_Singleton DEF TypeOK
  <2>2. CASE s # idx[p]
    <3>1. On(s)' = On(s)
      BY <1>1, <2>2 DEF On
    <3> QED
      BY <1>1, <1>2, <2>2, <3>1 DEF IInv, RefCounts, TypeOK
  <2> QED
    BY <2>1, <2>2
<1>7. VmaInv'
  <2>0. n.slot = idx[p] /\ n.buf = got[p]
    OBVIOUS
  <2>5. vmas \subseteq VMA
    BY <1>2 DEF TypeOK
  <2> HIDE DEF n
  <2>1. SlotDescribesItsVmas'
    BY <1>1, <1>2, <1>3, <2>0, <2>5 DEF IInv, VmaInv, SlotDescribesItsVmas, TypeOK, VMA
  <2>2. MappedIsAllocated'
    BY <1>1, <1>3, <2>0 DEF IInv, VmaInv, MappedIsAllocated
  <2>3. NoAliasing'
    BY <1>1, <1>3, <2>0 DEF IInv, VmaInv, NoAliasing
  <2> QED
    BY <2>1, <2>2, <2>3 DEF VmaInv
<1>8. ASSUME NEW q \in Procs PROVE LocalInv(q)'
  <2>1. CASE q = p
    BY <1>1, <1>2, <2>1 DEF LocalInv, TypeOK
  <2>2. CASE q # p
    BY <1>1, <1>2, <2>2, OthersIdle DEF TypeOK
  <2> QED
    BY <2>1, <2>2
<1> QED
  BY <1>4, <1>5, <1>6, <1>7, <1>8 DEF IInv, RefCounts

\* free_map_info works on a slot without VMAs and frees an unmapped buffer.
LEMMA ReleaseSteps ==
    ASSUME IInv, NEW p \in Procs, Releasing(p), Serial'
    PROVE  IInv'
<1> USE ValuesAssumption, SlotsAssumption
<1>1. TypeOK /\ LocalInv(p) /\ pc[p] \in {"release", "wipe", "clear"}
  BY DEF IInv, Releasing, ReleaseFree, WipeStart, WipeRest
<1>2. idx[p] \in Slots /\ \A v \in vmas : v.slot # idx[p]
  BY <1>1 DEF LocalInv
<1>3. /\ vmas' = vmas
      /\ \A s \in Slots \ {idx[p]} : /\ start'[s] = start[s]
                                     /\ handle'[s] = handle[s]
                                     /\ ref'[s] = ref[s]
      /\ \A q \in Procs \ {p} : pc'[q] = pc[q] /\ idx'[q] = idx[q]
  BY <1>1, <1>2 DEF Releasing, ReleaseFree, WipeStart, WipeRest, Return, Goto,
     table, TypeOK
<1>4. ref'[idx[p]] \in {ref[idx[p]], 0}
  BY <1>1, <1>2 DEF Releasing, ReleaseFree, WipeStart, WipeRest, table, TypeOK
<1>5. live' = live \/ (pc[p] = "release" /\ live' = live \ {handle[idx[p]]})
  BY DEF Releasing, ReleaseFree, WipeStart, WipeRest
<1>6. TypeOK'
  <2>1. CASE ReleaseFree(p)
    <3>1. CASE start[idx[p]] = NoAddr
      <4>1. Return(p) /\ UNCHANGED <<start, handle, ref, live, vmas, loaded, lost>>
        BY <2>1, <3>1 DEF ReleaseFree, table
      <4> QED
        BY <1>1, <4>1 DEF Return, Goto, TypeOK, Results
    <3>2. CASE start[idx[p]] # NoAddr
      <4>1. /\ live' \subseteq live
            /\ pc' = [pc EXCEPT ![p] = "wipe"]
            /\ UNCHANGED <<start, handle, ref, vmas, arg, idx, got, ret, loaded, lost>>
        BY <2>1, <3>2 DEF ReleaseFree, table, Goto
      <4> QED
        BY <1>1, <4>1 DEF TypeOK, MapPcs
    <3> QED
      BY <3>1, <3>2
  <2>2. CASE WipeStart(p)
    BY <1>1, <2>2 DEF WipeStart, TypeOK, Goto, MapPcs
  <2>3. CASE WipeRest(p)
    <3>1. /\ handle' = [handle EXCEPT ![idx[p]] = NoBuf]
          /\ ref' = [ref EXCEPT ![idx[p]] = 0]
          /\ pc' = [pc EXCEPT ![p] = "idle"]
          /\ arg' = [arg EXCEPT ![p] = NoAddr]
          /\ idx' = [idx EXCEPT ![p] = 1]
          /\ got' = [got EXCEPT ![p] = NoBuf]
          /\ ret' = [ret EXCEPT ![p] = "ok"]
          /\ UNCHANGED <<start, live, vmas, loaded, lost>>
      BY <2>3 DEF WipeRest, Return, Goto
    <3>2. handle' \in [Slots -> Bufs \cup {NoBuf}] /\ ref' \in [Slots -> Int]
      BY <1>1, <1>2, <3>1 DEF TypeOK
    <3>3. idx' \in [Procs -> 1..(NSlots + 1)]
      BY <1>1, <3>1 DEF TypeOK
    <3> QED
      BY <1>1, <3>1, <3>2, <3>3 DEF TypeOK, Results
  <2> QED
    BY <2>1, <2>2, <2>3 DEF Releasing
<1>7. IsFiniteSet(vmas)'
  BY <1>3 DEF IInv
<1>8. ASSUME NEW s \in Slots PROVE ref'[s] = Cardinality(On(s)')
  <2>1. On(s)' = On(s) /\ ref[s] = Cardinality(On(s))
    BY <1>3 DEF On, IInv, RefCounts
  <2>2. CASE s = idx[p]
    <3>1. On(s) = {}
      BY <1>2, <2>2 DEF On
    <3> QED
      BY <1>4, <2>1, <2>2, <3>1, FS_EmptySet
  <2>3. CASE s # idx[p]
    BY <1>3, <2>1, <2>3
  <2> QED
    BY <2>2, <2>3
<1>9. VmaInv'
  <2>1. vmas \subseteq VMA
    BY <1>1 DEF TypeOK
  <2>2. SlotDescribesItsVmas'
    BY <1>2, <1>3, <2>1 DEF IInv, VmaInv, SlotDescribesItsVmas, VMA
  <2>3. MappedIsAllocated'
    BY <1>1, <1>3, <1>5 DEF IInv, VmaInv, MappedIsAllocated, LocalInv
  <2>4. NoAliasing'
    BY <1>3 DEF IInv, VmaInv, NoAliasing
  <2> QED
    BY <2>2, <2>3, <2>4 DEF VmaInv
<1>10. ASSUME NEW q \in Procs PROVE LocalInv(q)'
  <2>1. CASE q = p
    <3>1. /\ pc'[p] \in {"idle", "wipe", "clear"}
          /\ pc'[p] # "idle" => idx'[p] = idx[p]
      BY <1>1 DEF Releasing, ReleaseFree, WipeStart, WipeRest, Return, Goto, TypeOK
    <3> QED
      BY <1>2, <1>3, <2>1, <3>1 DEF LocalInv
  <2>2. CASE q # p
    BY <1>1, <1>3, <2>2, OthersIdle DEF MapPcs
  <2> QED
    BY <2>1, <2>2
<1> QED
  BY <1>6, <1>7, <1>8, <1>9, <1>10 DEF IInv, RefCounts

----------------------------------------------------------------------------
(* Steps that copy or remove VMAs, while another process may be in a call  *)

\* Copies of existing VMAs map the same buffers through the same slots; VMAs
\* that go take nothing from the rest.
LEMMA VmaStep ==
    ASSUME IInv, UNCHANGED <<start, handle, live>>,
           \A w \in vmas' : \E v \in vmas : w.slot = v.slot /\ w.buf = v.buf
    PROVE  VmaInv'
BY DEF IInv, VmaInv, SlotDescribesItsVmas, MappedIsAllocated, NoAliasing

\* Nor do they disturb a process that works on a slot or a buffer of its own.
LEMMA VmaLocal ==
    ASSUME IInv, UNCHANGED <<start, handle, live>>,
           \A w \in vmas' : \E v \in vmas : w.slot = v.slot /\ w.buf = v.buf,
           NEW q \in Procs, pc'[q] = pc[q], idx'[q] = idx[q],
           arg'[q] = arg[q], got'[q] = got[q]
    PROVE  LocalInv(q)'
<1>1. LocalInv(q)
  BY DEF IInv
<1> QED
  BY <1>1 DEF LocalInv

\* aclsoc_vma_open for one more VMA: one more reference.
LEMMA SplitStep ==
    ASSUME IInv, NEW p \in Procs, Split(p), Serial'
    PROVE  IInv'
<1>1. PICK v \in VmasOf(p), a \in Addrs :
         /\ At(p, a) = {}
         /\ vmas' = vmas \cup {[v EXCEPT !.addr = a]}
         /\ ref' = [ref EXCEPT ![v.slot] = @ + 1]
         /\ UNCHANGED <<start, handle, live, pc, arg, idx, got, ret, loaded, lost>>
  BY DEF Split
<1> DEFINE n == [v EXCEPT !.addr = a]
<1>2. /\ v \in vmas /\ v \in VMA
      /\ n \in VMA /\ n.proc = p /\ n.addr = a
      /\ n.slot = v.slot /\ n.buf = v.buf
  BY <1>1 DEF VmasOf, IInv, TypeOK, VMA
<1>3. n \notin vmas
  BY <1>1, <1>2 DEF At, VmasOf
<1>4. vmas' = vmas \cup {n}
  BY <1>1
<1> HIDE DEF n
<1>5. TypeOK'
  <2>1. TypeOK
    BY DEF IInv
  <2>2. ref' \in [Slots -> Int]
    <3>1. v.slot \in Slots
      BY <1>2 DEF VMA
    <3> QED
      BY <1>1, <2>1, <3>1 DEF TypeOK
  <2>3. vmas' \subseteq VMA
    BY <1>2, <1>4, <2>1 DEF TypeOK
  <2> QED
    BY <1>1, <2>1, <2>2, <2>3 DEF TypeOK
<1>6. IsFiniteSet(vmas)'
  BY <1>4, FS_AddElement DEF IInv
<1>7. ASSUME NEW s \in Slots PROVE ref'[s] = Cardinality(On(s)')
  <2>0. IsFiniteSet(On(s)) /\ ref[s] = Cardinality(On(s)) /\ ref[s] \in Int
    BY OnFinite DEF IInv, RefCounts, TypeOK
  <2>1. CASE s = v.slot
    <3>1. On(s)' = On(s) \cup {n} /\ n \notin On(s)
      BY <1>2, <1>3, <1>4, <2>1 DEF On
    <3>2. ref'[s] = ref[s] + 1
      BY <1>1, <1>2, <2>1 DEF IInv, TypeOK
    <3> QED
      BY <2>0, <3>1, <3>2, FS_AddElement
  <2>2. CASE s # v.slot
    <3>1. On(s)' = On(s)
      BY <1>2, <1>4, <2>2 DEF On
    <3>2. ref'[s] = ref[s]
      BY <1>1, <2>2 DEF IInv, TypeOK
    <3> QED
      BY <2>0, <3>1, <3>2
  <2> QED
    BY <2>1, <2>2
<1>8. \A w \in vmas' : \E u \in vmas : w.slot = u.slot /\ w.buf = u.buf
  BY <1>2, <1>4
<1>9. VmaInv'
  BY <1>1, <1>8, VmaStep
<1>10. \A q \in Procs : LocalInv(q)'
  BY <1>1, <1>8, VmaLocal
<1> QED
  BY <1>5, <1>6, <1>7, <1>9, <1>10 DEF IInv, RefCounts

\* aclsoc_vma_open for every VMA of the parent: a slot gets as many
\* references as the parent has VMAs on it.
LEMMA ForkStep ==
    ASSUME IInv, NEW p \in Procs, Fork(p), Serial'
    PROVE  IInv'
<1>1. PICK c \in Procs \ {p} :
         /\ VmasOf(c) = {}
         /\ vmas' = vmas \cup Inherited(p, c)
         /\ ref' = [s \in Slots |-> ref[s] + Cardinality(On(s) \cap VmasOf(p))]
         /\ UNCHANGED <<start, handle, live, pc, arg, idx, got, ret, loaded, lost>>
  BY DEF Fork
<1>2. TypeOK /\ vmas \subseteq VMA /\ IsFiniteSet(vmas)
  BY DEF IInv, TypeOK
<1>3. ASSUME NEW v \in VmasOf(p)
      PROVE  /\ [v EXCEPT !.proc = c] \in VMA
             /\ [v EXCEPT !.proc = c].proc = c
             /\ [v EXCEPT !.proc = c].slot = v.slot
             /\ [v EXCEPT !.proc = c].buf = v.buf
  BY <1>2 DEF VmasOf, VMA
<1>4. VmasOf(p) \subseteq vmas /\ \A v \in VmasOf(p) : v.proc = p
  BY DEF VmasOf
<1>5. ASSUME NEW s \in Slots
      PROVE  LET M == On(s) \cap VmasOf(p)
                 T == {[v EXCEPT !.proc = c] : v \in M}
             IN  /\ On(s)' = On(s) \cup T
                 /\ On(s) \cap T = {}
                 /\ IsFiniteSet(M) /\ Cardinality(M) \in Nat
                 /\ IsFiniteSet(T) /\ Cardinality(T) = Cardinality(M)
  <2> DEFINE M == On(s) \cap VmasOf(p)
             T == {[v EXCEPT !.proc = c] : v \in M}
  <2>1. M \in SUBSET vmas /\ M \in SUBSET VMA /\ \A v \in M : v.proc = p
    BY <1>2, <1>4
  <2>2. IsFiniteSet(M) /\ Cardinality(M) \in Nat
    BY <1>2, <2>1, FS_Subset, FS_CardinalityType
  <2>3. IsFiniteSet(T) /\ Cardinality(T) = Cardinality(M)
    BY <2>1, <2>2, CopiesCount
  <2>4. \A t \in T : t.proc = c /\ t.slot = s
    BY <1>3 DEF On
  <2>5. On(s) \cap T = {}
    BY <1>1, <2>4 DEF On, VmasOf
  <2>6. On(s)' = On(s) \cup T
    <3>1. On(s)' = {w \in vmas \cup Inherited(p, c) : w.slot = s}
      BY <1>1 DEF On
    <3>2. {w \in Inherited(p, c) : w.slot = s} = T
      <4>1. T \subseteq Inherited(p, c) /\ \A t \in T : t.slot = s
        BY <2>4 DEF Inherited
      <4>2. ASSUME NEW w \in Inherited(p, c), w.slot = s PROVE w \in T
        <5>1. PICK v \in VmasOf(p) : w = [v EXCEPT !.proc = c]
          BY DEF Inherited
        <5>2. v \in M
          BY <1>3, <1>4, <4>2, <5>1 DEF On
        <5> QED
          BY <5>1, <5>2
      <4> HIDE DEF T
      <4> QED
        BY <4>1, <4>2
    <3> HIDE DEF M, T
    <3> QED
      BY <3>1, <3>2 DEF On
  <2> QED
    BY <2>2, <2>3, <2>5, <2>6
<1>6. \A w \in vmas' : \E v \in vmas : w.slot = v.slot /\ w.buf = v.buf
  <2>1. ASSUME NEW w \in Inherited(p, c)
        PROVE  \E v \in vmas : w.slot = v.slot /\ w.buf = v.buf
    <3>1. PICK v \in VmasOf(p) : w = [v EXCEPT !.proc = c]
      BY DEF Inherited
    <3> QED
      BY <1>3, <1>4, <3>1
  <2> QED
    BY <1>1, <2>1
<1>7. TypeOK'
  <2>1. vmas' \subseteq VMA
    BY <1>1, <1>2, <1>3 DEF Inherited
  <2>2. ref' \in [Slots -> Int]
    <3>1. \A s \in Slots : ref[s] + Cardinality(On(s) \cap VmasOf(p)) \in Int
      <4> TAKE s \in Slots
      <4>1. Cardinality(On(s) \cap VmasOf(p)) \in Nat
        BY <1>5
      <4>2. ref[s] \in Int
        BY <1>2 DEF TypeOK
      <4> QED
        BY <4>1, <4>2
    <3> QED
      BY <1>1, <3>1
  <2> QED
    BY <1>1, <1>2, <2>1, <2>2 DEF TypeOK
<1>8. IsFiniteSet(vmas)'
  <2>1. IsFiniteSet(VmasOf(p)) /\ VmasOf(p) \in SUBSET VMA
    BY <1>2, <1>4, FS_Subset
  <2>2. IsFiniteSet(Inherited(p, c))
    BY <1>4, <2>1, CopiesCount DEF Inherited
  <2> QED
    BY <1>1, <1>2, <2>2, FS_Union
<1>9. ASSUME NEW s \in Slots PROVE ref'[s] = Cardinality(On(s)')
  <2> DEFINE M == On(s) \cap VmasOf(p)
             T == {[v EXCEPT !.proc = c] : v \in M}
  <2>1. /\ On(s)' = On(s) \cup T /\ On(s) \cap T = {}
        /\ IsFiniteSet(T) /\ Cardinality(T) = Cardinality(M)
        /\ Cardinality(M) \in Nat
    BY <1>5
  <2>2. IsFiniteSet(On(s)) /\ ref[s] = Cardinality(On(s)) /\ ref[s] \in Int
    BY <1>2, OnFinite DEF IInv, RefCounts, TypeOK
  <2>3. ref'[s] = ref[s] + Cardinality(M)
    BY <1>1
  <2> HIDE DEF M, T
  <2>4. Cardinality(On(s) \cup T) = Cardinality(On(s)) + Cardinality(T)
    BY <2>1, <2>2, FS_Union, FS_EmptySet
  <2> QED
    BY <2>1, <2>2, <2>3, <2>4
<1>10. VmaInv'
  BY <1>1, <1>6, VmaStep
<1>11. \A q \in Procs : LocalInv(q)'
  BY <1>1, <1>6, VmaLocal
<1> QED
  BY <1>7, <1>8, <1>9, <1>10, <1>11 DEF IInv, RefCounts

\* aclsoc_vma_close: one reference less, and the last one leaves a slot and a
\* buffer that nobody else uses.
LEMMA MunmapStep ==
    ASSUME IInv, NEW p \in Procs, Munmap(p), Serial'
    PROVE  IInv'
<1>1. PICK v \in VmasOf(p) : Munmap(p)!(v)
  BY DEF Munmap
<1>2. /\ TypeOK /\ IsFiniteSet(vmas)
      /\ v \in vmas /\ v \in VMA /\ v.slot \in Slots
  BY DEF IInv, TypeOK, VmasOf, VMA
<1>3. /\ pc[p] = "idle"
      /\ vmas' = vmas \ {v}
      /\ ref' = [ref EXCEPT ![v.slot] = @ - 1]
      /\ UNCHANGED <<start, handle, live, arg, got, ret, loaded, lost>>
  BY <1>1
<1>4. \/ /\ ref[v.slot] = 1
         /\ pc' = [pc EXCEPT ![p] = "release"]
         /\ idx' = [idx EXCEPT ![p] = v.slot]
      \/ pc' = pc /\ idx' = idx
  BY <1>1 DEF Goto
<1>5. TypeOK'
  <2>1. ref' \in [Slots -> Int]
    BY <1>2, <1>3 DEF TypeOK
  <2>2. idx' \in [Procs -> 1..(NSlots + 1)]
    <3>1. v.slot \in 1..(NSlots + 1)
      BY <1>2, SlotsAssumption DEF Slots
    <3> QED
      BY <1>2, <1>4, <3>1 DEF TypeOK
  <2>3. pc' \in [Procs -> {"idle"} \cup MapPcs \cup LookupPcs]
    BY <1>2, <1>4 DEF TypeOK, MapPcs
  <2> QED
    BY <1>2, <1>3, <2>1, <2>2, <2>3 DEF TypeOK
<1>6. IsFiniteSet(vmas)'
  BY <1>2, <1>3, FS_RemoveElement
<1>7. ASSUME NEW s \in Slots PROVE ref'[s] = Cardinality(On(s)')
  <2>0. IsFiniteSet(On(s)) /\ ref[s] = Cardinality(On(s)) /\ ref[s] \in Int
    BY <1>2, OnFinite DEF IInv, RefCounts, TypeOK
  <2>1. CASE s = v.slot
    <3>1. On(s)' = On(s) \ {v} /\ v \in On(s)
      BY <1>2, <1>3, <2>1 DEF On
    <3>2. ref'[s] = ref[s] - 1
      BY <1>2, <1>3, <2>1 DEF TypeOK
    <3> QED
      BY <2>0, <3>1, <3>2, FS_RemoveElement
  <2>2. CASE s # v.slot
    <3>1. On(s)' = On(s)
      BY <1>3, <2>2 DEF On
    <3>2. ref'[s] = ref[s]
      BY <1>2, <1>3, <2>2 DEF TypeOK
    <3> QED
      BY <2>0, <3>1, <3>2
  <2> QED
    BY <2>1, <2>2
<1>8. \A w \in vmas' : \E u \in vmas : w.slot = u.slot /\ w.buf = u.buf
  BY <1>3
<1>9. VmaInv'
  BY <1>3, <1>8, VmaStep
<1>10. ASSUME NEW q \in Procs PROVE LocalInv(q)'
  <2>1. CASE pc'[q] = pc[q] /\ idx'[q] = idx[q]
    BY <1>3, <1>8, <2>1, VmaLocal
  <2>2. CASE ~(pc'[q] = pc[q] /\ idx'[q] = idx[q])
    <3>1. /\ q = p /\ ref[v.slot] = 1
          /\ pc'[p] = "release" /\ idx'[p] = v.slot
      BY <1>2, <1>4, <2>2 DEF TypeOK
    <3>2. On(v.slot) = {v}
      <4>1. IsFiniteSet(On(v.slot)) /\ Cardinality(On(v.slot)) = 1
        BY <1>2, <3>1, OnFinite DEF IInv, RefCounts
      <4>2. v \in On(v.slot)
        BY <1>2 DEF On
      <4> QED
        BY <4>1, <4>2, CardOne
    <3>3. \A w \in vmas' : w.slot # v.slot
      BY <1>3, <3>2 DEF On
    <3>4. \A w \in vmas' : w.buf # handle[v.slot]
      <4>1. handle[v.slot] = v.buf
        BY <1>2 DEF IInv, VmaInv, SlotDescribesItsVmas
      <4> QED
        BY <1>2, <1>3, <3>3, <4>1 DEF IInv, VmaInv, NoAliasing
    <3> QED
      BY <1>2, <1>3, <3>1, <3>3, <3>4 DEF LocalInv
  <2> QED
    BY <2>1, <2>2
<1> QED
  BY <1>5, <1>6, <1>7, <1>9, <1>10 DEF IInv, RefCounts

----------------------------------------------------------------------------
(* Loading and unloading the module, and stuttering *)

LEMMA ModuleSteps ==
    ASSUME IInv, Unload \/ Load \/ UNCHANGED vars
    PROVE  IInv'
<1> USE ValuesAssumption
<1>1. CASE Unload
  <2>1. TypeOK'
    <3>1. /\ start' \in [Slots -> Addrs \cup {NoAddr}]
          /\ handle' \in [Slots -> Bufs \cup {NoBuf}]
          /\ ref' \in [Slots -> Int]
      BY <1>1 DEF Unload
    <3>2. TypeOK /\ live' \subseteq live /\ loaded' = FALSE
          /\ UNCHANGED <<vmas, pc, arg, idx, got, ret, lost>>
      BY <1>1 DEF Unload, IInv
    <3> QED
      BY <3>1, <3>2 DEF TypeOK
  <2>2. Serial' /\ IsFiniteSet(vmas)'
    BY <1>1 DEF Unload, IInv, Serial
  <2>3. ASSUME NEW s \in Slots PROVE ref'[s] = Cardinality(On(s)')
    <3>1. On(s)' = {} /\ ref'[s] = 0
      BY <1>1 DEF Unload, On
    <3> QED
      BY <3>1, FS_EmptySet
  <2>4. VmaInv'
    BY <1>1 DEF Unload, VmaInv, SlotDescribesItsVmas, MappedIsAllocated, NoAliasing
  <2>5. \A q \in Procs : LocalInv(q)'
    BY <1>1 DEF Unload, LocalInv
  <2> QED
    BY <2>1, <2>2, <2>3, <2>4, <2>5 DEF IInv, RefCounts
<1>2. CASE Load \/ UNCHANGED vars
  <2>1. /\ UNCHANGED <<start, handle, ref, live, vmas, pc, arg, idx, got, ret,
                      lost>>
        /\ loaded' \in BOOLEAN
    BY <1>2 DEF Load, vars, table, IInv, TypeOK
  <2>2. TypeOK' /\ Serial' /\ IsFiniteSet(vmas)'
    BY <2>1 DEF IInv, TypeOK, Serial
  <2>3. RefCounts'
    BY <2>1 DEF IInv, RefCounts, On
  <2>4. VmaInv'
    BY <2>1 DEF IInv, VmaInv, SlotDescribesItsVmas, MappedIsAllocated, NoAliasing
  <2>5. \A q \in Procs : LocalInv(q)'
    BY <2>1 DEF IInv, LocalInv
  <2> QED
    BY <2>2, <2>3, <2>4, <2>5 DEF IInv
<1> QED
  BY <1>1, <1>2

LEMMA NextIInv == IInv /\ [SerialNext]_vars => IInv'
<1> SUFFICES ASSUME IInv, [SerialNext]_vars PROVE IInv'
  OBVIOUS
<1>1. CASE UNCHANGED vars
  BY <1>1, ModuleSteps
<1>2. CASE SerialNext
  <2>1. Serial' /\ Next
    BY <1>2 DEF SerialNext
  <2>2. CASE \E p \in Procs : Start(p) \/ Continue(p)
    <3>1. PICK p \in Procs : Start(p) \/ Continue(p)
      BY <2>2
    <3> QED
      BY <2>1, <3>1, QuietSteps, AllocStep, FillStartStep, FillRestStep,
         ReleaseSteps, SplitStep, ForkStep, MunmapStep
         DEF Start, Continue, Mapping
  <2>3. CASE Unload \/ Load
    BY <2>3, ModuleSteps
  <2> QED
    BY <2>1, <2>2, <2>3 DEF Next
<1> QED
  BY <1>1, <1>2

----------------------------------------------------------------------------
(* The theorems *)

THEOREM Invariance == SerialSpec => []IInv
<1> QED
  BY InitIInv, NextIInv, PTL DEF SerialSpec

\* Every variable of the driver's table keeps its type.
THEOREM TypeCorrect == SerialSpec => []TypeOK
<1>1. IInv => TypeOK
  BY DEF IInv
<1> QED
  BY <1>1, Invariance, PTL

\* The count of a slot is the number of VMAs on it, whatever the order of
\* mmap, fork, split, munmap and exit, and whatever fails.
THEOREM RefCountsCorrect == SerialSpec => []RefCounts
<1>1. IInv => RefCounts
  BY DEF IInv
<1> QED
  BY <1>1, Invariance, PTL

\* Memory that a process maps is allocated: no step of another process gives
\* it back while a mapping of it exists.
THEOREM MappedMemoryIsSafe == SerialSpec => []MappedIsAllocated
<1>1. IInv => MappedIsAllocated
  BY DEF IInv, VmaInv
<1> QED
  BY <1>1, Invariance, PTL

\* Mappings of one buffer are all on one slot: separate mmap() calls never
\* share a buffer.
THEOREM MappingsAreSeparate == SerialSpec => []NoAliasing
<1>1. IInv => NoAliasing
  BY DEF IInv, VmaInv
<1> QED
  BY <1>1, Invariance, PTL

\* The slot of a mapping goes on describing it until the mapping is closed.
THEOREM SlotsStayTrue == SerialSpec => []SlotDescribesItsVmas
<1>1. IInv => SlotDescribesItsVmas
  BY DEF IInv, VmaInv
<1> QED
  BY <1>1, Invariance, PTL

=============================================================================
