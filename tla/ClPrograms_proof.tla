-------------------------- MODULE ClPrograms_proof --------------------------
(***************************************************************************)
(* Proofs about ClPrograms: for any objects, variables, vectors and        *)
(* threads, the counts of the runtime fit the handles that the program     *)
(* holds, no handle is left without its object in a program without        *)
(* cl::vector, and with it none but to objects of the kinds its elements   *)
(* have, and the diagnostic program gives back what it has created.        *)
(***************************************************************************)
EXTENDS ClPrograms, FiniteSetTheorems, TLAPS

\* How far the chains of needs below an object go.
Rank(obj, o) ==
    LET k == obj[o].kind IN
    IF k \in {"none", "device", "context"} THEN 0
    ELSE IF k = "event" THEN 3
    ELSE IF \/ k = "kernel"
            \/ k = "buffer" /\ \E n \in obj[o].needs : obj[n].kind = "buffer"
         THEN 2
    ELSE 1

\* What objects need is there and ranks lower; arguments can be passed.
Shape(obj) ==
    /\ \A d \in Devices : obj[d].kind = "device"
    /\ \A o \in Objects : \A n \in obj[o].needs :
           Rank(obj, n) < Rank(obj, o) /\ obj[n].kind # "none"
    /\ \A o \in Objects : \A i \in Indexes :
           obj[o].args[i] # Null => obj[obj[o].args[i]].kind \in Passable

\* The counts r fit the handles in w.
Sound(obj, r, w) ==
    /\ \A h \in Holders : w[h] # Null => obj[w[h]].kind # "none"
    /\ \A o \in Objects : r.own[o] > 0 => obj[o].kind # "none"
    /\ \A d \in Devices : r.own[d] = 0
    /\ \A o \in Objects \ Devices :
           /\ r.own[o] = HeldIn(w, Holders)[o] + r.surplus[o]
           /\ r.surplus[o] < 0 => obj[o].kind \in VectorKinds

ElementsInv ==
    \A c \in Elements : wrapper[c] # Null => KindOf(c) \in VectorKinds

FunctorInv ==
    \A t \in Threads :
        /\ KernelOf(t) = Null <=> QueueOf(t) = Null
        /\ KernelOf(t) # Null => /\ object[KernelOf(t)].kind = "kernel"
                                 /\ object[QueueOf(t)].kind = "queue"

\* What a functor knows in its call: its arguments are there.
CallInv(t) ==
    call[t].at # 0 =>
        /\ KernelOf(t) # Null
        /\ \A i \in Indexes :
               LET x == call[t].args[i]
               IN  x \in Vars /\ wrapper[x] # Null /\ KindOf(x) \in Passable

\* The handles the diagnostic program has at each stage.
Has ==
    CASE stage = "queue" -> {"context"}
      [] stage = "buffer" -> {"context", "queue"}
      [] stage \in {"write", "read", "compare"} -> {"context", "queue", "in1"}
      [] OTHER -> {}

DiagnosticInv ==
    stage # "off" =>
        /\ running = {}
        /\ \A h \in Holders : wrapper[h] # Null =>
               \E name \in Has : h = Static(name)
        /\ \A name \in Has : /\ wrapper[Static(name)] # Null
                             /\ KindOf(Static(name)) =
                                    IF name = "in1" THEN "buffer" ELSE name
        /\ \A o \in Objects \ Devices : refs.surplus[o] # 0 =>
               stage = "failed" /\ object[o].kind = "buffer"

Core == HandlesTypeOK /\ Shape(object) /\ Sound(object, refs, wrapper)

IInv ==
    /\ TypeOK
    /\ Core
    /\ ElementsInv
    /\ FunctorInv
    /\ \A t \in Threads : CallInv(t)
    /\ DiagnosticInv

----------------------------------------------------------------------------
(* What lives                                                              *)

Object == [kind : Kinds \cup {"none"}, needs : SUBSET Objects,
           args : [Indexes -> Objects \cup {Null}]]
Table == [Objects -> Object]
Counts == [own : [Objects -> Nat], surplus : [Objects -> Int]]
Places == [Holders -> Objects \cup {Null}]

LEMMA Typed ==
    HandlesTypeOK <=> /\ object \in Table /\ refs \in Counts
                      /\ running \subseteq Objects /\ wrapper \in Places
                      /\ size \in [Vectors -> 0 .. N]
BY DEF HandlesTypeOK, RuntimeTypeOK, Object, Table, Counts, Places

Roots(own, run) == {o \in Objects : own[o] > 0} \cup run \cup Devices
With(obj, s) == s \cup UNION {obj[o].needs : o \in s}

LEMMA LivingIsWith ==
    ASSUME NEW obj, NEW own, NEW run
    PROVE  Living(obj, own, run) =
               With(obj, With(obj, With(obj, Roots(own, run))))
BY DEF Living, With, Roots

LEMMA LivingTyped ==
    ASSUME NEW obj \in Table, NEW own, NEW run \in SUBSET Objects
    PROVE  /\ Living(obj, own, run) \subseteq Objects
           /\ Roots(own, run) \subseteq Living(obj, own, run)
<1>1. Roots(own, run) \subseteq Objects
  BY RuntimeAssumption DEF Roots
<1>2. ASSUME NEW s \in SUBSET Objects
      PROVE  With(obj, s) \subseteq Objects /\ s \subseteq With(obj, s)
  BY DEF With, Table, Object
<1> QED
  BY <1>1, <1>2, LivingIsWith

LEMMA RankType == ASSUME NEW obj, NEW o PROVE Rank(obj, o) \in 0 .. 3
BY DEF Rank

\* No chain is longer than what Living follows.
LEMMA LivingClosed ==
    ASSUME NEW obj \in Table, NEW own, NEW run \in SUBSET Objects, Shape(obj),
           NEW o \in Living(obj, own, run)
    PROVE  obj[o].needs \subseteq Living(obj, own, run)
<1> DEFINE R == Roots(own, run)
           S1 == With(obj, R)
           S2 == With(obj, S1)
           S3 == With(obj, S2)
<1>1. R \subseteq Objects
  BY RuntimeAssumption DEF Roots
<1>2. S1 \subseteq Objects /\ S2 \subseteq Objects /\ S3 \subseteq Objects
  BY <1>1 DEF With, Table, Object
<1>3. S3 = Living(obj, own, run)
  BY LivingIsWith
<1>4. \A p \in Objects : \A n \in obj[p].needs :
          n \in Objects /\ Rank(obj, n) < Rank(obj, p)
  BY DEF Shape, Table, Object
<1>5. CASE o \in S2
  BY <1>3, <1>5 DEF With
<1>6. CASE o \notin S2
  <2>1. PICK p \in S2 : o \in obj[p].needs
    BY <1>3, <1>6 DEF With
  <2>2. PICK q \in S1 : p \in obj[q].needs
    <3>1. p \notin S1
      BY <1>6, <2>1 DEF With
    <3> QED
      BY <2>1, <3>1 DEF With
  <2>3. PICK s \in R : q \in obj[s].needs
    <3>1. q \notin R
      BY <1>6, <2>1, <2>2 DEF With
    <3> QED
      BY <2>2, <3>1 DEF With
  <2>4. /\ Rank(obj, q) < Rank(obj, s) /\ Rank(obj, p) < Rank(obj, q)
        /\ Rank(obj, o) < Rank(obj, p) /\ o \in Objects
    BY <1>1, <1>2, <1>4, <2>1, <2>2, <2>3
  <2>5. Rank(obj, o) = 0
    <3>1. /\ Rank(obj, s) \in 0 .. 3 /\ Rank(obj, q) \in 0 .. 3
          /\ Rank(obj, p) \in 0 .. 3 /\ Rank(obj, o) \in 0 .. 3
      BY RankType
    <3> HIDE DEF R, S1, S2, S3
    <3> QED
      BY <2>4, <3>1
  <2>6. \A n \in obj[o].needs : Rank(obj, n) < 0 /\ Rank(obj, n) \in 0 .. 3
    BY <1>4, <2>4, <2>5, RankType
  <2> QED
    BY <2>6
<1> QED
  BY <1>5, <1>6

LEMMA LivingLeast ==
    ASSUME NEW obj, NEW own, NEW run, NEW s, Roots(own, run) \subseteq s,
           \A o \in s : obj[o].needs \subseteq s
    PROVE  Living(obj, own, run) \subseteq s
<1>1. ASSUME NEW u \in SUBSET s PROVE With(obj, u) \subseteq s
  BY DEF With
<1> QED
  BY <1>1, LivingIsWith

----------------------------------------------------------------------------
(* Where handles are                                                       *)

LEMMA PlacesDiffer ==
    /\ \A x \in Vars : x \in Holders /\ x \notin Elements \cup Functors \cup Statics
    /\ \A v \in Vectors : Cells(v) \subseteq Elements
    /\ \A t \in Threads : /\ Functor(t) = {<<t, "kernel">>, <<t, "queue">>}
                          /\ Functor(t) \subseteq Functors
    /\ Elements \cap Functors = {}
    /\ Statics \cap (Elements \cup Functors) = {}
    /\ Statics = {Static("context"), Static("queue"), Static("in1")}
<1>1. /\ \A t \in Threads : Functor(t) = {<<t, "kernel">>, <<t, "queue">>}
      /\ Statics = {Static("context"), Static("queue"), Static("in1")}
  BY DEF Functor, Statics, Static
<1>2. Elements \cap Functors = {}
  BY PlacesAssumption DEF Elements, Functors, Cells, Functor
<1>3. Statics \cap (Elements \cup Functors) = {}
  BY PlacesAssumption DEF Elements, Functors, Cells, Functor, Statics
<1> QED
  BY <1>1, <1>2, <1>3, PlacesAssumption DEF Holders, Elements, Functors

LEMMA HoldersFinite == IsFiniteSet(Holders)
<1>1. IsFiniteSet(0 .. N - 1)
  BY FS_Interval, PlacesAssumption
<1>2. Elements = Vectors \X (0 .. N - 1)
  BY DEF Elements, Cells
<1>3. IsFiniteSet(Elements)
  BY <1>1, <1>2, FS_Product, PlacesAssumption
<1>4. IsFiniteSet({"kernel", "queue"}) /\ IsFiniteSet({"context", "queue", "in1"})
  <2>1. IsFiniteSet({"queue"})
    BY FS_Singleton
  <2>2. IsFiniteSet({"queue"} \cup {"kernel"}) /\ IsFiniteSet({"queue"} \cup {"in1"})
    BY <2>1, FS_AddElement
  <2>3. IsFiniteSet(({"queue"} \cup {"in1"}) \cup {"context"})
    BY <2>2, FS_AddElement
  <2>4. /\ {"queue"} \cup {"kernel"} = {"kernel", "queue"}
        /\ ({"queue"} \cup {"in1"}) \cup {"context"} = {"context", "queue", "in1"}
    OBVIOUS
  <2> QED
    BY <2>2, <2>3, <2>4
<1>5. Functors = Threads \X {"kernel", "queue"}
  BY DEF Functors, Functor
<1>6. IsFiniteSet(Functors)
  BY <1>4, <1>5, FS_Product, PlacesAssumption
<1>7. IsFiniteSet({"diag"})
  BY FS_Singleton
<1>8. IsFiniteSet(Statics)
  BY <1>4, <1>7, FS_Product DEF Statics
<1>9. IsFiniteSet(Vars \cup Elements)
  BY <1>3, FS_Union, PlacesAssumption
<1>10. IsFiniteSet((Vars \cup Elements) \cup Functors)
  BY <1>6, <1>9, FS_Union
<1> QED
  BY <1>8, <1>10, FS_Union DEF Holders

\* The places in s take the values new.
Placed(w, s, new) == [h \in Holders |-> IF h \in s THEN new[h] ELSE w[h]]

LEMMA HeldInType ==
    ASSUME NEW w, NEW s \in SUBSET Holders, NEW o \in Objects
    PROVE  HeldIn(w, s)[o] \in Nat
<1>1. IsFiniteSet(s)
  BY HoldersFinite, FS_Subset
<1>2. IsFiniteSet({h \in s : w[h] = o})
  BY <1>1, FS_Subset
<1> QED
  BY <1>2, FS_CardinalityType DEF HeldIn

\* What the places s gave up and what they got makes up the count of o.
Exchanged(w, s, new, o) ==
    HeldIn(Placed(w, s, new), Holders)[o] =
        HeldIn(w, Holders)[o] - HeldIn(w, s)[o] + HeldIn(new, s)[o]

LEMMA HeldInPlaced ==
    ASSUME NEW w, NEW s \in SUBSET Holders, NEW new, NEW o \in Objects
    PROVE  Exchanged(w, s, new, o)
<1> DEFINE Rest == {h \in Holders \ s : w[h] = o}
           Old == {h \in s : w[h] = o}
           New1 == {h \in s : new[h] = o}
<1>1. IsFiniteSet(Holders) /\ IsFiniteSet(s) /\ IsFiniteSet(Holders \ s)
  BY HoldersFinite, FS_Subset
<1>2. IsFiniteSet(Rest) /\ IsFiniteSet(Old) /\ IsFiniteSet(New1)
  BY <1>1, FS_Subset
<1>3. {h \in Holders : w[h] = o} = Rest \cup Old
  OBVIOUS
<1>4. {h \in Holders : Placed(w, s, new)[h] = o} = Rest \cup New1
  BY DEF Placed
<1>5. Rest \cap Old = {} /\ Rest \cap New1 = {} /\ Cardinality({}) = 0
  BY FS_EmptySet
<1>6. /\ Cardinality(Rest) \in Nat /\ Cardinality(Old) \in Nat
      /\ Cardinality(New1) \in Nat
  BY <1>2, FS_CardinalityType
<1>7. Cardinality(Rest \cup Old) = Cardinality(Rest) + Cardinality(Old)
  <2>1. Cardinality(Rest \cup Old) =
            Cardinality(Rest) + Cardinality(Old) - Cardinality(Rest \cap Old)
    BY <1>2, FS_Union
  <2> QED
    BY <1>5, <1>6, <2>1
<1>8. Cardinality(Rest \cup New1) = Cardinality(Rest) + Cardinality(New1)
  <2>1. Cardinality(Rest \cup New1) =
            Cardinality(Rest) + Cardinality(New1) - Cardinality(Rest \cap New1)
    BY <1>2, FS_Union
  <2> QED
    BY <1>5, <1>6, <2>1
<1>9. /\ HeldIn(w, Holders)[o] = Cardinality(Rest \cup Old)
      /\ HeldIn(w, s)[o] = Cardinality(Old)
      /\ HeldIn(new, s)[o] = Cardinality(New1)
      /\ HeldIn(Placed(w, s, new), Holders)[o] = Cardinality(Rest \cup New1)
  BY <1>3, <1>4 DEF HeldIn
<1> HIDE DEF Rest, Old, New1
<1>10. PICK kept \in Nat, old \in Nat, came \in Nat :
           /\ kept = Cardinality(Rest) /\ old = Cardinality(Old)
           /\ came = Cardinality(New1)
  BY ONLY <1>6
<1>11. /\ HeldIn(w, Holders)[o] = kept + old /\ HeldIn(w, s)[o] = old
       /\ HeldIn(new, s)[o] = came
       /\ HeldIn(Placed(w, s, new), Holders)[o] = kept + came
  BY ONLY <1>7, <1>8, <1>9, <1>10
<1>12. kept + came = (kept + old) - old + came
  OBVIOUS
<1> QED
  BY ONLY <1>11, <1>12 DEF Exchanged

\* A set of one place.
Only(s, h) == s = {h}

LEMMA HeldInOne ==
    ASSUME NEW w, NEW s, NEW h, Only(s, h), NEW o \in Objects
    PROVE  HeldIn(w, s)[o] = IF w[h] = o THEN 1 ELSE 0
<1>1. {x \in s : w[x] = o} = IF w[h] = o THEN {h} ELSE {}
  BY DEF Only
<1> QED
  BY <1>1, FS_Singleton, FS_EmptySet DEF HeldIn

LEMMA HeldInNone ==
    ASSUME NEW w, NEW s, NEW o \in Objects, \A h \in s : w[h] # o
    PROVE  HeldIn(w, s)[o] = 0
<1>1. {h \in s : w[h] = o} = {}
  OBVIOUS
<1> QED
  BY <1>1, FS_EmptySet DEF HeldIn

LEMMA HeldInSome ==
    ASSUME NEW w, NEW s \in SUBSET Holders, NEW h \in s, w[h] \in Objects
    PROVE  HeldIn(w, s)[w[h]] > 0
<1> DEFINE S == {x \in s : w[x] = w[h]}
<1>1. IsFiniteSet(s)
  BY HoldersFinite, FS_Subset
<1>2. IsFiniteSet(S)
  BY <1>1, FS_Subset
<1>3. Cardinality(S) # 0 /\ Cardinality(S) \in Nat
  BY <1>2, FS_EmptySet, FS_CardinalityType
<1>4. HeldIn(w, s)[w[h]] = Cardinality(S)
  BY DEF HeldIn
<1> HIDE DEF S
<1> QED
  BY <1>3, <1>4

----------------------------------------------------------------------------
(* The counts                                                              *)

LEMMA PlacedType ==
    ASSUME NEW w \in Places, NEW s, NEW new,
           \A h \in s : new[h] \in Objects \cup {Null}
    PROVE  Placed(w, s, new) \in Places
BY DEF Placed, Places

\* The counts of each object change by the handles that come and go.
LEMMA SoundChange ==
    ASSUME NEW obj, NEW r \in Counts, NEW r2 \in Counts, NEW w,
           NEW s \in SUBSET Holders, NEW new, Sound(obj, r, w),
           \A h \in s : new[h] # Null => obj[new[h]].kind # "none",
           \A o \in Objects : r2.own[o] > 0 => obj[o].kind # "none",
           \A d \in Devices : r2.own[d] = 0,
           \A o \in Objects \ Devices :
               /\ r2.own[o] - r2.surplus[o] = r.own[o] - r.surplus[o]
                      - HeldIn(w, s)[o] + HeldIn(new, s)[o]
               /\ r2.surplus[o] < 0 => obj[o].kind \in VectorKinds
    PROVE  Sound(obj, r2, Placed(w, s, new))
<1> DEFINE w2 == Placed(w, s, new)
<1>1. \A h \in Holders : w2[h] # Null => obj[w2[h]].kind # "none"
  BY DEF Sound, Placed
<1>2. ASSUME NEW o \in Objects \ Devices
      PROVE  r2.own[o] = HeldIn(w2, Holders)[o] + r2.surplus[o]
  <2>1. /\ r.own[o] \in Nat /\ r.surplus[o] \in Int
        /\ r2.own[o] \in Nat /\ r2.surplus[o] \in Int
    BY DEF Counts
  <2>2. /\ HeldIn(w, s)[o] \in Nat /\ HeldIn(new, s)[o] \in Nat
        /\ HeldIn(w, Holders)[o] \in Nat
    BY HeldInType
  <2>3. HeldIn(w2, Holders)[o] =
            HeldIn(w, Holders)[o] - HeldIn(w, s)[o] + HeldIn(new, s)[o]
    <3>1. o \in Objects
      OBVIOUS
    <3>2. Exchanged(w, s, new, o)
      BY ONLY s \in SUBSET Holders, <3>1, HeldInPlaced
    <3> QED
      BY ONLY <3>2 DEF Exchanged
  <2>4. r.own[o] = HeldIn(w, Holders)[o] + r.surplus[o]
    BY DEF Sound
  <2> HIDE DEF w2
  <2> QED
    BY <2>1, <2>2, <2>3, <2>4
<1> QED
  BY <1>1, <1>2 DEF Sound

\* What a place is left with when its handle is given up.
Emptied(w, s) == Placed(w, s, [h \in s |-> Null])

LEMMA EmptiedHolds ==
    ASSUME NEW s \in SUBSET Holders, NEW o \in Objects
    PROVE  HeldIn([h \in s |-> Null], s)[o] = 0
BY HeldInNone, RuntimeAssumption

LEMMA ReleasedType ==
    ASSUME NEW r \in Counts, NEW w, NEW s \in SUBSET Holders
    PROVE  Released(r, HeldIn(w, s)) \in Counts
<1>1. \A o \in Objects : HeldIn(w, s)[o] \in Nat
  BY HeldInType
<1> QED
  BY <1>1 DEF Released, Counts

LEMMA ReleasedSound ==
    ASSUME NEW obj, NEW r \in Counts, NEW w, NEW s \in SUBSET Holders,
           Sound(obj, r, w)
    PROVE  Sound(obj, Released(r, HeldIn(w, s)), Emptied(w, s))
<1> DEFINE n == HeldIn(w, s)
           r2 == Released(r, n)
           new == [h \in s |-> Null]
<1>1. \A o \in Objects : n[o] \in Nat
  BY HeldInType
<1>2. r2 \in Counts
  BY ReleasedType
<1>3. ASSUME NEW o \in Objects
      PROVE  /\ r2.own[o] > 0 => r.own[o] > 0
             /\ o \in Devices => r2.own[o] = 0
             /\ o \notin Devices =>
                    /\ r2.own[o] - r2.surplus[o] = r.own[o] - r.surplus[o] - n[o]
                    /\ r2.surplus[o] < 0 => r.surplus[o] < 0
  <2>1. r.own[o] \in Nat /\ r.surplus[o] \in Int /\ n[o] \in Nat
    BY <1>1 DEF Counts
  <2>2. /\ r2.own[o] = IF ~Counted(o) THEN 0
                       ELSE IF r.own[o] >= n[o] THEN r.own[o] - n[o] ELSE 0
        /\ r2.surplus[o] = IF Counted(o) /\ r.own[o] < n[o]
                           THEN r.surplus[o] + n[o] - r.own[o] ELSE r.surplus[o]
    BY DEF Released
  <2> HIDE DEF r2, n
  <2> QED
    BY <2>1, <2>2 DEF Counted
<1>4. /\ \A o \in Objects : HeldIn(new, s)[o] = 0
      /\ \A h \in s : new[h] = Null
      /\ Emptied(w, s) = Placed(w, s, new)
  BY EmptiedHolds DEF Emptied
<1> HIDE DEF new
<1>5. \A o \in Objects \ Devices :
          /\ r2.own[o] - r2.surplus[o] = r.own[o] - r.surplus[o]
                 - HeldIn(w, s)[o] + HeldIn(new, s)[o]
          /\ r2.surplus[o] < 0 => obj[o].kind \in VectorKinds
  <2> SUFFICES ASSUME NEW o \in Objects \ Devices
               PROVE  /\ r2.own[o] - r2.surplus[o] = r.own[o] - r.surplus[o]
                             - n[o] + HeldIn(new, s)[o]
                      /\ r2.surplus[o] < 0 => obj[o].kind \in VectorKinds
    OBVIOUS
  <2>1. r.own[o] \in Nat /\ r.surplus[o] \in Int /\ n[o] \in Nat
    BY <1>1 DEF Counts
  <2>2. r.surplus[o] < 0 => obj[o].kind \in VectorKinds
    BY DEF Sound
  <2> HIDE DEF r2, n
  <2> QED
    BY <1>3, <1>4, <2>1, <2>2
<1>6. /\ \A o \in Objects : r2.own[o] > 0 => obj[o].kind # "none"
      /\ \A d \in Devices : r2.own[d] = 0
  BY <1>3, RuntimeAssumption DEF Sound
<1>7. Sound(obj, r2, Placed(w, s, new))
  <2> HIDE DEF r2
  <2> QED
    BY <1>2, <1>4, <1>5, <1>6, SoundChange
<1> QED
  BY <1>4, <1>7

\* A handle is put into an empty place.
Put1At(w, h, o) == Placed(w, {h}, [x \in {h} |-> o])

LEMMA RetainedType ==
    ASSUME NEW r \in Counts, NEW o \in Objects \cup {Null}
    PROVE  Retained(r, o) \in Counts
BY DEF Retained, Counts

LEMMA RetainedSound ==
    ASSUME NEW r \in Counts, NEW w, NEW h \in Holders, w[h] = Null,
           NEW o \in Objects \cup {Null}, Sound(object, r, w),
           o # Null => object[o].kind # "none",
           \/ o \in {Null} \cup Devices \cup Living(object, r.own, running)
           \/ \E x \in Holders : w[x] = o
    PROVE  Sound(object, Retained(r, o), Put1At(w, h, o))
<1> DEFINE r2 == Retained(r, o)
           s == {h}
           new == [x \in s |-> o]
<1>0. /\ s \in SUBSET Holders /\ new[h] = o
      /\ Put1At(w, h, o) = Placed(w, s, new)
  BY DEF Put1At
<1>a. h \in s /\ (\A x \in s : x = h) /\ Only(s, h)
  BY DEF Only
<1> HIDE DEF new, s
<1>1. r2 \in Counts
  BY RetainedType
<1>2. ASSUME NEW q \in Objects
      PROVE  /\ HeldIn(w, s)[q] = 0
             /\ HeldIn(new, s)[q] = IF o = q THEN 1 ELSE 0
  <2>1. HeldIn(w, s)[q] = 0
    <3>1. \A x \in s : w[x] # q
      BY <1>a, RuntimeAssumption
    <3> QED
      BY <3>1, HeldInNone
  <2>2. HeldIn(new, s)[q] = IF new[h] = q THEN 1 ELSE 0
    BY <1>a, HeldInOne
  <2> QED
    BY <1>0, <2>1, <2>2
<1>3. o \in Objects /\ r.own[o] = 0 /\ o \notin Devices
          /\ (\E x \in Holders : w[x] = o) => object[o].kind \in VectorKinds
  <2> SUFFICES ASSUME o \in Objects \ Devices, r.own[o] = 0,
                      NEW x \in Holders, w[x] = o
               PROVE  object[o].kind \in VectorKinds
    OBVIOUS
  <2>1. HeldIn(w, Holders)[o] > 0 /\ HeldIn(w, Holders)[o] \in Nat
    BY HeldInSome, HeldInType
  <2>2. r.own[o] = HeldIn(w, Holders)[o] + r.surplus[o] /\ r.surplus[o] \in Int
    BY DEF Sound, Counts
  <2> QED
    BY <2>1, <2>2 DEF Sound
<1>4. ASSUME NEW q \in Objects
      PROVE  /\ r2.own[q] > 0 => object[q].kind # "none"
             /\ q \in Devices => r2.own[q] = 0
             /\ q \notin Devices =>
                    /\ r2.own[q] - r2.surplus[q] =
                           r.own[q] - r.surplus[q] + (IF o = q THEN 1 ELSE 0)
                    /\ r2.surplus[q] < 0 => object[q].kind \in VectorKinds
  <2>1. /\ r.own[q] \in Nat /\ r.surplus[q] \in Int
        /\ r.own[q] > 0 => object[q].kind # "none"
        /\ q \in Devices => r.own[q] = 0
        /\ q \notin Devices /\ r.surplus[q] < 0 => object[q].kind \in VectorKinds
    BY DEF Counts, Sound
  <2>2. CASE q # o \/ o = Null \/ ~Counted(o)
    <3>1. r2.own[q] = r.own[q] /\ r2.surplus[q] = r.surplus[q]
      BY <2>2 DEF Retained, Counts
    <3>2. q = o => q \in Devices
      BY <2>2, RuntimeAssumption DEF Counted
    <3> HIDE DEF r2
    <3> QED
      BY <2>1, <3>1, <3>2
  <2>3. CASE q = o /\ Counted(o) /\ o \in Living(object, r.own, running)
    <3>1. r2.own[q] = r.own[q] + 1 /\ r2.surplus[q] = r.surplus[q]
      BY <2>3, RuntimeAssumption DEF Retained, Counts
    <3> HIDE DEF r2
    <3> QED
      BY <2>1, <2>3, <3>1, RuntimeAssumption DEF Counted
  <2>4. CASE q = o /\ Counted(o) /\ o \notin Living(object, r.own, running)
    <3>1. r2.own[q] = r.own[q] /\ r2.surplus[q] = r.surplus[q] - 1
      BY <2>4, RuntimeAssumption DEF Retained, Counts
    <3>2. r.own[o] = 0
      <4>1. o \notin Roots(r.own, running)
        BY <2>4, LivingIsWith DEF With
      <4> QED
        BY <2>1, <2>4, <4>1 DEF Roots
    <3>3. \E x \in Holders : w[x] = o
      BY <2>4, RuntimeAssumption DEF Counted
    <3>4. object[o].kind \in VectorKinds
      BY <1>3, <2>4, <3>2, <3>3 DEF Counted
    <3> HIDE DEF r2
    <3> QED
      BY <2>1, <2>4, <3>1, <3>4 DEF Counted
  <2> QED
    BY <2>2, <2>3, <2>4
<1>5. \A q \in Objects \ Devices :
          /\ r2.own[q] - r2.surplus[q] = r.own[q] - r.surplus[q]
                 - HeldIn(w, s)[q] + HeldIn(new, s)[q]
          /\ r2.surplus[q] < 0 => object[q].kind \in VectorKinds
  <2> SUFFICES ASSUME NEW q \in Objects \ Devices
               PROVE  /\ r2.own[q] - r2.surplus[q] = r.own[q] - r.surplus[q]
                             - HeldIn(w, s)[q] + HeldIn(new, s)[q]
                      /\ r2.surplus[q] < 0 => object[q].kind \in VectorKinds
    OBVIOUS
  <2>1. r.own[q] \in Nat /\ r.surplus[q] \in Int
    BY DEF Counts
  <2> HIDE DEF r2, new
  <2> QED
    BY <1>2, <1>4, <2>1
<1>6. /\ \A q \in Objects : r2.own[q] > 0 => object[q].kind # "none"
      /\ \A d \in Devices : r2.own[d] = 0
  BY <1>4, RuntimeAssumption
<1>7. \A x \in s : new[x] # Null => object[new[x]].kind # "none"
  BY <1>0, <1>a
<1>8. Sound(object, r2, Placed(w, s, new))
  <2> HIDE DEF r2
  <2> QED
    BY <1>0, <1>1, <1>5, <1>6, <1>7, SoundChange
<1> QED
  BY <1>0, <1>8

LEMMA LostType ==
    ASSUME NEW r \in Counts, NEW o \in Objects \cup {Null}
    PROVE  Lost(r, o) \in Counts
BY DEF Lost, Counts

LEMMA LostSound ==
    ASSUME NEW obj, NEW r \in Counts, NEW w \in Places, NEW h \in Holders,
           Sound(obj, r, w)
    PROVE  Sound(obj, Lost(r, w[h]), Emptied(w, {h}))
<1> DEFINE r2 == Lost(r, w[h])
           s == {h}
           new == [x \in s |-> Null]
<1>0. /\ s \in SUBSET Holders /\ new[h] = Null
      /\ Emptied(w, {h}) = Placed(w, s, new)
  BY DEF Emptied
<1>a. h \in s /\ (\A x \in s : x = h) /\ Only(s, h)
  BY DEF Only
<1> HIDE DEF new, s
<1>1. r2 \in Counts /\ w[h] \in Objects \cup {Null}
  BY LostType DEF Places
<1>2. ASSUME NEW q \in Objects
      PROVE  /\ HeldIn(w, s)[q] = IF w[h] = q THEN 1 ELSE 0
             /\ HeldIn(new, s)[q] = 0
  <2>1. HeldIn(w, s)[q] = IF w[h] = q THEN 1 ELSE 0
    BY <1>a, HeldInOne
  <2>2. HeldIn(new, s)[q] = IF new[h] = q THEN 1 ELSE 0
    BY <1>a, HeldInOne
  <2> QED
    BY <1>0, <2>1, <2>2, RuntimeAssumption
<1>3. ASSUME NEW q \in Objects
      PROVE  /\ r2.own[q] = r.own[q]
             /\ q \notin Devices =>
                    r2.surplus[q] = r.surplus[q] + (IF w[h] = q THEN 1 ELSE 0)
  BY RuntimeAssumption DEF Lost, Counts, Counted
<1>4. \A q \in Objects \ Devices :
          /\ r2.own[q] - r2.surplus[q] = r.own[q] - r.surplus[q]
                 - HeldIn(w, s)[q] + HeldIn(new, s)[q]
          /\ r2.surplus[q] < 0 => obj[q].kind \in VectorKinds
  <2> SUFFICES ASSUME NEW q \in Objects \ Devices
               PROVE  /\ r2.own[q] - r2.surplus[q] = r.own[q] - r.surplus[q]
                             - HeldIn(w, s)[q] + HeldIn(new, s)[q]
                      /\ r2.surplus[q] < 0 => obj[q].kind \in VectorKinds
    OBVIOUS
  <2>1. r.own[q] \in Nat /\ r.surplus[q] \in Int
    BY DEF Counts
  <2>2. r.surplus[q] < 0 => obj[q].kind \in VectorKinds
    BY DEF Sound
  <2> HIDE DEF r2, new
  <2> QED
    BY <1>2, <1>3, <2>1, <2>2
<1>5. /\ \A q \in Objects : r2.own[q] > 0 => obj[q].kind # "none"
      /\ \A d \in Devices : r2.own[d] = 0
  BY <1>3, RuntimeAssumption DEF Sound
<1>6. Sound(obj, r2, Placed(w, s, new))
  <2> HIDE DEF r2
  <2> QED
    BY <1>0, <1>1, <1>a, <1>4, <1>5, SoundChange
<1> QED
  BY <1>0, <1>6

\* Nobody knows an object without a kind.
LEMMA UnknownIsFree ==
    ASSUME NEW obj, NEW r \in Counts, NEW w, Sound(obj, r, w),
           NEW o \in Objects \ Devices, obj[o].kind = "none"
    PROVE  /\ r.own[o] = 0 /\ r.surplus[o] = 0
           /\ \A h \in Holders : w[h] # o
<1>1. r.own[o] = 0
  BY DEF Sound, Counts
<1>2. \A h \in Holders : w[h] # o
  BY RuntimeAssumption DEF Sound
<1>3. HeldIn(w, Holders)[o] = 0
  BY <1>2, HeldInNone
<1>4. r.surplus[o] = 0
  BY <1>1, <1>3 DEF Sound, Counts
<1> QED
  BY <1>1, <1>2, <1>4

LEMMA OwnedType ==
    ASSUME NEW r \in Counts, NEW o \in Objects PROVE Owned(r, o) \in Counts
BY DEF Owned, Counts

LEMMA OwnedSound ==
    ASSUME NEW obj, NEW r \in Counts, NEW w, NEW h \in Holders, w[h] = Null,
           NEW o \in Objects \ Devices, Sound(obj, r, w), r.own[o] = 0,
           obj[o].kind # "none"
    PROVE  Sound(obj, Owned(r, o), Put1At(w, h, o))
<1> DEFINE r2 == Owned(r, o)
           s == {h}
           new == [x \in s |-> o]
<1>0. /\ s \in SUBSET Holders /\ new[h] = o
      /\ Put1At(w, h, o) = Placed(w, s, new)
  BY DEF Put1At
<1>a. h \in s /\ (\A x \in s : x = h) /\ Only(s, h)
  BY DEF Only
<1> HIDE DEF new, s
<1>1. r2 \in Counts
  BY OwnedType
<1>2. ASSUME NEW q \in Objects
      PROVE  /\ HeldIn(w, s)[q] = 0
             /\ HeldIn(new, s)[q] = IF o = q THEN 1 ELSE 0
  <2>1. HeldIn(w, s)[q] = 0
    <3>1. \A x \in s : w[x] # q
      BY <1>a, RuntimeAssumption
    <3> QED
      BY <3>1, HeldInNone
  <2>2. HeldIn(new, s)[q] = IF new[h] = q THEN 1 ELSE 0
    BY <1>a, HeldInOne
  <2> QED
    BY <1>0, <2>1, <2>2
<1>3. ASSUME NEW q \in Objects
      PROVE  /\ r2.own[q] = IF q = o THEN 1 ELSE r.own[q]
             /\ r2.surplus[q] = r.surplus[q]
  BY DEF Owned, Counts
<1>4. \A q \in Objects \ Devices :
          /\ r2.own[q] - r2.surplus[q] = r.own[q] - r.surplus[q]
                 - HeldIn(w, s)[q] + HeldIn(new, s)[q]
          /\ r2.surplus[q] < 0 => obj[q].kind \in VectorKinds
  <2> SUFFICES ASSUME NEW q \in Objects \ Devices
               PROVE  /\ r2.own[q] - r2.surplus[q] = r.own[q] - r.surplus[q]
                             - HeldIn(w, s)[q] + HeldIn(new, s)[q]
                      /\ r2.surplus[q] < 0 => obj[q].kind \in VectorKinds
    OBVIOUS
  <2>1. r.own[q] \in Nat /\ r.surplus[q] \in Int
    BY DEF Counts
  <2>2. r.surplus[q] < 0 => obj[q].kind \in VectorKinds
    BY DEF Sound
  <2> HIDE DEF r2, new
  <2> QED
    BY <1>2, <1>3, <2>1, <2>2
<1>5. /\ \A q \in Objects : r2.own[q] > 0 => obj[q].kind # "none"
      /\ \A d \in Devices : r2.own[d] = 0
  BY <1>3, RuntimeAssumption DEF Sound
<1>6. \A x \in s : new[x] # Null => obj[new[x]].kind # "none"
  BY <1>0, <1>a
<1>7. Sound(obj, r2, Placed(w, s, new))
  <2> HIDE DEF r2
  <2> QED
    BY <1>0, <1>1, <1>4, <1>5, <1>6, SoundChange
<1> QED
  BY <1>0, <1>7

\* Handles and counts stay sound when objects that nobody knows get a kind.
LEMMA SoundKinds ==
    ASSUME NEW obj, NEW obj2, NEW r \in Counts, NEW w \in Places,
           Sound(obj, r, w),
           \A o \in Objects :
               obj[o].kind # "none" => obj2[o].kind = obj[o].kind
    PROVE  Sound(obj2, r, w)
<1>1. \A h \in Holders : w[h] # Null => w[h] \in Objects
  BY DEF Places
<1>2. "none" \notin VectorKinds
  BY PlacesAssumption DEF Kinds
<1> QED
  BY <1>1, <1>2 DEF Sound

----------------------------------------------------------------------------
(* What the runtime keeps                                                  *)

\* The objects that the places w name.
NamedIn(w) == {o \in Objects : \E h \in Holders : w[h] = o}

\* What K, the objects that are kept, has to do with the objects obj.
KeptOf(K, alive, obj, named) ==
    /\ K \in Table
    /\ \A o \in alive : K[o] = obj[o]
    /\ \A o \in Objects \ alive : K[o].needs = {} /\ K[o].args = NoArgs
    /\ \A o \in Objects : K[o].kind \in {obj[o].kind, "none"}
    /\ \A o \in alive \cup (Objects \cap named) : K[o].kind = obj[o].kind
    /\ \A k \in alive : \A i \in Indexes :
           obj[k].args[i] # Null =>
               K[obj[k].args[i]].kind = obj[obj[k].args[i]].kind

LEMMA KeptFacts ==
    ASSUME NEW obj \in Table, NEW alive \in SUBSET Objects, NEW named
    PROVE  KeptOf(Kept(alive, obj, named), alive, obj, named)
<1> DEFINE K == Kept(alive, obj, named)
            Named(o) == \/ o \in named
                       \/ \E k \in alive : \E i \in Indexes : obj[k].args[i] = o
<1>1. ASSUME NEW o \in Objects
      PROVE  /\ o \in alive => K[o] = obj[o]
             /\ o \notin alive => K[o].needs = {} /\ K[o].args = NoArgs
             /\ o \notin alive /\ Named(o) => K[o].kind = obj[o].kind
             /\ K[o].kind \in {obj[o].kind, "none"}
             /\ K[o] \in Object
  <2>1. K[o] = IF o \in alive THEN obj[o]
               ELSE IF Named(o) THEN [NoObject EXCEPT !.kind = obj[o].kind]
               ELSE NoObject
    BY DEF Kept
  <2>2. obj[o] \in Object
    BY DEF Table
  <2>3. /\ NoObject \in Object /\ NoObject.needs = {} /\ NoObject.args = NoArgs
        /\ NoObject.kind = "none"
    BY DEF NoObject, Object, NoArgs
  <2>4. \A k \in Kinds \cup {"none"} :
            /\ [NoObject EXCEPT !.kind = k] \in Object
            /\ [NoObject EXCEPT !.kind = k].kind = k
            /\ [NoObject EXCEPT !.kind = k].needs = {}
            /\ [NoObject EXCEPT !.kind = k].args = NoArgs
    BY <2>3 DEF NoObject, Object
  <2>5. obj[o].kind \in Kinds \cup {"none"}
    BY <2>2 DEF Object
  <2> HIDE DEF K, Named
  <2> QED
    BY <2>1, <2>2, <2>3, <2>4, <2>5
<1>2. K \in Table
  <2>1. K = [o \in Objects |-> K[o]]
    BY DEF Kept
  <2> HIDE DEF K
  <2> QED
    BY <1>1, <2>1 DEF Table
<1>3. ASSUME NEW k \in alive, NEW i \in Indexes, obj[k].args[i] # Null
      PROVE  K[obj[k].args[i]].kind = obj[obj[k].args[i]].kind
  <2>1. obj[k].args[i] \in Objects /\ Named(obj[k].args[i])
    BY <1>3 DEF Table, Object
  <2> HIDE DEF K, Named
  <2> QED
    BY <1>1, <2>1
<1>4. \A o \in alive \cup (Objects \cap named) : K[o].kind = obj[o].kind
  BY <1>1
<1> HIDE DEF K
<1>5. KeptOf(K, alive, obj, named)
  BY <1>1, <1>2, <1>3, <1>4 DEF KeptOf
<1> QED
  BY <1>5 DEF K

LEMMA KeptShape ==
    ASSUME NEW obj \in Table, NEW own, NEW run \in SUBSET Objects, NEW named,
           Shape(obj)
    PROVE  Shape(Kept(Living(obj, own, run), obj, named))
<1> DEFINE alive == Living(obj, own, run)
           K == Kept(alive, obj, named)
<1>1. alive \subseteq Objects /\ Devices \subseteq alive
  BY LivingTyped DEF Roots
<1>3. \A o \in alive : obj[o].needs \subseteq alive
  BY LivingClosed
<1>4. KeptOf(K, alive, obj, named)
  BY <1>1, KeptFacts
<1> HIDE DEF alive, K
<1>2. /\ K \in Table
      /\ \A o \in alive : K[o] = obj[o]
      /\ \A o \in Objects \ alive : K[o].needs = {} /\ K[o].args = NoArgs
      /\ \A k \in alive : \A i \in Indexes : obj[k].args[i] # Null =>
             K[obj[k].args[i]].kind = obj[obj[k].args[i]].kind
  BY <1>4 DEF KeptOf
<1>8. \A o \in alive : Rank(K, o) = Rank(obj, o)
  BY <1>2, <1>3 DEF Rank
<1>5. \A d \in Devices : K[d].kind = "device"
  BY <1>1, <1>2 DEF Shape
<1>6. \A o \in Objects : \A n \in K[o].needs :
          Rank(K, n) < Rank(K, o) /\ K[n].kind # "none"
  BY <1>2, <1>3, <1>8 DEF Shape
<1>7. ASSUME NEW o \in Objects, NEW i \in Indexes, K[o].args[i] # Null
      PROVE  K[K[o].args[i]].kind \in Passable
  <2>1. o \in alive
    BY <1>2, <1>7 DEF NoArgs
  <2> QED
    BY <1>2, <1>7, <2>1 DEF Shape
<1> QED
  BY <1>5, <1>6, <1>7 DEF Shape, alive, K

\* Freeing what is dead leaves alive what was.
LEMMA KeptLiving ==
    ASSUME NEW obj \in Table, NEW own, NEW run \in SUBSET Objects, NEW named
    PROVE  Living(Kept(Living(obj, own, run), obj, named), own, run) =
               Living(obj, own, run)
<1> DEFINE alive == Living(obj, own, run)
           K == Kept(alive, obj, named)
           R == Roots(own, run)
<1>1. alive \subseteq Objects /\ R \subseteq alive
  BY LivingTyped
<1>2. \A o \in alive : K[o] = obj[o]
  <2>1. KeptOf(K, alive, obj, named)
    BY <1>1, KeptFacts
  <2> QED
    BY <2>1 DEF KeptOf
<1>3. \A s \in SUBSET alive : With(K, s) = With(obj, s)
  BY <1>2 DEF With
<1>4. /\ R \subseteq With(obj, R)
      /\ With(obj, R) \subseteq With(obj, With(obj, R))
      /\ With(obj, With(obj, R)) \subseteq With(obj, With(obj, With(obj, R)))
      /\ alive = With(obj, With(obj, With(obj, R)))
  BY LivingIsWith DEF With
<1>5. Living(K, own, run) = With(K, With(K, With(K, R)))
  BY LivingIsWith
<1> HIDE DEF alive, K, R
<1>6. With(K, R) = With(obj, R)
  BY <1>1, <1>3
<1>7. With(K, With(K, R)) = With(obj, With(obj, R))
  BY <1>3, <1>4, <1>6
<1>8. With(K, With(K, With(K, R))) = With(obj, With(obj, With(obj, R)))
  BY <1>3, <1>4, <1>7
<1> QED
  BY <1>4, <1>5, <1>8 DEF alive, K

LEMMA KeptSound ==
    ASSUME NEW obj \in Table, NEW r \in Counts, NEW run \in SUBSET Objects,
           NEW w \in Places, Sound(obj, r, w)
    PROVE  Sound(Kept(Living(obj, r.own, run), obj,
                      NamedIn(w)), r, w)
<1> DEFINE alive == Living(obj, r.own, run)
           named == NamedIn(w)
           K == Kept(alive, obj, named)
<1>1. alive \subseteq Objects /\ \A o \in Objects : r.own[o] > 0 => o \in alive
  BY LivingTyped DEF Roots
<1>2. \A o \in alive \cup (Objects \cap named) : K[o].kind = obj[o].kind
  <2>1. KeptOf(K, alive, obj, named)
    BY <1>1, KeptFacts
  <2> HIDE DEF alive, K, named
  <2> QED
    BY <2>1 DEF KeptOf
<1>3. \A h \in Holders : w[h] # Null => w[h] \in Objects \cap named
  BY DEF Places, NamedIn
<1>4. ASSUME NEW o \in Objects \ Devices, r.surplus[o] < 0
      PROVE  K[o].kind \in VectorKinds
  <2>1. o \in alive \cup (Objects \cap named)
    <3>1. CASE \E h \in Holders : w[h] = o
      BY <3>1 DEF NamedIn
    <3>2. CASE \A h \in Holders : w[h] # o
      <4>1. HeldIn(w, Holders)[o] = 0
        BY <3>2, HeldInNone
      <4>2. r.own[o] = 0 + r.surplus[o] /\ r.own[o] \in Nat
        BY <4>1 DEF Sound, Counts
      <4> QED
        BY <1>4, <4>2 DEF Counts
    <3> QED
      BY <3>1, <3>2
  <2> HIDE DEF K, alive, named
  <2> QED
    BY <1>2, <1>4, <2>1 DEF Sound
<1> HIDE DEF K, alive, named
<1> QED
  BY <1>1, <1>2, <1>3, <1>4 DEF Sound, K, alive, named

----------------------------------------------------------------------------
(* One call of the runtime                                                 *)

\* The places in s take the values new, and the runtime changes to this.
Change(s, new, obj, r, run) ==
    /\ s \in SUBSET Holders /\ \A h \in s : new[h] \in Objects \cup {Null}
    /\ obj \in Table /\ r \in Counts /\ run \in SUBSET Objects
    /\ Shape(obj) /\ Sound(obj, r, Placed(wrapper, s, new))
    /\ Put(s, new, obj, r, run)

\* Objects that are known keep their kinds and get no new needs, and nothing
\* that is dead is made to live again.
Known(o) == object[o].kind # "none"

Follows(obj, r, run) ==
    /\ \A o \in Objects : Known(o) => obj[o].kind = object[o].kind
    /\ \A o \in Objects : obj[o].needs \subseteq object[o].needs \cup Alive
    /\ \A o \in run : Known(o) => o \in Alive
    /\ \A o \in Objects : r.own[o] > 0 /\ Known(o) => o \in Alive

LEMMA PutIsPlaced ==
    ASSUME NEW s, NEW new, NEW obj, NEW r, NEW run, Put(s, new, obj, r, run)
    PROVE  /\ wrapper' = Placed(wrapper, s, new) /\ refs' = r /\ running' = run
           /\ object' = Kept(Living(obj, r.own, run), obj,
                             NamedIn(Placed(wrapper, s, new)))
BY DEF Put, Placed, Update, NamedIn

LEMMA PutCore ==
    ASSUME Core, NEW s, NEW new, NEW obj, NEW r, NEW run,
           Change(s, new, obj, r, run), size' \in [Vectors -> 0 .. N]
    PROVE  Core'
<1> DEFINE w == Placed(wrapper, s, new)
<1>1. /\ s \in SUBSET Holders /\ obj \in Table /\ r \in Counts
      /\ run \in SUBSET Objects /\ Shape(obj) /\ Sound(obj, r, w)
      /\ \A h \in s : new[h] \in Objects \cup {Null}
      /\ wrapper' = w /\ refs' = r /\ running' = run
      /\ object' = Kept(Living(obj, r.own, run), obj, NamedIn(w))
  BY PutIsPlaced DEF Change
<1>2. w \in Places
  BY <1>1, PlacedType, Typed DEF Core
<1>3. Living(obj, r.own, run) \subseteq Objects
  BY <1>1, LivingTyped
<1> HIDE DEF w
<1>4. object' \in Table
  BY <1>1, <1>3, KeptFacts DEF KeptOf
<1>5. Shape(object') /\ Sound(object', refs', wrapper')
  BY <1>1, <1>2, KeptShape, KeptSound
<1>6. HandlesTypeOK'
  BY <1>1, <1>2, <1>4
  DEF HandlesTypeOK, RuntimeTypeOK, Object, Table, Counts, Places
<1> QED
  BY <1>5, <1>6 DEF Core

\* What becomes of the handles, and of what lives.
LEMMA PutHandles ==
    ASSUME Core, NEW s, NEW new, NEW obj, NEW r, NEW run,
           Change(s, new, obj, r, run)
    PROVE  /\ \A h \in Holders : wrapper'[h] = IF h \in s THEN new[h] ELSE wrapper[h]
           /\ \A h \in Holders : wrapper'[h] # Null =>
                  /\ wrapper'[h] \in Objects
                  /\ object'[wrapper'[h]].kind = obj[wrapper'[h]].kind
           /\ \A o \in Objects : object'[o].kind \in {obj[o].kind, "none"}
<1> DEFINE w == Placed(wrapper, s, new)
           named == NamedIn(w)
<1>1. /\ obj \in Table /\ wrapper' = w /\ run \in SUBSET Objects
      /\ object' = Kept(Living(obj, r.own, run), obj, named)
      /\ \A h \in s : new[h] \in Objects \cup {Null}
  BY PutIsPlaced DEF Change
<1>2. Living(obj, r.own, run) \subseteq Objects
  BY <1>1, LivingTyped
<1>3. w \in Places
  BY <1>1, PlacedType, Typed DEF Core
<1>4. \A h \in Holders : w[h] = IF h \in s THEN new[h] ELSE wrapper[h]
  BY DEF Placed
<1>5. \A h \in Holders : w[h] # Null => w[h] \in Objects \cap named
  BY <1>3 DEF Places, NamedIn
<1> HIDE DEF w, named
<1>6. /\ \A o \in Objects \cap named : object'[o].kind = obj[o].kind
      /\ \A o \in Objects : object'[o].kind \in {obj[o].kind, "none"}
  <2>1. KeptOf(object', Living(obj, r.own, run), obj, named)
    BY <1>1, <1>2, KeptFacts
  <2> QED
    BY <2>1 DEF KeptOf
<1> QED
  BY <1>1, <1>4, <1>5, <1>6

LEMMA PutLives ==
    ASSUME Core, NEW s, NEW new, NEW obj, NEW r, NEW run,
           Change(s, new, obj, r, run), Follows(obj, r, run)
    PROVE  \A o \in Alive' : /\ o \in Objects /\ object'[o] = obj[o]
                             /\ Known(o) => o \in Alive
<1> DEFINE named == NamedIn(Placed(wrapper, s, new))
           alive == Living(obj, r.own, run)
           fresh == {o \in Objects : ~Known(o)}
<1>1. /\ obj \in Table /\ r \in Counts /\ run \in SUBSET Objects
      /\ refs' = r /\ running' = run /\ object' = Kept(alive, obj, named)
  BY PutIsPlaced DEF Change
<1>2. Alive' = alive
  BY <1>1, KeptLiving DEF Alive
<1>3. alive \subseteq Objects
  BY <1>1, LivingTyped
<1>4. \A o \in alive : object'[o] = obj[o]
  <2>1. KeptOf(object', alive, obj, named)
    BY <1>1, <1>3, KeptFacts
  <2> HIDE DEF alive, named
  <2> QED
    BY <2>1 DEF KeptOf
<1>5. alive \subseteq Alive \cup fresh
  <2>1. Roots(r.own, run) \subseteq Alive \cup fresh
    <3>1. Devices \subseteq Alive
      BY Typed, LivingTyped DEF Core, Alive, Roots
    <3> QED
      BY <1>1, <3>1 DEF Follows, Roots
  <2>2. ASSUME NEW o \in Alive \cup fresh PROVE obj[o].needs \subseteq Alive
    <3>1. o \in Objects
      BY Typed, LivingTyped DEF Core, Alive
    <3>2. obj[o].needs \subseteq object[o].needs \cup Alive
      BY <3>1 DEF Follows
    <3>3. CASE o \in Alive
      BY <3>2, <3>3, Typed, LivingClosed DEF Core, Alive
    <3>4. CASE o \notin Alive
      <4>1. Rank(object, o) = 0
        BY <3>4 DEF Known, Rank
      <4>2. \A n \in object[o].needs : Rank(object, n) < 0
        BY <3>1, <4>1 DEF Core, Shape
      <4>3. object[o].needs = {}
        BY <4>2, RankType
      <4> QED
        BY <3>2, <4>3
    <3> QED
      BY <3>3, <3>4
  <2> HIDE DEF fresh
  <2> QED
    BY <2>1, <2>2, LivingLeast
<1> HIDE DEF alive
<1> QED
  BY <1>2, <1>3, <1>4, <1>5

----------------------------------------------------------------------------
(* The counts while a call releases and retains                            *)

LEMMA CoreTypes ==
    ASSUME Core
    PROVE  /\ object \in Table /\ refs \in Counts /\ running \in SUBSET Objects
           /\ wrapper \in Places /\ Shape(object) /\ Sound(object, refs, wrapper)
           /\ Alive \subseteq Objects /\ Devices \subseteq Alive
           /\ running \subseteq Alive
           /\ \A o \in Objects : refs.own[o] > 0 => o \in Alive
           /\ \A o \in Alive : object[o].needs \subseteq Alive
<1>1. /\ object \in Table /\ refs \in Counts /\ running \in SUBSET Objects
      /\ wrapper \in Places /\ Shape(object) /\ Sound(object, refs, wrapper)
  BY Typed DEF Core
<1>2. Alive \subseteq Objects /\ Roots(refs.own, running) \subseteq Alive
  BY <1>1, LivingTyped DEF Alive
<1>3. \A o \in Alive : object[o].needs \subseteq Alive
  BY <1>1, LivingClosed DEF Alive
<1> QED
  BY <1>1, <1>2, <1>3 DEF Roots

\* The counts r fit the places w, and nothing dead has a reference.
Ledger(r, w) ==
    /\ r \in Counts /\ w \in Places /\ Sound(object, r, w)
    /\ \A o \in Objects : r.own[o] > 0 => o \in Alive

LEMMA LedgerNow == Core => Ledger(refs, wrapper)
BY CoreTypes DEF Ledger

LEMMA LedgerLiving ==
    ASSUME Core, NEW r, NEW w, Ledger(r, w)
    PROVE  Living(object, r.own, running) \subseteq Alive
<1>1. Roots(r.own, running) \subseteq Alive
  BY CoreTypes DEF Roots, Ledger
<1> QED
  BY <1>1, CoreTypes, LivingLeast

LEMMA EmptiedType ==
    ASSUME NEW w \in Places, NEW s PROVE Emptied(w, s) \in Places
<1> DEFINE new == [h \in s |-> Null]
<1>1. \A h \in s : new[h] \in Objects \cup {Null}
  OBVIOUS
<1> HIDE DEF new
<1>2. Placed(w, s, new) \in Places
  BY <1>1, PlacedType
<1> QED
  BY <1>2 DEF Emptied, new

LEMMA Put1AtType ==
    ASSUME NEW w \in Places, NEW h, NEW o \in Objects \cup {Null}
    PROVE  Put1At(w, h, o) \in Places
<1> DEFINE new == [x \in {h} |-> o]
           s == {h}
<1>1. \A x \in s : new[x] \in Objects \cup {Null}
  OBVIOUS
<1> HIDE DEF new, s
<1>2. Placed(w, s, new) \in Places
  BY <1>1, PlacedType
<1> QED
  BY <1>2 DEF Put1At, new, s

LEMMA LedgerReleased ==
    ASSUME NEW r, NEW w, NEW s \in SUBSET Holders, Ledger(r, w)
    PROVE  Ledger(Released(r, HeldIn(w, s)), Emptied(w, s))
<1> DEFINE n == HeldIn(w, s)
<1>1. r \in Counts /\ \A o \in Objects : n[o] \in Nat
  BY HeldInType DEF Ledger
<1>2. \A o \in Objects : Released(r, n).own[o] > 0 => r.own[o] > 0
  <2> HIDE DEF n
  <2> QED
    BY <1>1 DEF Released, Counts
<1> QED
  BY <1>2, ReleasedType, ReleasedSound, EmptiedType DEF Ledger

LEMMA LedgerLost ==
    ASSUME NEW r, NEW w, NEW h \in Holders, Ledger(r, w)
    PROVE  /\ Ledger(Lost(r, w[h]), Emptied(w, {h}))
           /\ Lost(r, w[h]).own = r.own
<1>1. r \in Counts /\ w \in Places /\ w[h] \in Objects \cup {Null}
  BY DEF Ledger, Places
<1>2. Lost(r, w[h]).own = r.own
  BY <1>1 DEF Lost, Counts
<1>3. Lost(r, w[h]) \in Counts /\ Emptied(w, {h}) \in Places
  BY <1>1, LostType, EmptiedType
<1>4. Sound(object, Lost(r, w[h]), Emptied(w, {h}))
  BY <1>1, LostSound DEF Ledger
<1> QED
  BY <1>2, <1>3, <1>4 DEF Ledger

LEMMA LedgerRetained ==
    ASSUME Core, NEW r, NEW w, NEW h \in Holders, w[h] = Null, Ledger(r, w),
           NEW o \in Objects \cup {Null}, o # Null => Known(o),
           \/ o \in {Null} \cup Devices \cup Living(object, r.own, running)
           \/ \E x \in Holders : w[x] = o
    PROVE  Ledger(Retained(r, o), Put1At(w, h, o))
<1>1. r \in Counts /\ w \in Places /\ Sound(object, r, w)
  BY DEF Ledger
<1>2. Retained(r, o) \in Counts /\ Put1At(w, h, o) \in Places
  BY <1>1, RetainedType, Put1AtType
<1>3. Sound(object, Retained(r, o), Put1At(w, h, o))
  BY <1>1, RetainedSound DEF Known
<1>4. Living(object, r.own, running) \subseteq Alive
  BY LedgerLiving
<1>5. \A q \in Objects : Retained(r, o).own[q] > 0 =>
          r.own[q] > 0 \/ q \in Living(object, r.own, running)
  BY <1>1 DEF Retained, Counts
<1> QED
  BY <1>2, <1>3, <1>4, <1>5 DEF Ledger

\* The handle of h is given up and another one is put into its place.
LEMMA EmptiedPut1 ==
    ASSUME NEW w, NEW h, NEW o
    PROVE  Put1At(Emptied(w, {h}), h, o) = Put1At(w, h, o)
BY DEF Put1At, Emptied, Placed

LEMMA EmptiedAt ==
    ASSUME NEW w, NEW s, NEW x \in Holders
    PROVE  Emptied(w, s)[x] = IF x \in s THEN Null ELSE w[x]
BY DEF Emptied, Placed

LEMMA Put1AtAt ==
    ASSUME NEW w, NEW h, NEW o, NEW x \in Holders
    PROVE  Put1At(w, h, o)[x] = IF x = h THEN o ELSE w[x]
BY DEF Put1At, Placed

\* A call that makes no object.
LEMMA LedgerChange ==
    ASSUME Core, NEW s \in SUBSET Holders, NEW new, NEW r, NEW run,
           \A h \in s : new[h] \in Objects \cup {Null},
           Ledger(r, Placed(wrapper, s, new)), run \subseteq running,
           Put(s, new, object, r, run)
    PROVE  Change(s, new, object, r, run) /\ Follows(object, r, run)
<1>1. run \subseteq Objects /\ run \subseteq Alive
  BY CoreTypes
<1>2. Change(s, new, object, r, run)
  BY <1>1, CoreTypes DEF Change, Ledger
<1>3. Follows(object, r, run)
  BY <1>1 DEF Follows, Ledger
<1> QED
  BY <1>2, <1>3

----------------------------------------------------------------------------
(* New objects                                                             *)

LEMMA RankBelow ==
    ASSUME NEW obj, NEW o, obj[o].kind # "event"
    PROVE  Rank(obj, o) <= 2
BY DEF Rank

LEMMA NewShape ==
    ASSUME Core, NEW o \in Objects, ~Known(o), NEW kind \in Kinds,
           NEW needs \in SUBSET Alive, NEW obj, obj = WithNew(o, kind, needs),
           \A n \in needs : Known(n) /\ Rank(object, n) < Rank(obj, o)
    PROVE  /\ obj \in Table /\ Shape(obj) /\ o \notin Devices
           /\ obj[o].kind = kind /\ obj[o].needs = needs
           /\ \A q \in Objects \ {o} : obj[q] = object[q]
<1>1. /\ object \in Table /\ Shape(object) /\ needs \subseteq Objects
  BY CoreTypes
<1>2. \A q \in Objects : object[q] \in Object
  BY <1>1 DEF Table
<1>3. [kind |-> kind, needs |-> needs, args |-> NoArgs] \in Object
  BY <1>1 DEF Object, NoArgs
<1>4. /\ obj \in Table
      /\ obj[o] = [kind |-> kind, needs |-> needs, args |-> NoArgs]
      /\ \A q \in Objects \ {o} : obj[q] = object[q]
  BY <1>1, <1>3 DEF WithNew, Table
<1>5. o \notin Devices
  BY <1>1 DEF Shape, Known
<1>6. \A q \in Objects : \A n \in object[q].needs : n \in Objects \ {o}
  BY <1>1, <1>2 DEF Shape, Known, Object
<1>7. \A q \in Objects \ {o} : Rank(obj, q) = Rank(object, q)
  BY <1>4, <1>6 DEF Rank
<1>8. \A d \in Devices : obj[d].kind = "device"
  BY <1>1, <1>4, <1>5, RuntimeAssumption DEF Shape
<1>9. ASSUME NEW q \in Objects, NEW n \in obj[q].needs
      PROVE  Rank(obj, n) < Rank(obj, q) /\ obj[n].kind # "none"
  <2>1. CASE q = o
    <3>1. n \in Objects \ {o} /\ Known(n) /\ Rank(object, n) < Rank(obj, o)
      BY <1>1, <1>4, <1>9, <2>1
    <3> QED
      BY <1>4, <1>7, <2>1, <3>1 DEF Known
  <2>2. CASE q # o
    <3>1. n \in object[q].needs /\ n \in Objects \ {o}
      BY <1>4, <1>6, <1>9, <2>2
    <3> QED
      BY <1>1, <1>4, <1>7, <2>2, <3>1 DEF Shape
  <2> QED
    BY <2>1, <2>2
<1>10. ASSUME NEW q \in Objects, NEW i \in Indexes, obj[q].args[i] # Null
       PROVE  obj[obj[q].args[i]].kind \in Passable
  <2>1. q # o
    BY <1>4, <1>10 DEF NoArgs
  <2>2. /\ object[q].args[i] # Null /\ obj[q].args[i] = object[q].args[i]
        /\ object[object[q].args[i]].kind \in Passable
    BY <1>1, <1>4, <1>10, <2>1 DEF Shape
  <2>3. object[q].args[i] \in Objects
    BY <1>2, <2>2 DEF Object
  <2>4. object[q].args[i] # o
    BY <2>2 DEF Known, Passable, Memories
  <2> QED
    BY <1>4, <2>2, <2>3, <2>4
<1> QED
  BY <1>4, <1>5, <1>8, <1>9, <1>10 DEF Shape

\* A call that makes o.  It changes the counts of nothing that is dead.
Makes(s, new, r, run, o, kind, needs, obj) ==
    /\ s \in SUBSET Holders /\ \A h \in s : new[h] \in Objects \cup {Null}
    /\ o \in Objects /\ ~Known(o) /\ kind \in Kinds /\ needs \in SUBSET Alive
    /\ obj = WithNew(o, kind, needs)
    /\ \A n \in needs : Known(n) /\ Rank(object, n) < Rank(obj, o)
    /\ r \in Counts /\ Sound(obj, r, Placed(wrapper, s, new))
    /\ \A q \in Objects \ {o} : r.own[q] > 0 => q \in Alive
    /\ run \subseteq running \cup {o} /\ Put(s, new, obj, r, run)

LEMMA NewChange ==
    ASSUME Core, NEW s, NEW new, NEW r, NEW run, NEW o, NEW kind, NEW needs,
           NEW obj, Makes(s, new, r, run, o, kind, needs, obj)
    PROVE  /\ Change(s, new, obj, r, run) /\ Follows(obj, r, run)
           /\ \A q \in Objects : Known(q) => obj[q].args = object[q].args
           /\ obj[o].kind = kind
<1> USE DEF Makes
<1>1. /\ obj \in Table /\ Shape(obj)
      /\ obj[o].kind = kind /\ obj[o].needs = needs
      /\ \A q \in Objects \ {o} : obj[q] = object[q]
  BY NewShape
<1>2. run \subseteq Objects /\ \A q \in run \ {o} : q \in Alive
  BY CoreTypes
<1>3. Change(s, new, obj, r, run)
  BY <1>1, <1>2 DEF Change
<1>4. Follows(obj, r, run)
  BY <1>1, <1>2 DEF Follows, Known
<1> QED
  BY <1>1, <1>3, <1>4

\* The handles and counts before o is made, seen with o.
LEMMA LedgerWithNew ==
    ASSUME Core, NEW r, NEW w, Ledger(r, w), NEW o \in Objects, ~Known(o),
           NEW kind, NEW needs, NEW obj, obj = WithNew(o, kind, needs)
    PROVE  Sound(obj, r, w) /\ r.own[o] = 0 /\ r.surplus[o] = 0
<1>1. r \in Counts /\ w \in Places /\ Sound(object, r, w) /\ object \in Table
  BY CoreTypes DEF Ledger
<1>2. \A q \in Objects : Known(q) => obj[q].kind = object[q].kind
  BY <1>1 DEF WithNew, Table
<1>3. o \notin Devices
  BY CoreTypes DEF Shape, Known
<1> QED
  BY <1>1, <1>2, <1>3, SoundKinds, UnknownIsFree, SMTT(30) DEF Known

----------------------------------------------------------------------------
(* What a step keeps                                                       *)

Parts ==
    /\ Core /\ ElementsInv /\ FunctorInv
    /\ \A t \in Threads : CallInv(t)

LEMMA ElementsKept ==
    ASSUME Core, ElementsInv, NEW s, NEW new, NEW obj, NEW r, NEW run,
           Change(s, new, obj, r, run), Follows(obj, r, run),
           \A c \in s \cap Elements :
               new[c] # Null => obj[new[c]].kind \in VectorKinds
    PROVE  ElementsInv'
<1> SUFFICES ASSUME NEW c \in Elements, wrapper'[c] # Null
             PROVE  object'[wrapper'[c]].kind \in VectorKinds
  BY DEF ElementsInv, KindOf
<1>1. c \in Holders
  BY DEF Holders
<1>2. /\ wrapper'[c] = IF c \in s THEN new[c] ELSE wrapper[c]
      /\ wrapper'[c] \in Objects
      /\ object'[wrapper'[c]].kind = obj[wrapper'[c]].kind
  BY <1>1, PutHandles
<1>3. CASE c \in s
  BY <1>2, <1>3
<1>4. CASE c \notin s
  <2>1. object[wrapper[c]].kind \in VectorKinds /\ wrapper[c] \in Objects
    BY <1>2, <1>4 DEF ElementsInv, KindOf
  <2>2. Known(wrapper[c])
    BY <2>1, PlacesAssumption DEF Known, Kinds
  <2> QED
    BY <1>2, <1>4, <2>1, <2>2 DEF Follows
<1> QED
  BY <1>3, <1>4

\* A handle that stays where it is keeps the kind of its object.
LEMMA HandleKept ==
    ASSUME Core, NEW s, NEW new, NEW obj, NEW r, NEW run,
           Change(s, new, obj, r, run), Follows(obj, r, run),
           NEW h \in Holders, h \notin s
    PROVE  /\ wrapper'[h] = wrapper[h]
           /\ wrapper[h] # Null => /\ wrapper[h] \in Objects
                                   /\ object'[wrapper[h]].kind = KindOf(h)
<1>1. /\ wrapper'[h] = wrapper[h]
      /\ wrapper'[h] # Null => /\ wrapper'[h] \in Objects
                               /\ object'[wrapper'[h]].kind = obj[wrapper'[h]].kind
  BY PutHandles
<1>2. wrapper[h] # Null => Known(wrapper[h])
  BY DEF Core, Sound, Known
<1> QED
  BY <1>1, <1>2 DEF Follows, KindOf

LEMMA FunctorPlaces ==
    ASSUME NEW t \in Threads
    PROVE  /\ <<t, "kernel">> \in Functors /\ <<t, "queue">> \in Functors
           /\ <<t, "kernel">> \in Holders /\ <<t, "queue">> \in Holders
BY PlacesDiffer DEF Holders

LEMMA FunctorKept ==
    ASSUME Core, FunctorInv, NEW s, NEW new, NEW obj, NEW r, NEW run,
           Change(s, new, obj, r, run), Follows(obj, r, run),
           NEW t \in Threads, s \cap Functor(t) = {}
    PROVE  /\ KernelOf(t)' = KernelOf(t) /\ QueueOf(t)' = QueueOf(t)
           /\ KernelOf(t) # Null => /\ KernelOf(t) \in Objects
                                    /\ object'[KernelOf(t)].kind = "kernel"
                                    /\ object'[QueueOf(t)].kind = "queue"
<1>1. <<t, "kernel">> \in Holders \ s /\ <<t, "queue">> \in Holders \ s
  BY FunctorPlaces, PlacesDiffer
<1>2. /\ wrapper'[<<t, "kernel">>] = wrapper[<<t, "kernel">>]
      /\ wrapper'[<<t, "queue">>] = wrapper[<<t, "queue">>]
      /\ wrapper[<<t, "kernel">>] # Null =>
             /\ wrapper[<<t, "kernel">>] \in Objects
             /\ object'[wrapper[<<t, "kernel">>]].kind = KindOf(<<t, "kernel">>)
      /\ wrapper[<<t, "queue">>] # Null =>
             object'[wrapper[<<t, "queue">>]].kind = KindOf(<<t, "queue">>)
  BY <1>1, HandleKept
<1> QED
  BY <1>2 DEF FunctorInv, KernelOf, QueueOf, KindOf

LEMMA FunctorsKept ==
    ASSUME Core, FunctorInv, NEW s, NEW new, NEW obj, NEW r, NEW run,
           Change(s, new, obj, r, run), Follows(obj, r, run),
           s \cap Functors = {}
    PROVE  FunctorInv'
<1> SUFFICES ASSUME NEW t \in Threads
             PROVE  /\ KernelOf(t)' = Null <=> QueueOf(t)' = Null
                    /\ KernelOf(t)' # Null =>
                           /\ object'[KernelOf(t)'].kind = "kernel"
                           /\ object'[QueueOf(t)'].kind = "queue"
  BY DEF FunctorInv
<1>1. s \cap Functor(t) = {}
  BY PlacesDiffer
<1>2. /\ KernelOf(t)' = KernelOf(t) /\ QueueOf(t)' = QueueOf(t)
      /\ KernelOf(t) # Null => /\ object'[KernelOf(t)].kind = "kernel"
                               /\ object'[QueueOf(t)].kind = "queue"
  BY <1>1, FunctorKept
<1> QED
  BY <1>2 DEF FunctorInv

\* The call of t goes on.
LEMMA CallKept ==
    ASSUME Core, FunctorInv, NEW s, NEW new, NEW obj, NEW r, NEW run,
           Change(s, new, obj, r, run), Follows(obj, r, run),
           NEW t \in Threads, CallInv(t), call[t].at # 0 => s \cap Functor(t) = {},
           call[t].at # 0 => \A i \in Indexes : call[t].args[i] \notin s,
           call'[t].at # 0 => call[t].at # 0, call'[t].args = call[t].args
    PROVE  CallInv(t)'
<1> SUFFICES ASSUME call[t].at # 0
             PROVE  CallInv(t)'
  BY DEF CallInv
<1>1. /\ KernelOf(t)' = KernelOf(t) /\ KernelOf(t) # Null
      /\ KernelOf(t) \in Objects /\ Known(KernelOf(t))
  BY FunctorKept DEF CallInv, FunctorInv, Known
<1>2. ASSUME NEW i \in Indexes
      PROVE  LET x == call[t].args[i]
             IN  /\ x \in Vars /\ wrapper'[x] = wrapper[x] /\ wrapper[x] # Null
                 /\ object'[wrapper[x]].kind \in Passable
  <2> DEFINE x == call[t].args[i]
  <2>1. x \in Vars /\ wrapper[x] # Null /\ KindOf(x) \in Passable
    BY DEF CallInv
  <2>2. x \in Holders /\ x \notin s
    BY <2>1, PlacesDiffer
  <2> HIDE DEF x
  <2>3. wrapper'[x] = wrapper[x] /\ object'[wrapper[x]].kind = KindOf(x)
    BY <2>1, <2>2, HandleKept
  <2>4. /\ x \in Vars /\ wrapper'[x] = wrapper[x] /\ wrapper[x] # Null
        /\ object'[wrapper[x]].kind \in Passable
    BY <2>1, <2>3
  <2> QED
    BY <2>4 DEF x
<1> QED
  BY <1>1, <1>2 DEF CallInv, KindOf

\* A step of a program outside of the calls of functors.
LEMMA ProgramKeeps ==
    ASSUME Parts, NEW s, NEW new, NEW obj, NEW r, NEW run,
           Change(s, new, obj, r, run), Follows(obj, r, run),
           size' \in [Vectors -> 0 .. N], call' = call,
           s \cap Functors = {}, \A x \in s \cap Vars : Free(x),
           \A c \in s \cap Elements :
               new[c] # Null => obj[new[c]].kind \in VectorKinds,
           \A o \in Objects : Known(o) => obj[o].args = object[o].args
    PROVE  Parts'
<1> USE DEF Parts
<1>1. Core' /\ ElementsInv' /\ FunctorInv'
  BY PutCore, ElementsKept, FunctorsKept
<1>2. ASSUME NEW t \in Threads PROVE CallInv(t)'
  <2>1. CASE call[t].at = 0
    BY <2>1 DEF CallInv
  <2>2. CASE call[t].at # 0
    <3>1. /\ KernelOf(t) # Null
          /\ \A i \in Indexes : call[t].args[i] \in Vars
      BY <2>2 DEF CallInv
    <3>2. \A i \in Indexes : call[t].args[i] \notin s
      BY <3>1 DEF Free
    <3>3. KernelOf(t) \in Objects /\ Known(KernelOf(t))
      <4>1. KernelOf(t) \in Objects \cup {Null}
        BY CoreTypes, FunctorPlaces DEF KernelOf, Places
      <4> QED
        BY <3>1, <4>1 DEF FunctorInv, Known
    <3>4. s \cap Functor(t) = {}
      BY PlacesDiffer
    <3>5. CallInv(t)
      OBVIOUS
    <3> QED
      BY <3>2, <3>3, <3>4, <3>5, CallKept
  <2> QED
    BY <2>1, <2>2
<1> QED
  BY <1>1, <1>2

\* A step that makes no object.
LEMMA PutKeeps ==
    ASSUME Parts, NEW s \in SUBSET Holders, NEW new, NEW r, NEW run,
           \A h \in s : new[h] \in Objects \cup {Null},
           Ledger(r, Placed(wrapper, s, new)), run \subseteq running,
           Put(s, new, object, r, run),
           size' \in [Vectors -> 0 .. N], call' = call,
           s \cap Functors = {}, \A x \in s \cap Vars : Free(x),
           \A c \in s \cap Elements :
               new[c] # Null => object[new[c]].kind \in VectorKinds
    PROVE  Parts'
<1>1. Core
  BY DEF Parts
<1>2. Change(s, new, object, r, run) /\ Follows(object, r, run)
  BY <1>1, LedgerChange
<1> QED
  BY <1>2, ProgramKeeps

LEMMA Put1Keeps ==
    ASSUME Parts, NEW h \in Holders, h \notin Functors, h \in Vars => Free(h),
           NEW o \in Objects \cup {Null}, NEW r,
           Ledger(r, Put1At(wrapper, h, o)), Put1(h, o, r),
           h \in Elements /\ o # Null => object[o].kind \in VectorKinds,
           size' \in [Vectors -> 0 .. N], call' = call
    PROVE  Parts'
<1> DEFINE s == {h}
           new == [x \in {h} |-> o]
<1>1. /\ s \in SUBSET Holders /\ \A x \in s : x = h /\ new[x] = o
      /\ Put1At(wrapper, h, o) = Placed(wrapper, s, new)
      /\ Put(s, new, object, r, running)
  BY DEF Put1At, Put1
<1> HIDE DEF s, new
<1> QED
  BY <1>1, PutKeeps

\* A step that makes an object.
LEMMA NewKeeps ==
    ASSUME Parts, NEW s, NEW new, NEW r, NEW run, NEW o, NEW kind, NEW needs,
           NEW obj, Makes(s, new, r, run, o, kind, needs, obj),
           size' \in [Vectors -> 0 .. N], call' = call,
           s \cap Functors = {}, \A x \in s \cap Vars : Free(x),
           \A c \in s \cap Elements :
               new[c] # Null => obj[new[c]].kind \in VectorKinds
    PROVE  Parts'
<1>1. Core
  BY DEF Parts
<1>2. /\ Change(s, new, obj, r, run) /\ Follows(obj, r, run)
      /\ \A q \in Objects : Known(q) => obj[q].args = object[q].args
  BY <1>1, NewChange
<1> QED
  BY <1>2, ProgramKeeps

----------------------------------------------------------------------------
(* Wrapper and queries                                                     *)

\* What a handle that is held can be.
LEMMA HandleFacts ==
    ASSUME Core, NEW h \in Holders
    PROVE  /\ wrapper[h] \in Objects \cup {Null}
           /\ wrapper[h] # Null => wrapper[h] \in Objects /\ Known(wrapper[h])
           /\ Lives(h) => wrapper[h] \in Alive
BY CoreTypes DEF Places, Known, Sound, Lives

LEMMA SizeType == Core => size \in [Vectors -> 0 .. N]
BY Typed DEF Core

LEMMA VarPlaces ==
    ASSUME NEW x \in Vars
    PROVE  x \in Holders /\ x \notin Functors /\ x \notin Elements
BY PlacesDiffer

LEMMA ElementPlaces ==
    ASSUME NEW c \in Elements
    PROVE  c \in Holders /\ c \notin Functors /\ c \notin Vars
BY PlacesDiffer DEF Holders

LEMMA CopyKeeps ==
    ASSUME Parts, call' = call, NEW x \in Vars, Free(x), NEW y \in Holders,
           Copy(x, y)
    PROVE  Parts'
<1>1. Core /\ Ledger(refs, wrapper)
  BY LedgerNow DEF Parts
<1>2. /\ wrapper[x] = Null /\ wrapper[y] # Null
      /\ Put1(x, wrapper[y], Retained(refs, wrapper[y])) /\ size' = size
  BY DEF Copy, Copied
<1>3. /\ wrapper[y] \in Objects \cup {Null} /\ Known(wrapper[y])
      /\ \E z \in Holders : wrapper[z] = wrapper[y]
  BY <1>1, <1>2, HandleFacts
<1>4. Ledger(Retained(refs, wrapper[y]), Put1At(wrapper, x, wrapper[y]))
  BY <1>1, <1>2, <1>3, VarPlaces, LedgerRetained
<1> QED
  BY <1>1, <1>2, <1>3, <1>4, VarPlaces, SizeType, Put1Keeps

\* The counts after an assignment.
LEMMA AssignedLedger ==
    ASSUME Core, NEW h \in Holders, NEW y \in Holders, h # y
    PROVE  Ledger(Assigned(h, y), Put1At(wrapper, h, wrapper[y]))
<1> DEFINE r == Released(refs, HeldIn(wrapper, {h}))
           w == Emptied(wrapper, {h})
           o == wrapper[y]
<1>1. Ledger(r, w)
  BY LedgerNow, LedgerReleased
<1>2. w[h] = Null /\ w[y] = o
  BY EmptiedAt
<1>3. o \in Objects \cup {Null} /\ (o # Null => Known(o))
  BY HandleFacts
<1> HIDE DEF r, w, o
<1>4. Ledger(Retained(r, o), Put1At(w, h, o))
  BY <1>1, <1>2, <1>3, LedgerRetained
<1> QED
  BY <1>4, EmptiedPut1 DEF Assigned, r, w, o

LEMMA AssignKeeps ==
    ASSUME Parts, call' = call, NEW x \in Vars, Free(x), NEW y \in Vars,
           Assign(x, y)
    PROVE  Parts'
<1>1. Core /\ x # y /\ Put1(x, wrapper[y], Assigned(x, y)) /\ size' = size
  BY DEF Parts, Assign, Differ
<1>2. wrapper[y] \in Objects \cup {Null}
  BY <1>1, VarPlaces, HandleFacts
<1>3. Ledger(Assigned(x, y), Put1At(wrapper, x, wrapper[y]))
  BY <1>1, VarPlaces, AssignedLedger
<1> QED
  BY <1>1, <1>2, <1>3, VarPlaces, SizeType, Put1Keeps

LEMMA DestroyKeeps ==
    ASSUME Parts, call' = call, NEW x \in Vars, Free(x), Destroy(x)
    PROVE  Parts'
<1>1. /\ Core /\ Put1(x, Null, Released(refs, HeldIn(wrapper, {x})))
      /\ size' = size
  BY DEF Parts, Destroy, Destroyed
<1>2. Ledger(Released(refs, HeldIn(wrapper, {x})), Put1At(wrapper, x, Null))
  <2>1. Ledger(Released(refs, HeldIn(wrapper, {x})), Emptied(wrapper, {x}))
    BY <1>1, LedgerNow, LedgerReleased, VarPlaces
  <2> QED
    BY <2>1 DEF Emptied, Put1At
<1> QED
  BY <1>1, <1>2, VarPlaces, SizeType, Put1Keeps

LEMMA SetStatusKeeps ==
    ASSUME Parts, call' = call, NEW x \in Vars, SetStatus(x)
    PROVE  Parts'
<1>1. /\ Core /\ Ledger(refs, wrapper) /\ size' = size
      /\ Put({}, <<>>, object, refs, running \ {wrapper[x]})
  BY LedgerNow DEF Parts, SetStatus
<1>2. Placed(wrapper, {}, <<>>) = wrapper
  BY <1>1 DEF Placed, Ledger, Places
<1> QED
  BY <1>1, <1>2, SizeType, PutKeeps

\* What a query can give lives with what is asked.
LEMMA AnswersLive ==
    ASSUME Core, NEW x \in Holders, wrapper[x] # Null, Lives(x), NEW kind,
           NEW o \in AnswersOf(x, kind), o # Null
    PROVE  o \in Alive /\ object[o].kind = kind /\ kind \in Kinds /\ Known(o)
<1> DEFINE own == [p \in Objects |-> IF p = wrapper[x] THEN 1 ELSE 0]
<1>1. o \in Living(object, own, {}) /\ object[o].kind = kind
  BY DEF AnswersOf
<1>2. Roots(own, {}) \subseteq Alive
  BY CoreTypes DEF Roots, Lives
<1>3. Living(object, own, {}) \subseteq Alive
  <2> HIDE DEF own
  <2> QED
    BY <1>2, CoreTypes, LivingLeast
<1>4. kind \in Answers[KindOf(x)]
  BY DEF AnswersOf
<1>5. KindOf(x) \in Kinds
  BY HandleFacts, CoreTypes DEF Known, KindOf, Table, Object
<1>6. kind \in Kinds /\ kind # "none"
  BY <1>4, <1>5 DEF Answers, Kinds, Events, Memories
<1> QED
  BY <1>1, <1>3, <1>6 DEF Known

LEMMA QueryKeeps ==
    ASSUME Parts, call' = call, NEW x \in Vars, NEW y \in Vars, Free(y),
           Query(x, y)
    PROVE  Parts'
<1>1. Core /\ Ledger(refs, wrapper)
  BY LedgerNow DEF Parts
<1>2. \E kind \in Kinds : \E o \in AnswersOf(x, kind) \ {Null} :
          Put1(y, o, Retained(refs, o))
  BY DEF Query
<1> PICK kind \in Kinds : \E o \in AnswersOf(x, kind) \ {Null} :
          Put1(y, o, Retained(refs, o))
  BY <1>2
<1>9. PICK o \in AnswersOf(x, kind) \ {Null} : Put1(y, o, Retained(refs, o))
  OBVIOUS
<1>3. /\ wrapper[x] # Null /\ Lives(x) /\ wrapper[y] = Null /\ size' = size
  BY DEF Query
<1>4. o \in Alive /\ Known(o) /\ o \in Objects
  BY <1>1, <1>9, <1>3, VarPlaces, AnswersLive, CoreTypes
<1>5. Ledger(Retained(refs, o), Put1At(wrapper, y, o))
  BY <1>1, <1>3, <1>4, VarPlaces, LedgerRetained DEF Alive
<1> QED
  BY <1>1, <1>9, <1>3, <1>4, <1>5, VarPlaces, SizeType, Put1Keeps

LEMMA QueryIntoKeeps ==
    ASSUME Parts, call' = call, NEW x \in Vars, NEW y \in Vars, Free(y),
           QueryInto(x, y)
    PROVE  Parts'
<1>1. Core /\ Ledger(refs, wrapper)
  BY LedgerNow DEF Parts
<1>2. PICK o \in AnswersOf(x, KindOf(y)) :
          Put1(y, o, Retained(Lost(refs, wrapper[y]), o))
  BY DEF QueryInto
<1>3. /\ wrapper[x] # Null /\ Lives(x) /\ size' = size
  BY DEF QueryInto
<1>4. o # Null => o \in Alive /\ Known(o) /\ o \in Objects
  BY <1>1, <1>2, <1>3, VarPlaces, AnswersLive, CoreTypes
<1> DEFINE r == Lost(refs, wrapper[y])
           w == Emptied(wrapper, {y})
<1>5. Ledger(r, w) /\ r.own = refs.own
  BY <1>1, VarPlaces, LedgerLost
<1>6. w[y] = Null
  BY VarPlaces, EmptiedAt
<1>7. o # Null => o \in Living(object, r.own, running)
  BY <1>4, <1>5 DEF Alive
<1> HIDE DEF r, w
<1>8. Ledger(Retained(r, o), Put1At(w, y, o))
  BY <1>1, <1>4, <1>5, <1>6, <1>7, VarPlaces, LedgerRetained
<1>9. Ledger(Retained(r, o), Put1At(wrapper, y, o))
  BY <1>8, EmptiedPut1 DEF w
<1> QED
  BY <1>1, <1>2, <1>3, <1>4, <1>9, VarPlaces, SizeType, Put1Keeps DEF r

LEMMA GetDevicesKeeps ==
    ASSUME Parts, call' = call, NEW x \in Vars, Free(x), GetDevices(x)
    PROVE  Parts'
<1>1. Core /\ Ledger(refs, wrapper) /\ wrapper[x] = Null /\ size' = size
  BY LedgerNow DEF Parts, GetDevices
<1>2. PICK d \in Devices : Put1(x, d, refs)
  BY DEF GetDevices
<1>3. d \in Objects /\ Known(d) /\ Retained(refs, d) = refs
  BY <1>1, CoreTypes, RuntimeAssumption DEF Shape, Known, Retained, Counted
<1>4. Ledger(Retained(refs, d), Put1At(wrapper, x, d))
  BY <1>1, <1>3, VarPlaces, LedgerRetained
<1> QED
  BY <1>1, <1>2, <1>3, <1>4, VarPlaces, SizeType, Put1Keeps

----------------------------------------------------------------------------
(* Constructors                                                            *)

\* The rank of a new object.
RankOf(kind, needs) ==
    IF kind \in {"none", "device", "context"} THEN 0
    ELSE IF kind = "event" THEN 3
    ELSE IF \/ kind = "kernel"
            \/ kind = "buffer" /\ \E n \in needs : object[n].kind = "buffer"
         THEN 2
    ELSE 1

LEMMA NewRank ==
    ASSUME Core, NEW o \in Objects, ~Known(o), NEW kind, NEW needs \in SUBSET Alive,
           \A n \in needs : Known(n)
    PROVE  Rank(WithNew(o, kind, needs), o) = RankOf(kind, needs)
<1> DEFINE obj == WithNew(o, kind, needs)
<1>1. /\ obj[o].kind = kind /\ obj[o].needs = needs
      /\ \A n \in Objects \ {o} : obj[n] = object[n]
  BY CoreTypes DEF WithNew, Table
<1>2. \A n \in needs : n \in Objects \ {o}
  BY CoreTypes
<1> HIDE DEF obj
<1>3. \A n \in needs : obj[n].kind = object[n].kind
  BY <1>1, <1>2
<1>4. Rank(obj, o) = RankOf(kind, needs)
  BY <1>1, <1>3 DEF Rank, RankOf
<1> QED
  BY <1>4 DEF obj

LEMMA OwnedCounts ==
    ASSUME NEW r \in Counts, NEW o \in Objects
    PROVE  \A q \in Objects \ {o} : Owned(r, o).own[q] = r.own[q]
BY DEF Owned, Counts

\* The places w, of which h is empty, and the counts r get the new object o.
LEMMA OwnedNew ==
    ASSUME Core, NEW r, NEW w, Ledger(r, w), NEW h \in Holders, w[h] = Null,
           NEW o \in Objects, ~Known(o), NEW kind \in Kinds,
           NEW needs \in SUBSET Alive, NEW obj, obj = WithNew(o, kind, needs),
           \A n \in needs : Known(n) /\ Rank(object, n) < Rank(obj, o)
    PROVE  /\ Owned(r, o) \in Counts /\ Sound(obj, Owned(r, o), Put1At(w, h, o))
           /\ \A q \in Objects \ {o} : Owned(r, o).own[q] > 0 => q \in Alive
<1>1. Sound(obj, r, w) /\ r.own[o] = 0
  BY LedgerWithNew
<1>2. o \notin Devices /\ obj[o].kind = kind
  BY NewShape
<1>3. r \in Counts /\ \A q \in Objects : r.own[q] > 0 => q \in Alive
  BY DEF Ledger
<1>4. obj[o].kind # "none"
  BY <1>2 DEF Kinds
<1>5. Sound(obj, Owned(r, o), Put1At(w, h, o))
  BY <1>1, <1>2, <1>3, <1>4, OwnedSound
<1> QED
  BY <1>3, <1>5, OwnedType, OwnedCounts

LEMMA NewVarKeeps ==
    ASSUME Parts, call' = call, NEW x \in Vars, Free(x), NEW kind \in Kinds,
           NEW needs \in SUBSET Alive, New(x, kind, needs),
           \A n \in needs : Known(n) /\ Rank(object, n) < RankOf(kind, needs)
    PROVE  Parts'
<1> PICK o \in Objects :
          /\ CanBe(o, kind)
          /\ Put({x}, [h \in {x} |-> o], WithNew(o, kind, needs),
                 Owned(refs, o),
                 running \cup (IF kind \in Events THEN {o} ELSE {}))
  BY DEF New
<1> DEFINE obj == WithNew(o, kind, needs)
           r == Owned(refs, o)
           run == running \cup (IF kind \in Events THEN {o} ELSE {})
           s == {x}
           new == [h \in {x} |-> o]
<1>1. Core /\ Ledger(refs, wrapper) /\ wrapper[x] = Null /\ size' = size
  BY LedgerNow DEF Parts, New
<1>2. ~Known(o) /\ o # Null
  BY RuntimeAssumption DEF CanBe, Known
<1>3. \A n \in needs : Known(n) /\ Rank(object, n) < Rank(obj, o)
  BY <1>1, <1>2, NewRank
<1>4. /\ r \in Counts /\ Sound(obj, r, Put1At(wrapper, x, o))
      /\ \A q \in Objects \ {o} : r.own[q] > 0 => q \in Alive
  <2> HIDE DEF obj
  <2>1. obj = WithNew(o, kind, needs)
    BY DEF obj
  <2> QED
    BY <1>1, <1>2, <1>3, <2>1, VarPlaces, OwnedNew
<1>5. /\ s \in SUBSET Holders /\ \A h \in s : h = x /\ new[h] = o
      /\ Put1At(wrapper, x, o) = Placed(wrapper, s, new)
      /\ run \subseteq running \cup {o} /\ Put(s, new, obj, r, run)
      /\ obj = WithNew(o, kind, needs)
  BY VarPlaces DEF Put1At
<1> HIDE DEF obj, r, run, s, new
<1>6. Makes(s, new, r, run, o, kind, needs, obj)
  BY <1>1, <1>2, <1>3, <1>4, <1>5 DEF Makes
<1> QED
  BY <1>1, <1>5, <1>6, VarPlaces, SizeType, NewKeeps

\* What is given as a parameter lives.
LEMMA GivenLives ==
    ASSUME Core, NEW y \in Holders, NEW kind, NEW o \in Given(y, kind)
    PROVE  o \in Alive /\ object[o].kind = kind /\ Known(o)
<1>1. wrapper[y] # Null /\ Lives(y)
  BY DEF Given
<1>2. CASE KindOf(y) = kind
  BY <1>1, <1>2, HandleFacts DEF Given, KindOf
<1>3. CASE KindOf(y) # kind
  <2>1. o \in AnswersOf(y, kind) /\ o # Null
    BY <1>1, <1>3 DEF Given
  <2> QED
    BY <1>1, <2>1, AnswersLive
<1> QED
  BY <1>2, <1>3

LEMMA InContextKeeps ==
    ASSUME Parts, call' = call, NEW x \in Vars, Free(x), NEW y \in Vars,
           NEW kind \in Kinds \ {"device", "context"}, InContext(x, y, kind)
    PROVE  Parts'
<1>1. PICK c \in Given(y, "context") : New(x, kind, {c})
  BY DEF InContext
<1>2. c \in Alive /\ object[c].kind = "context" /\ Known(c)
  BY VarPlaces, GivenLives DEF Parts
<1> DEFINE needs == {c}
<1>3. needs \in SUBSET Alive /\ New(x, kind, needs)
      /\ \A n \in needs : Known(n) /\ Rank(object, n) = 0
  BY <1>1, <1>2 DEF Rank
<1>4. RankOf(kind, needs) > 0
  <2>1. kind \notin {"none", "device", "context"}
    BY DEF Kinds
  <2>2. RankOf(kind, needs) \in {1, 2, 3}
    BY <2>1 DEF RankOf
  <2> QED
    BY <2>2
<1> HIDE DEF needs
<1> QED
  BY <1>3, <1>4, NewVarKeeps

LEMMA NewContextKeeps ==
    ASSUME Parts, call' = call, NEW x \in Vars, Free(x), NEW y \in Vars,
           NewContext(x, y)
    PROVE  Parts'
<1>1. New(x, "context", {}) /\ "context" \in Kinds
  BY DEF NewContext, Kinds
<1> QED
  BY <1>1, NewVarKeeps

LEMMA NewKernelKeeps ==
    ASSUME Parts, call' = call, NEW x \in Vars, Free(x), NEW y \in Vars,
           NewKernel(x, y)
    PROVE  Parts'
<1>1. PICK p \in Given(y, "program") : New(x, "kernel", {p})
  BY DEF NewKernel
<1>2. p \in Alive /\ object[p].kind = "program" /\ Known(p)
  BY VarPlaces, GivenLives DEF Parts
<1> DEFINE needs == {p}
<1>3. needs \in SUBSET Alive /\ New(x, "kernel", needs) /\ "kernel" \in Kinds
      /\ \A n \in needs : Known(n) /\ Rank(object, n) = 1
  BY <1>1, <1>2 DEF Rank, Kinds
<1>4. RankOf("kernel", needs) = 2
  BY DEF RankOf
<1> HIDE DEF needs
<1> QED
  BY <1>3, <1>4, NewVarKeeps

LEMMA NewSubBufferKeeps ==
    ASSUME Parts, call' = call, NEW x \in Vars, Free(x), NEW y \in Vars,
           NewSubBuffer(x, y)
    PROVE  Parts'
<1> DEFINE b == wrapper[y]
           needs == {b}
<1>1. /\ wrapper[y] # Null /\ object[b].kind = "buffer" /\ Lives(y)
      /\ \A o \in object[b].needs : object[o].kind = "context"
      /\ New(x, "buffer", needs) /\ "buffer" \in Kinds
  BY DEF NewSubBuffer, Is, KindOf, Kinds
<1>2. b \in Alive /\ Known(b)
  BY <1>1, VarPlaces, HandleFacts DEF Parts
<1>3. Rank(object, b) = 1 /\ RankOf("buffer", needs) = 2
  BY <1>1 DEF Rank, RankOf
<1>4. needs \in SUBSET Alive
      /\ \A n \in needs : Known(n) /\ Rank(object, n) = 1
  BY <1>2, <1>3
<1> HIDE DEF needs, b
<1> QED
  BY <1>1, <1>3, <1>4, NewVarKeeps

LEMMA ChangeVarKeeps ==
    ASSUME Parts, call' = call, NEW x \in Vars, Free(x), NEW y \in Vars,
           ChangeVar(x, y)
    PROVE  Parts'
<1>1. CASE Copy(x, y)
  BY <1>1, CopyKeeps, VarPlaces
<1>2. CASE \/ InContext(x, y, "queue") \/ InContext(x, y, "buffer")
           \/ InContext(x, y, "interop") \/ InContext(x, y, "image")
           \/ InContext(x, y, "sampler") \/ InContext(x, y, "program")
           \/ InContext(x, y, "user event")
  <2>1. {"queue", "buffer", "interop", "image", "sampler", "program",
         "user event"} \subseteq Kinds \ {"device", "context"}
    BY DEF Kinds
  <2> QED
    BY <1>2, <2>1, InContextKeeps
<1> QED
  BY <1>1, <1>2, AssignKeeps, QueryKeeps, QueryIntoKeeps, GetDevicesKeeps,
     NewContextKeeps, NewKernelKeeps, NewSubBufferKeeps
  DEF ChangeVar, NewQueue, NewBuffer, NewInterop, NewImage, NewSampler,
      NewProgram, NewUserEvent

----------------------------------------------------------------------------
(* Vectors                                                                 *)

LEMMA CellPlaces ==
    ASSUME NEW v \in Vectors, NEW n \in 0 .. N, NEW i \in 0 .. n - 1
    PROVE  <<v, i>> \in Elements
<1>1. i \in 0 .. N - 1
  BY PlacesAssumption
<1> QED
  BY <1>1, PlacesDiffer DEF Cells

LEMMA NoPlaces ==
    ASSUME NEW w
    PROVE  /\ w \in Places => Placed(w, {}, <<>>) = w
           /\ \A o \in Objects : HeldIn(w, {})[o] = 0
BY HeldInNone DEF Placed, Places

\* Counts that go up or down together fit the same handles.
LEMMA SoundShift ==
    ASSUME NEW obj, NEW r \in Counts, NEW r2 \in Counts, NEW w \in Places,
           Sound(obj, r, w),
           \A o \in Objects : r2.own[o] > 0 => obj[o].kind # "none",
           \A d \in Devices : r2.own[d] = 0,
           \A o \in Objects \ Devices :
               /\ r2.own[o] - r2.surplus[o] = r.own[o] - r.surplus[o]
               /\ r2.surplus[o] < 0 => obj[o].kind \in VectorKinds
    PROVE  Sound(obj, r2, w)
<1>1. Placed(w, {}, <<>>) = w
  BY NoPlaces
<1>2. \A o \in Objects : HeldIn(w, {})[o] = 0 /\ HeldIn(<<>>, {})[o] = 0
  BY NoPlaces
<1>3. \A o \in Objects \ Devices :
          r2.own[o] - r2.surplus[o] = r.own[o] - r.surplus[o]
              - HeldIn(w, {})[o] + HeldIn(<<>>, {})[o]
  <2>1. \A o \in Objects : r.own[o] \in Int /\ r.surplus[o] \in Int
    BY DEF Counts
  <2> QED
    BY <1>2, <2>1
<1>4. Sound(obj, r2, Placed(w, {}, <<>>))
  BY <1>3, SoundChange
<1> QED
  BY <1>1, <1>4

\* What elements hold is of a kind that vectors are made of.
LEMMA ElementKinds ==
    ASSUME Core, ElementsInv, NEW w, NEW s, NEW o \in Objects,
           HeldIn(w, s)[o] # 0,
           \A h \in s : \E c \in Elements : w[h] = wrapper[c]
    PROVE  object[o].kind \in VectorKinds
<1>1. PICK h \in s : w[h] = o
  BY HeldInNone
<1>2. PICK c \in Elements : wrapper[c] = o
  BY <1>1
<1> QED
  BY <1>2, RuntimeAssumption DEF ElementsInv, KindOf

\* The elements s are destroyed and the handles stay in them.
Left(s) ==
    [Destroyed(s) EXCEPT !.surplus = [o \in Objects |->
        IF Counted(o) THEN @[o] - HeldIn(wrapper, s)[o] ELSE 0]]

LEMMA LeftLedger ==
    ASSUME Core, ElementsInv, NEW s \in SUBSET Elements
    PROVE  Ledger(Left(s), wrapper)
<1> DEFINE n == HeldIn(wrapper, s)
           d == Released(refs, n)
           r == Left(s)
<1>1. /\ refs \in Counts /\ wrapper \in Places /\ Sound(object, refs, wrapper)
      /\ \A o \in Objects : refs.own[o] > 0 => o \in Alive
  BY CoreTypes
<1>2. s \in SUBSET Holders /\ \A o \in Objects : n[o] \in Nat
  <2>1. s \in SUBSET Holders
    BY DEF Holders
  <2> QED
    BY <2>1, HeldInType
<1>3. d \in Counts
  BY <1>1, <1>2, ReleasedType
<1>a. /\ r.own = d.own
      /\ r.surplus = [o \in Objects |->
             IF Counted(o) THEN d.surplus[o] - n[o] ELSE 0]
      /\ r = [own |-> r.own, surplus |-> r.surplus]
  <2>1. r = [d EXCEPT !.surplus = [o \in Objects |->
                 IF Counted(o) THEN d.surplus[o] - n[o] ELSE 0]]
    BY DEF Left, Destroyed
  <2> HIDE DEF r, d, n
  <2> QED
    BY <1>3, <2>1 DEF Counts
<1>b. ASSUME NEW o \in Objects
      PROVE  /\ d.own[o] = IF ~Counted(o) THEN 0
                           ELSE IF refs.own[o] >= n[o] THEN refs.own[o] - n[o]
                           ELSE 0
             /\ d.surplus[o] = IF Counted(o) /\ refs.own[o] < n[o]
                               THEN refs.surplus[o] + n[o] - refs.own[o]
                               ELSE refs.surplus[o]
  <2> HIDE DEF n
  <2> QED
    BY DEF Released
<1> HIDE DEF r, d, n
<1>4. ASSUME NEW o \in Objects
      PROVE  /\ r.own[o] = IF ~Counted(o) THEN 0
                           ELSE IF refs.own[o] >= n[o] THEN refs.own[o] - n[o]
                           ELSE 0
             /\ r.surplus[o] =
                    IF ~Counted(o) THEN 0
                    ELSE IF refs.own[o] < n[o]
                    THEN refs.surplus[o] + n[o] - refs.own[o] - n[o]
                    ELSE refs.surplus[o] - n[o]
  <2>1. refs.own[o] \in Nat /\ n[o] \in Nat /\ refs.surplus[o] \in Int
    BY <1>1, <1>2 DEF Counts
  <2>2. r.surplus[o] = IF Counted(o) THEN d.surplus[o] - n[o] ELSE 0
    BY <1>a
  <2>3. r.own[o] = d.own[o]
    BY <1>a
  <2>4. CASE Counted(o)
    BY <1>b, <2>1, <2>2, <2>3, <2>4
  <2>5. CASE ~Counted(o)
    BY <1>b, <2>2, <2>3, <2>5
  <2> QED
    BY <2>4, <2>5
<1>5. \A o \in Objects : n[o] # 0 => object[o].kind \in VectorKinds
  BY ElementKinds DEF n
<1>6. r \in Counts
  BY <1>2, <1>3, <1>a DEF Counts
<1>7. ASSUME NEW o \in Objects
      PROVE  /\ r.own[o] > 0 => refs.own[o] > 0
             /\ o \in Devices => r.own[o] = 0
             /\ o \notin Devices =>
                    /\ r.own[o] - r.surplus[o] = refs.own[o] - refs.surplus[o]
                    /\ r.surplus[o] < 0 => object[o].kind \in VectorKinds
  <2>1. refs.own[o] \in Nat /\ refs.surplus[o] \in Int /\ n[o] \in Nat
    BY <1>1, <1>2 DEF Counts
  <2>2. o \notin Devices /\ refs.surplus[o] < 0 => object[o].kind \in VectorKinds
    BY <1>1 DEF Sound
  <2> QED
    BY <1>4, <1>5, <2>1, <2>2 DEF Counted
<1>8. /\ \A o \in Objects : r.own[o] > 0 => object[o].kind # "none"
      /\ \A e \in Devices : r.own[e] = 0
  BY <1>1, <1>7, RuntimeAssumption DEF Sound
<1>9. Sound(object, r, wrapper)
  BY <1>1, <1>6, <1>7, <1>8, SoundShift
<1> QED
  BY <1>1, <1>6, <1>7, <1>9 DEF Ledger, r

LEMMA LeftKeeps ==
    ASSUME Parts, call' = call, NEW s \in SUBSET Elements,
           Put({}, <<>>, object, Left(s), running),
           size' \in [Vectors -> 0 .. N]
    PROVE  Parts'
<1>1. Ledger(Left(s), wrapper) /\ Placed(wrapper, {}, <<>>) = wrapper
  BY LeftLedger, NoPlaces, CoreTypes DEF Parts
<1> QED
  BY <1>1, PutKeeps

LEMMA PopBackKeeps ==
    ASSUME Parts, call' = call, NEW v \in Vectors, PopBack(v)
    PROVE  Parts'
<1> DEFINE c == {<<v, size[v] - 1>>}
<1>1. size \in [Vectors -> 0 .. N] /\ size[v] \in 0 .. N /\ size[v] > 0
  BY SizeType DEF Parts, PopBack
<1>2. c \subseteq Elements
  <2>1. size[v] - 1 \in 0 .. size[v] - 1
    BY <1>1
  <2> QED
    BY <1>1, <2>1, CellPlaces
<1>3. size' \in [Vectors -> 0 .. N]
  BY <1>1, PlacesAssumption DEF PopBack
<1>4. Put({}, <<>>, object, Left(c), running)
  BY DEF PopBack, Left
<1> QED
  BY <1>2, <1>3, <1>4, LeftKeeps

LEMMA IterateKeeps ==
    ASSUME Parts, call' = call, NEW v \in Vectors, Iterate(v)
    PROVE  Parts'
<1>1. size \in [Vectors -> 0 .. N] /\ size[v] \in 0 .. N /\ size' = size
  BY SizeType DEF Parts, Iterate
<1>2. Used(v) \subseteq Elements
  BY <1>1, CellPlaces DEF Used
<1>3. Put({}, <<>>, object, Left(Used(v)), running)
  BY DEF Iterate, Left
<1> QED
  BY <1>1, <1>2, <1>3, LeftKeeps

LEMMA PushBackKeeps ==
    ASSUME Parts, call' = call, NEW v \in Vectors, NEW y \in Vars, PushBack(v, y)
    PROVE  Parts'
<1> DEFINE c == <<v, size[v]>>
<1>1. /\ Core /\ size \in [Vectors -> 0 .. N] /\ size[v] \in 0 .. N /\ size[v] < N
      /\ wrapper[y] # Null /\ KindOf(y) \in VectorKinds
      /\ size' = [size EXCEPT ![v] = @ + 1]
  BY SizeType DEF Parts, PushBack
<1>2. Put1(c, wrapper[y], Assigned(c, y))
  BY DEF PushBack
<1>3. c \in Elements
  <2>1. size[v] \in 0 .. N - 1 /\ N \in 0 .. N
    BY <1>1, PlacesAssumption
  <2> QED
    BY <2>1, CellPlaces
<1> HIDE DEF c
<1>4. c # y /\ c \in Holders /\ c \notin Functors /\ c \notin Vars /\ y \in Holders
  BY <1>3, VarPlaces, ElementPlaces
<1>5. size' \in [Vectors -> 0 .. N]
  BY <1>1, PlacesAssumption
<1>6. wrapper[y] \in Objects \cup {Null} /\ object[wrapper[y]].kind \in VectorKinds
  BY <1>1, <1>4, HandleFacts DEF KindOf
<1>7. Ledger(Assigned(c, y), Put1At(wrapper, c, wrapper[y]))
  BY <1>1, <1>4, AssignedLedger
<1> QED
  BY <1>2, <1>4, <1>5, <1>6, <1>7, Put1Keeps

LEMMA CopyVectorKeeps ==
    ASSUME Parts, call' = call, NEW v \in Vectors, NEW u \in Vectors,
           CopyVector(v, u)
    PROVE  Parts'
<1> DEFINE s == {<<v, i>> : i \in 0 .. size[u] - 1}
           new == [c \in s |-> wrapper[<<u, c[2]>>]]
           r == Overwritten(s, new)
<1>1. /\ Core /\ size \in [Vectors -> 0 .. N] /\ size[u] \in 0 .. N
      /\ size' = [size EXCEPT ![v] = size[u]]
      /\ Put(s, new, object, r, running)
  BY SizeType DEF Parts, CopyVector
<1>2. s \subseteq Elements /\ s \subseteq Holders
  <2>1. s \subseteq Elements
    BY <1>1, CellPlaces
  <2> QED
    BY <2>1 DEF Holders
<1>3. \A h \in s : \E c \in Elements : new[h] = wrapper[c]
  <2> SUFFICES ASSUME NEW i \in 0 .. size[u] - 1
               PROVE  \E c \in Elements : new[<<v, i>>] = wrapper[c]
    OBVIOUS
  <2>1. <<u, i>> \in Elements /\ new[<<v, i>>] = wrapper[<<u, i>>]
    BY <1>1, CellPlaces
  <2> QED
    BY <2>1
<1> HIDE DEF s, new
<1>4. /\ refs \in Counts /\ wrapper \in Places /\ Sound(object, refs, wrapper)
      /\ \A o \in Objects : refs.own[o] > 0 => o \in Alive
  BY <1>1, CoreTypes
<1>5. \A h \in s : /\ new[h] \in Objects \cup {Null}
                   /\ new[h] # Null => /\ object[new[h]].kind \in VectorKinds
                                       /\ object[new[h]].kind # "none"
  <2> SUFFICES ASSUME NEW h \in s, NEW c \in Elements, new[h] = wrapper[c]
               PROVE  /\ new[h] \in Objects \cup {Null}
                      /\ new[h] # Null =>
                             /\ object[new[h]].kind \in VectorKinds
                             /\ object[new[h]].kind # "none"
    BY <1>3
  <2> QED
    BY <1>1, ElementPlaces, HandleFacts DEF Parts, ElementsInv, KindOf, Known
<1>6. \A o \in Objects :
          HeldIn(wrapper, s)[o] \in Nat /\ HeldIn(new, s)[o] \in Nat
  BY <1>2, HeldInType
<1>7. \A o \in Objects : HeldIn(new, s)[o] # 0 => object[o].kind \in VectorKinds
  BY <1>1, <1>3, ElementKinds DEF Parts
<1>8. /\ r \in Counts /\ r.own = refs.own
      /\ \A o \in Objects \ Devices : r.surplus[o] =
             refs.surplus[o] + HeldIn(wrapper, s)[o] - HeldIn(new, s)[o]
  BY <1>4, <1>6 DEF Overwritten, Counts, Counted
<1> HIDE DEF r
<1>9. ASSUME NEW o \in Objects \ Devices
      PROVE  /\ r.own[o] - r.surplus[o] = refs.own[o] - refs.surplus[o]
                     - HeldIn(wrapper, s)[o] + HeldIn(new, s)[o]
             /\ r.surplus[o] < 0 => object[o].kind \in VectorKinds
  <2>1. refs.own[o] \in Nat /\ refs.surplus[o] \in Int
    BY <1>4 DEF Counts
  <2>2. refs.surplus[o] < 0 => object[o].kind \in VectorKinds
    BY <1>4 DEF Sound
  <2> QED
    BY <1>6, <1>7, <1>8, <2>1, <2>2
<1>10. /\ \A o \in Objects : r.own[o] > 0 => object[o].kind # "none"
       /\ \A d \in Devices : r.own[d] = 0
  BY <1>4, <1>8 DEF Sound
<1>11. Sound(object, r, Placed(wrapper, s, new))
  BY <1>2, <1>4, <1>5, <1>8, <1>9, <1>10, SoundChange
<1>12. Ledger(r, Placed(wrapper, s, new))
  BY <1>4, <1>5, <1>8, <1>11, PlacedType DEF Ledger
<1>13. size' \in [Vectors -> 0 .. N]
  BY <1>1
<1>14. s \cap Functors = {} /\ s \cap Vars = {}
  BY <1>2, ElementPlaces
<1> QED
  BY <1>1, <1>2, <1>5, <1>12, <1>13, <1>14, PutKeeps

LEMMA DestroyVectorKeeps ==
    ASSUME Parts, call' = call, NEW v \in Vectors, DestroyVector(v)
    PROVE  Parts'
<1> DEFINE s == Cells(v)
           new == [c \in Cells(v) |-> Null]
           r == Released(refs, HeldIn(wrapper, s))
<1>1. /\ Core /\ size \in [Vectors -> 0 .. N]
      /\ size' = [size EXCEPT ![v] = 0] /\ Put(s, new, object, r, running)
  BY SizeType DEF Parts, DestroyVector, Destroyed
<1>2. s \subseteq Elements /\ s \subseteq Holders
  BY PlacesDiffer DEF Holders
<1>3. Emptied(wrapper, s) = Placed(wrapper, s, new) /\ \A h \in s : new[h] = Null
  BY DEF Emptied
<1> HIDE DEF s, new
<1>4. Ledger(r, Emptied(wrapper, s))
  BY <1>1, <1>2, LedgerNow, LedgerReleased
<1> HIDE DEF r
<1>5. size' \in [Vectors -> 0 .. N]
  BY <1>1, PlacesAssumption
<1>6. s \cap Functors = {} /\ s \cap Vars = {}
  BY <1>2, ElementPlaces
<1> QED
  BY <1>1, <1>2, <1>3, <1>4, <1>5, <1>6, PutKeeps

LEMMA CreateKernelsKeeps ==
    ASSUME Parts, call' = call, NEW v \in Vectors, NEW x \in Vars,
           CreateKernels(x, v)
    PROVE  Parts'
<1> DEFINE c == <<v, 0>>
           s == {c}
           rel == Released(refs, HeldIn(wrapper, s))
           needs == {wrapper[x]}
<1> PICK o \in Objects :
        /\ CanBe(o, "kernel")
        /\ Put(s, [h \in s |-> o], WithNew(o, "kernel", needs),
               [rel EXCEPT !.own[o] = 2, !.surplus[o] = 1], running)
  BY DEF CreateKernels
<1> DEFINE obj == WithNew(o, "kernel", needs)
           r == [rel EXCEPT !.own[o] = 2, !.surplus[o] = 1]
           new == [h \in s |-> o]
           w == Emptied(wrapper, s)
<1>1. /\ Core /\ size \in [Vectors -> 0 .. N] /\ size' = [size EXCEPT ![v] = 1]
      /\ Is(x, "program") /\ Lives(x) /\ N > 0 /\ "kernel" \in VectorKinds
      /\ ~Known(o) /\ Put(s, new, obj, r, running) /\ "kernel" \in Kinds
  BY SizeType DEF Parts, CreateKernels, CanBe, Known, Kinds
<1>2. c \in Elements /\ c \in Holders /\ c \notin Functors /\ c \notin Vars
  <2>1. 0 \in 0 .. 1 - 1 /\ 1 \in 0 .. N
    BY <1>1, PlacesAssumption
  <2>2. c \in Elements
    BY <2>1, CellPlaces
  <2> QED
    BY <2>2, ElementPlaces
<1>3. /\ wrapper[x] \in Alive /\ Known(wrapper[x])
      /\ object[wrapper[x]].kind = "program"
  BY <1>1, VarPlaces, HandleFacts DEF Is, KindOf
<1>4. \A n \in needs : Known(n) /\ Rank(object, n) < Rank(obj, o)
  <2>1. Rank(object, wrapper[x]) = 1 /\ RankOf("kernel", needs) = 2
    BY <1>3 DEF Rank, RankOf
  <2>2. Rank(obj, o) = RankOf("kernel", needs)
    BY <1>1, <1>3, NewRank
  <2> QED
    BY <1>3, <2>1, <2>2
<1>5. needs \in SUBSET Alive /\ obj = WithNew(o, "kernel", needs)
  BY <1>3
<1>6. /\ \A h \in s : h = c /\ new[h] = o
      /\ Put1At(wrapper, c, o) = Placed(wrapper, s, new)
      /\ Put1At(w, c, o) = Put1At(wrapper, c, o)
  <2>1. Put1At(w, c, o) = Put1At(wrapper, c, o)
    <3> HIDE DEF c
    <3> QED
      BY EmptiedPut1
  <2> QED
    BY <2>1 DEF Put1At
<1>7. Ledger(rel, w) /\ w[c] = Null
  <2>1. s \in SUBSET Holders /\ c \in s
    BY <1>2
  <2>2. w[c] = Null
    BY <1>2, <2>1, EmptiedAt
  <2> HIDE DEF s, c
  <2> QED
    BY <1>1, <2>1, <2>2, LedgerNow, LedgerReleased
<1>s. s \in SUBSET Holders
  BY <1>2
<1> HIDE DEF obj, new, w, rel, s, c, needs
<1>8. /\ Owned(rel, o) \in Counts /\ Sound(obj, Owned(rel, o), Put1At(w, c, o))
      /\ \A q \in Objects \ {o} : Owned(rel, o).own[q] > 0 => q \in Alive
  BY <1>1, <1>2, <1>4, <1>5, <1>7, OwnedNew
<1>9. Put1At(w, c, o) \in Places /\ o # Null
  BY <1>7, Put1AtType, RuntimeAssumption DEF Ledger
<1>10. rel.surplus[o] = 0 /\ rel \in Counts
  BY <1>1, <1>5, <1>7, LedgerWithNew DEF Ledger
<1>11. /\ r \in Counts
       /\ r.own[o] = 2 /\ r.surplus[o] = 1
       /\ Owned(rel, o).own[o] = 1 /\ Owned(rel, o).surplus[o] = 0
       /\ \A q \in Objects \ {o} : /\ r.own[q] = Owned(rel, o).own[q]
                                   /\ r.surplus[q] = Owned(rel, o).surplus[q]
  <2> DEFINE r1 == [rel EXCEPT !.own[o] = 2]
  <2>1. r = [r1 EXCEPT !.surplus[o] = 1]
    BY DEF r
  <2>2. /\ r1 \in Counts /\ r1.own[o] = 2 /\ r1.surplus = rel.surplus
        /\ \A q \in Objects \ {o} : r1.own[q] = rel.own[q]
    BY <1>10 DEF Counts
  <2> HIDE DEF r, r1
  <2>3. /\ r \in Counts /\ r.own = r1.own /\ r.surplus[o] = 1
        /\ \A q \in Objects \ {o} : r.surplus[q] = r1.surplus[q]
    BY <2>1, <2>2 DEF Counts
  <2>4. /\ Owned(rel, o).own[o] = 1 /\ Owned(rel, o).surplus = rel.surplus
        /\ \A q \in Objects \ {o} : Owned(rel, o).own[q] = rel.own[q]
    BY <1>10 DEF Owned, Counts
  <2> QED
    BY <1>10, <2>2, <2>3, <2>4
<1> HIDE DEF r
<1>12. obj[o].kind = "kernel" /\ o \notin Devices
  BY <1>1, <1>4, <1>5, NewShape
<1>13. \A q \in Objects \ Devices :
           /\ r.own[q] - r.surplus[q] = Owned(rel, o).own[q] - Owned(rel, o).surplus[q]
           /\ r.surplus[q] < 0 => obj[q].kind \in VectorKinds
  <2> SUFFICES ASSUME NEW q \in Objects \ Devices
               PROVE  /\ r.own[q] - r.surplus[q] =
                             Owned(rel, o).own[q] - Owned(rel, o).surplus[q]
                      /\ r.surplus[q] < 0 => obj[q].kind \in VectorKinds
    OBVIOUS
  <2>1. CASE q = o
    BY <1>11, <2>1
  <2>2. CASE q # o
    BY <1>8, <1>11, <2>2 DEF Sound
  <2> QED
    BY <2>1, <2>2
<1>14. /\ \A q \in Objects : r.own[q] > 0 => obj[q].kind # "none"
       /\ \A d \in Devices : r.own[d] = 0
  BY <1>8, <1>11, <1>12, RuntimeAssumption DEF Sound
<1>15. Sound(obj, r, Put1At(w, c, o))
  BY <1>8, <1>9, <1>11, <1>13, <1>14, SoundShift
<1>16. Makes(s, new, r, running, o, "kernel", needs, obj)
  BY <1>1, <1>s, <1>4, <1>5, <1>6, <1>8, <1>11, <1>15 DEF Makes
<1>17. size' \in [Vectors -> 0 .. N]
  BY <1>1, PlacesAssumption
<1> QED
  BY <1>1, <1>2, <1>6, <1>12, <1>16, <1>17, NewKeeps

LEMMA SameKeeps ==
    ASSUME Parts, UNCHANGED <<runtimeVars, wrapper, call>>,
           size' \in [Vectors -> 0 .. N]
    PROVE  Parts'
<1>1. /\ object' = object /\ refs' = refs /\ running' = running
      /\ wrapper' = wrapper /\ call' = call
  BY DEF runtimeVars
<1>2. Core'
  BY <1>1, Typed DEF Parts, Core, HandlesTypeOK, RuntimeTypeOK
<1>3. ElementsInv' /\ FunctorInv'
  BY <1>1 DEF Parts, ElementsInv, FunctorInv, KindOf, KernelOf, QueueOf
<1>4. ASSUME NEW t \in Threads PROVE CallInv(t)'
  <2>1. CallInv(t)
    BY DEF Parts
  <2> QED
    BY <1>1, <2>1 DEF CallInv, KernelOf, KindOf, Alive
<1> QED
  BY <1>2, <1>3, <1>4 DEF Parts

LEMMA ClearKeeps ==
    ASSUME Parts, call' = call, NEW v \in Vectors, Clear(v)
    PROVE  Parts'
<1>1. size' \in [Vectors -> 0 .. N]
  BY SizeType, PlacesAssumption DEF Parts, Clear
<1> QED
  BY <1>1, SameKeeps DEF Clear

LEMMA ChangeVectorKeeps ==
    ASSUME Parts, call' = call, NEW v \in Vectors, ChangeVector(v)
    PROVE  Parts'
<1>1. ASSUME NEW x \in Vars, NEW c \in Used(v), Free(x), Copy(x, c)
      PROVE  Parts'
  <2>1. size[v] \in 0 .. N
    BY SizeType DEF Parts
  <2>2. c \in Elements
    BY <2>1, CellPlaces DEF Used
  <2> QED
    BY <1>1, <2>2, CopyKeeps, ElementPlaces
<1> QED
  BY <1>1, PushBackKeeps, CreateKernelsKeeps, CopyVectorKeeps, PopBackKeeps,
     ClearKeeps, IterateKeeps, DestroyVectorKeeps DEF ChangeVector

----------------------------------------------------------------------------
(* Command queues                                                          *)

\* What a command works on.
Work(s) == \A n \in s : n \in Alive /\ Known(n) /\ object[n].kind \notin Events

LEMMA EventNeeds ==
    ASSUME Core, NEW e \in Objects, ~Known(e), NEW on, Work(on),
           NEW obj, obj = WithNew(e, "event", on)
    PROVE  /\ on \in SUBSET Alive
           /\ \A n \in on : Known(n) /\ Rank(object, n) < Rank(obj, e)
<1>1. on \in SUBSET Alive /\ \A n \in on : Known(n) /\ object[n].kind # "event"
  BY DEF Work, Events
<1>2. Rank(obj, e) = 3
  BY <1>1, NewRank DEF RankOf
<1>3. \A n \in on : Rank(object, n) <= 2 /\ Rank(object, n) \in 0 .. 3
  BY <1>1, RankBelow, RankType
<1> QED
  BY <1>1, <1>2, <1>3

\* A command is enqueued and its event goes nowhere.
LEMMA EventDropped ==
    ASSUME Core, NEW e \in Objects, ~Known(e), NEW on, Work(on),
           NEW new, NEW obj, obj = WithNew(e, "event", on),
           Put({}, new, obj, refs, running \cup {e})
    PROVE  Makes({}, new, refs, running \cup {e}, e, "event", on, obj)
<1>1. Ledger(refs, wrapper) /\ wrapper \in Places
  BY LedgerNow, CoreTypes
<1>2. /\ on \in SUBSET Alive /\ "event" \in Kinds
      /\ \A n \in on : Known(n) /\ Rank(object, n) < Rank(obj, e)
  BY EventNeeds DEF Kinds
<1>3. Sound(obj, refs, wrapper)
  BY <1>1, LedgerWithNew
<1>4. Placed(wrapper, {}, new) = wrapper
  BY <1>1 DEF Placed, Places
<1> QED
  BY <1>1, <1>2, <1>3, <1>4 DEF Makes, Ledger

\* The event is put into y, where a handle may be that is not released.
LEMMA EventPut ==
    ASSUME Core, NEW e \in Objects, ~Known(e), NEW on, Work(on),
           NEW y \in Vars, NEW s, NEW new, Only(s, y), new[y] = e,
           NEW obj, obj = WithNew(e, "event", on), NEW r,
           r = Owned(Lost(refs, wrapper[y]), e),
           Put(s, new, obj, r, running \cup {e})
    PROVE  Makes(s, new, r, running \cup {e}, e, "event", on, obj)
<1> DEFINE lost == Lost(refs, wrapper[y])
           w == Emptied(wrapper, {y})
<1>1. Ledger(lost, w) /\ w[y] = Null
  BY LedgerNow, LedgerLost, EmptiedAt, VarPlaces
<1>2. /\ on \in SUBSET Alive /\ "event" \in Kinds
      /\ \A n \in on : Known(n) /\ Rank(object, n) < Rank(obj, e)
  BY EventNeeds DEF Kinds
<1>3. Placed(wrapper, s, new) = Put1At(wrapper, y, e)
  BY DEF Only, Placed, Put1At
<1>4. Put1At(w, y, e) = Put1At(wrapper, y, e)
  BY EmptiedPut1
<1>5. s \in SUBSET Holders /\ \A h \in s : new[h] \in Objects \cup {Null}
  BY VarPlaces DEF Only
<1> HIDE DEF lost, w
<1>6. /\ Owned(lost, e) \in Counts /\ Sound(obj, Owned(lost, e), Put1At(w, y, e))
      /\ \A q \in Objects \ {e} : Owned(lost, e).own[q] > 0 => q \in Alive
  BY <1>1, <1>2, VarPlaces, OwnedNew
<1>7. Owned(lost, e) = r
  BY DEF lost
<1> QED
  BY <1>2, <1>3, <1>4, <1>5, <1>6, <1>7 DEF Makes

\* A place for the event.
Target(ys) == ys = {} \/ \E y \in Vars : Free(y) /\ Only(ys, y)

LEMMA EnqueueKeeps ==
    ASSUME Parts, call' = call, NEW q \in Vars, Is(q, "queue"), NEW on, Work(on),
           NEW waits, NEW ys, Target(ys), Enqueue(q, on, waits, ys)
    PROVE  Parts'
<1> DEFINE needs == on \cup {wrapper[q]}
<1>1. Core /\ Lives(q) /\ size' = size
  BY DEF Parts, Enqueue
<1>2. Work(needs)
  BY <1>1, VarPlaces, HandleFacts DEF Work, Is, KindOf, Events
<1> HIDE DEF needs
<1>3. PICK e \in Objects :
          /\ CanBe(e, "event")
          /\ Put(ys, [y \in ys |-> e], WithNew(e, "event", needs),
                 IF ys = {} THEN refs
                 ELSE Owned(Lost(refs, wrapper[CHOOSE y \in ys : TRUE]), e),
                 running \cup {e})
  BY DEF Enqueue, needs
<1> DEFINE new == [y \in ys |-> e]
           obj == WithNew(e, "event", needs)
<1>4. ~Known(e) /\ obj = WithNew(e, "event", needs)
  BY <1>3 DEF CanBe, Known
<1>5. CASE ys = {}
  <2>1. Put({}, new, obj, refs, running \cup {e})
    BY <1>3, <1>5
  <2> HIDE DEF new, obj
  <2>2. Makes({}, new, refs, running \cup {e}, e, "event", needs, obj)
    BY <1>1, <1>2, <1>4, <2>1, EventDropped
  <2> QED
    BY <1>1, <2>2, SizeType, NewKeeps
<1>6. ASSUME NEW y \in Vars, Free(y), Only(ys, y)
      PROVE  Parts'
  <2>1. ys # {} /\ (CHOOSE z \in ys : TRUE) = y
    BY <1>6 DEF Only
  <2> DEFINE r == Owned(Lost(refs, wrapper[y]), e)
  <2>2. Put(ys, new, obj, r, running \cup {e})
    BY <1>3, <2>1
  <2>3. new[y] = e /\ r = Owned(Lost(refs, wrapper[y]), e)
    BY <1>6 DEF Only
  <2> HIDE DEF new, obj, r
  <2>4. Makes(ys, new, r, running \cup {e}, e, "event", needs, obj)
    BY <1>1, <1>2, <1>4, <1>6, <2>2, <2>3, EventPut
  <2>5. ys \cap Functors = {} /\ ys \cap Elements = {} /\ \A x \in ys : Free(x)
    BY <1>6, VarPlaces DEF Only
  <2> QED
    BY <1>1, <2>4, <2>5, SizeType, NewKeeps
<1> QED
  BY <1>5, <1>6 DEF Target

LEMMA VarWork ==
    ASSUME Core, NEW x \in Vars, wrapper[x] # Null, KindOf(x) \notin Events,
           wrapper[x] \in Alive
    PROVE  Work({wrapper[x]})
BY HandleFacts, VarPlaces DEF Work, KindOf

LEMMA ArgsWork ==
    ASSUME Core, NEW k \in Objects, ArgsOf(k) \subseteq Alive
    PROVE  Work(ArgsOf(k))
<1> SUFFICES ASSUME NEW i \in Indexes
             PROVE  /\ object[k].args[i] \in Alive /\ Known(object[k].args[i])
                    /\ object[object[k].args[i]].kind \notin Events
  BY DEF Work, ArgsOf
<1>1. object[k].args[i] \in Alive
  BY DEF ArgsOf
<1>2. object[k].args[i] # Null
  BY <1>1, CoreTypes, RuntimeAssumption
<1>3. object[object[k].args[i]].kind \in Passable
  BY <1>2 DEF Core, Shape
<1> QED
  BY <1>1, <1>3 DEF Passable, Memories, Events, Known

LEMMA ToQueueKeeps ==
    ASSUME Parts, call' = call, NEW q \in Vars, Is(q, "queue"),
           NEW ys, Target(ys), ToQueue(q, ys)
    PROVE  Parts'
<1>1. Core
  BY DEF Parts
<1>2. ASSUME NEW waits, NEW x \in Vars, wrapper[x] # Null, KindOf(x) \in Memories,
             Enqueue(q, {wrapper[x]}, waits, ys)
      PROVE  Parts'
  <2>1. wrapper[x] \in Alive
    BY <1>2 DEF Enqueue
  <2>2. Work({wrapper[x]})
    BY <1>1, <1>2, <2>1, VarWork DEF Memories, Events
  <2> QED
    BY <1>2, <2>2, EnqueueKeeps
<1>3. ASSUME NEW waits, NEW x \in Vars, RunKernel(q, x, waits, ys)
      PROVE  Parts'
  <2> DEFINE on == {wrapper[x]} \cup ArgsOf(wrapper[x])
  <2>1. /\ wrapper[x] # Null /\ KindOf(x) = "kernel"
        /\ Enqueue(q, on, waits, ys)
    BY <1>3 DEF RunKernel, Is
  <2>2. on \subseteq Alive /\ wrapper[x] \in Objects
    BY <1>1, <2>1, HandleFacts, VarPlaces DEF Enqueue
  <2>3. Work({wrapper[x]}) /\ Work(ArgsOf(wrapper[x]))
    BY <1>1, <2>1, <2>2, VarWork, ArgsWork DEF Events
  <2>4. Work(on)
    BY <2>3 DEF Work
  <2> HIDE DEF on
  <2> QED
    BY <2>1, <2>4, EnqueueKeeps
<1>4. CASE Marker(q, ys)
  <2>1. Enqueue(q, {}, {}, ys) /\ Work({})
    BY <1>4 DEF Marker, Work
  <2> QED
    BY <2>1, EnqueueKeeps
<1> QED
  BY <1>2, <1>3, <1>4
  DEF ToQueue, TransferBuffer, TransferImage, MapMemory, Unmap, AcquireInterop,
      NativeKernel, Is, Memories

LEMMA CompleteKeeps ==
    ASSUME Parts, call' = call, NEW e \in Objects, Complete(e)
    PROVE  Parts'
<1> DEFINE queues == {o \in object[e].needs : object[o].kind = "queue"}
           obj == [object EXCEPT ![e].needs = queues]
           run == running \ {e}
<1>1. /\ Core /\ e \in running /\ object[e].kind = "event" /\ size' = size
      /\ Put({}, <<>>, obj, refs, run)
  BY DEF Parts, Complete
<1>2. object \in Table /\ refs \in Counts /\ wrapper \in Places
  BY <1>1, CoreTypes
<1>3. object[e] \in Object /\ queues \subseteq object[e].needs
  BY <1>2 DEF Table
<1>4. \A o \in Objects \ {e} : obj[o] = object[o]
  BY <1>2 DEF Table
<1>5. /\ obj[e].kind = object[e].kind /\ obj[e].args = object[e].args
      /\ obj[e].needs = queues /\ obj \in Table
  <2>1. obj[e] = [object[e] EXCEPT !.needs = queues]
    BY <1>2 DEF Table
  <2> HIDE DEF queues, obj
  <2>2. obj[e] \in Object /\ obj[e].kind = object[e].kind
        /\ obj[e].args = object[e].args /\ obj[e].needs = queues
    BY <1>3, <2>1 DEF Object
  <2>3. obj \in [Objects -> Object]
    <3>1. obj = [object EXCEPT ![e] = obj[e]]
      BY <1>2, <2>1 DEF obj, Table
    <3> QED
      BY <1>2, <2>2, <3>1 DEF Table
  <2> QED
    BY <2>2, <2>3 DEF Table
<1> HIDE DEF obj, queues
<1>6. \A o \in Objects : /\ obj[o].kind = object[o].kind
                         /\ obj[o].args = object[o].args
                         /\ obj[o].needs \subseteq object[o].needs
  BY <1>3, <1>4, <1>5
<1>7. \A o \in Objects : Rank(obj, o) = Rank(object, o)
  <2> SUFFICES ASSUME NEW o \in Objects PROVE Rank(obj, o) = Rank(object, o)
    OBVIOUS
  <2>1. CASE o = e
    BY <1>1, <1>6, <2>1 DEF Rank
  <2>2. CASE o # e
    <3>1. obj[o] = object[o] /\ object[o].needs \subseteq Objects
      BY <1>2, <1>4, <2>2 DEF Table, Object
    <3> QED
      BY <1>6, <3>1 DEF Rank
  <2> QED
    BY <2>1, <2>2
<1>8. Shape(obj)
  <2>1. \A o \in Objects : /\ object[o].needs \subseteq Objects
                           /\ object[o].args \in [Indexes -> Objects \cup {Null}]
    BY <1>2 DEF Table, Object
  <2>2. Shape(object)
    BY <1>1, CoreTypes
  <2>3. \A d \in Devices : obj[d].kind = "device"
    BY <1>6, <2>2, RuntimeAssumption DEF Shape
  <2>4. \A o \in Objects : \A n \in obj[o].needs :
            Rank(obj, n) < Rank(obj, o) /\ obj[n].kind # "none"
    BY <1>6, <1>7, <2>1, <2>2 DEF Shape
  <2>5. \A o \in Objects : \A i \in Indexes :
            obj[o].args[i] # Null => obj[obj[o].args[i]].kind \in Passable
    BY <1>6, <2>1, <2>2 DEF Shape
  <2> QED
    BY <2>3, <2>4, <2>5 DEF Shape
<1>9. Placed(wrapper, {}, <<>>) = wrapper
  BY <1>2, NoPlaces
<1>10. Sound(obj, refs, wrapper)
  BY <1>1, <1>2, <1>6, CoreTypes, SoundKinds
<1>11. run \in SUBSET Objects /\ run \subseteq Alive
  BY <1>1, CoreTypes
<1>12. Change({}, <<>>, obj, refs, run)
  BY <1>1, <1>2, <1>5, <1>8, <1>9, <1>10, <1>11 DEF Change
<1>13. Follows(obj, refs, run)
  BY <1>1, <1>6, <1>11, CoreTypes DEF Follows
<1> QED
  BY <1>1, <1>6, <1>12, <1>13, SizeType, ProgramKeeps

\* A step of a program outside of the calls of functors.
LEMMA ProgramStep ==
    ASSUME Parts, Program, call' = call,
           ~ \E x, y \in Vars : \E i \in Indexes : SetArg(x, i, y)
    PROVE  Parts'
<1>1. ASSUME NEW ys \in Targets PROVE Target(ys)
  BY DEF Targets, Target, Only
<1> QED
  BY <1>1, DestroyKeeps, SetStatusKeeps, ChangeVarKeeps, ChangeVectorKeeps,
     ToQueueKeeps DEF Program

----------------------------------------------------------------------------
(* Functors                                                                *)

CallType ==
    call \in [Threads -> [at : 0 .. Arity + 1, args : [Indexes -> Vars \cup {Null}]]]

\* An argument of the kernel k is set.
ArgSet(obj, k, i, o) == obj = [object EXCEPT ![k].args[i] = o]

LEMMA ArgChange ==
    ASSUME Core, NEW k \in Objects, Known(k), object[k].kind # "none",
           NEW i \in Indexes, NEW o \in Objects, object[o].kind \in Passable,
           NEW obj, ArgSet(obj, k, i, o),
           Put({}, <<>>, obj, refs, running)
    PROVE  /\ Change({}, <<>>, obj, refs, running) /\ Follows(obj, refs, running)
           /\ \A q \in Objects \ {k} : obj[q] = object[q]
           /\ \A j \in Indexes :
                  obj[k].args[j] = IF j = i THEN o ELSE object[k].args[j]
<1>1. object \in Table /\ refs \in Counts /\ wrapper \in Places
  BY CoreTypes
<1>2. object[k] \in Object /\ \A q \in Objects \ {k} : obj[q] = object[q]
  BY <1>1 DEF Table, ArgSet
<1>3. obj[k] = [object[k] EXCEPT !.args[i] = o]
  BY <1>1 DEF Table, ArgSet
<1>4. /\ obj[k] \in Object /\ obj[k].kind = object[k].kind
      /\ obj[k].needs = object[k].needs
      /\ obj[k].args = [object[k].args EXCEPT ![i] = o]
  BY <1>2, <1>3 DEF Object
<1>5. obj \in Table
  <2>1. obj = [object EXCEPT ![k] = obj[k]]
    BY <1>1, <1>3 DEF Table, ArgSet
  <2> QED
    BY <1>1, <1>4, <2>1 DEF Table
<1>6. \A j \in Indexes :
          obj[k].args[j] = IF j = i THEN o ELSE object[k].args[j]
  BY <1>2, <1>4 DEF Object
<1>7. \A q \in Objects : /\ obj[q].kind = object[q].kind
                         /\ obj[q].needs = object[q].needs
  BY <1>2, <1>4
<1>8. \A q \in Objects : /\ object[q].needs \subseteq Objects
                         /\ object[q].args \in [Indexes -> Objects \cup {Null}]
  BY <1>1 DEF Table, Object
<1>9. \A q \in Objects : Rank(obj, q) = Rank(object, q)
  BY <1>7, <1>8 DEF Rank
<1>10. Shape(obj)
  <2>1. Shape(object)
    BY CoreTypes
  <2>2. \A d \in Devices : obj[d].kind = "device"
    BY <1>7, <2>1, RuntimeAssumption DEF Shape
  <2>3. \A q \in Objects : \A n \in obj[q].needs :
            Rank(obj, n) < Rank(obj, q) /\ obj[n].kind # "none"
    BY <1>7, <1>8, <1>9, <2>1 DEF Shape
  <2>4. ASSUME NEW q \in Objects, NEW j \in Indexes, obj[q].args[j] # Null
        PROVE  obj[obj[q].args[j]].kind \in Passable
    <3>1. obj[q].args[j] \in {o, object[q].args[j]}
      BY <1>2, <1>6
    <3>2. CASE obj[q].args[j] = o
      BY <1>7, <3>2
    <3>3. CASE obj[q].args[j] = object[q].args[j]
      <4>1. object[q].args[j] \in Objects
        BY <1>8, <2>4, <3>3
      <4> QED
        BY <1>7, <2>1, <2>4, <3>3, <4>1 DEF Shape
    <3> QED
      BY <3>1, <3>2, <3>3
  <2> QED
    BY <2>2, <2>3, <2>4 DEF Shape
<1>11. Placed(wrapper, {}, <<>>) = wrapper
  BY <1>1, NoPlaces
<1>12. Sound(obj, refs, wrapper)
  BY <1>1, <1>7, CoreTypes, SoundKinds
<1>13. Change({}, <<>>, obj, refs, running)
  BY <1>1, <1>5, <1>10, <1>11, <1>12, CoreTypes DEF Change
<1>14. Follows(obj, refs, running)
  BY <1>7, CoreTypes DEF Follows
<1> QED
  BY <1>2, <1>6, <1>13, <1>14

\* A step that changes no functor, and keeps what the calls know.
LEMMA CallsKeep ==
    ASSUME Parts, NEW s, NEW new, NEW obj, NEW r, NEW run,
           Change(s, new, obj, r, run), Follows(obj, r, run),
           size' = size, s \subseteq Vars, \A t \in Threads : CallInv(t)'
    PROVE  Parts'
<1>1. s \cap Functors = {} /\ s \cap Elements = {}
  BY VarPlaces
<1> QED
  BY <1>1, PutCore, ElementsKept, FunctorsKept, SizeType DEF Parts

\* What functors know in their calls when somebody sets an argument.
LEMMA ArgsKept ==
    ASSUME Parts, NEW obj, Change({}, <<>>, obj, refs, running),
           Follows(obj, refs, running), NEW u \in Threads,
           call'[u].at # 0 => call[u].at # 0, call'[u].args = call[u].args
    PROVE  CallInv(u)'
BY CallKept DEF Parts

LEMMA SetArgKeeps ==
    ASSUME Parts, NEW x \in Vars, NEW y \in Vars, NEW i \in Indexes,
           SetArg(x, i, y), call' = call
    PROVE  Parts'
<1> DEFINE k == wrapper[x]
           obj == WithArg(k, i, y)
<1>1. /\ Core /\ k # Null /\ object[k].kind = "kernel" /\ size' = size
      /\ wrapper[y] # Null /\ object[wrapper[y]].kind \in Passable
      /\ Put({}, <<>>, obj, refs, running)
  BY DEF Parts, SetArg, Is, KindOf
<1>2. k \in Objects /\ Known(k) /\ wrapper[y] \in Objects
  BY <1>1, VarPlaces, HandleFacts
<1>3. ArgSet(obj, k, i, wrapper[y])
  BY DEF WithArg, ArgSet
<1> HIDE DEF k, obj
<1>4. Change({}, <<>>, obj, refs, running) /\ Follows(obj, refs, running)
  BY <1>1, <1>2, <1>3, ArgChange DEF Known
<1>5. \A t \in Threads : CallInv(t)'
  BY <1>4, ArgsKept
<1> QED
  BY <1>1, <1>4, <1>5, CallsKeep

LEMMA SetNextKeeps ==
    ASSUME Parts, CallType, NEW t \in Threads, SetNext(t)
    PROVE  Parts'
<1> DEFINE i == call[t].at
           k == KernelOf(t)
           x == call[t].args[i]
           obj == WithArg(k, i, x)
<1>1. /\ Core /\ i \in Indexes /\ k \in Alive /\ size' = size
      /\ Put({}, <<>>, obj, refs, running)
      /\ call' = [call EXCEPT ![t].at = i + 1]
  BY DEF Parts, SetNext
<1>2. i # 0
  BY <1>1 DEF Indexes
<1>3. /\ k # Null /\ x \in Vars /\ wrapper[x] # Null
      /\ object[wrapper[x]].kind \in Passable /\ object[k].kind = "kernel"
  BY <1>1, <1>2 DEF Parts, CallInv, FunctorInv, KindOf
<1>4. k \in Objects /\ Known(k) /\ wrapper[x] \in Objects
  <2>1. <<t, "kernel">> \in Holders
    BY FunctorPlaces
  <2> QED
    BY <1>1, <1>3, <2>1, VarPlaces, HandleFacts DEF KernelOf
<1>5. ArgSet(obj, k, i, wrapper[x])
  BY DEF WithArg, ArgSet
<1>6. \A u \in Threads : /\ call'[u].args = call[u].args
                         /\ call'[u].at # 0 => call[u].at # 0
  BY <1>1, <1>2 DEF CallType
<1> HIDE DEF obj, i, k, x
<1>7. Change({}, <<>>, obj, refs, running) /\ Follows(obj, refs, running)
  BY <1>1, <1>3, <1>4, <1>5, ArgChange DEF Known
<1>8. \A u \in Threads : CallInv(u)'
  BY <1>6, <1>7, ArgsKept
<1> QED
  BY <1>1, <1>7, <1>8, CallsKeep

\* A step that changes nothing but the call of t.
LEMMA CallKeeps ==
    ASSUME Parts, CallType, NEW t \in Threads, UNCHANGED handleVars,
           NEW c, call' = [call EXCEPT ![t] = c],
           c.at # 0 => CallInv(t)'
    PROVE  Parts'
<1>1. /\ object' = object /\ refs' = refs /\ running' = running
      /\ wrapper' = wrapper /\ size' = size
  BY DEF handleVars, runtimeVars
<1>2. Core' /\ ElementsInv' /\ FunctorInv'
  BY <1>1 DEF Parts, Core, HandlesTypeOK, RuntimeTypeOK, ElementsInv, FunctorInv,
     KindOf, KernelOf, QueueOf
<1>3. ASSUME NEW u \in Threads PROVE CallInv(u)'
  <2>1. CASE u = t
    <3>1. call'[t] = c
      BY DEF CallType
    <3> QED
      BY <2>1, <3>1 DEF CallInv
  <2>2. CASE u # t
    <3>1. call'[u] = call[u] /\ CallInv(u)
      BY <2>2 DEF CallType, Parts
    <3> QED
      BY <1>1, <3>1 DEF CallInv, KernelOf, KindOf, Alive
  <2> QED
    BY <2>1, <2>2
<1> QED
  BY <1>2, <1>3 DEF Parts

LEMMA CallStartsKeeps ==
    ASSUME Parts, CallType, NEW t \in Threads, Call(t)
    PROVE  Parts'
<1>1. PICK args \in [Indexes -> {x \in Vars : wrapper[x] # Null
                                             /\ KindOf(x) \in Passable}] :
          call' = [call EXCEPT ![t] = [at |-> 1, args |-> args]]
  BY DEF Call
<1>2. /\ UNCHANGED handleVars /\ KernelOf(t) # Null
      /\ object' = object /\ wrapper' = wrapper
  BY DEF Call, handleVars, runtimeVars
<1>3. call'[t] = [at |-> 1, args |-> args]
  BY <1>1 DEF CallType
<1>4. CallInv(t)'
  BY <1>2, <1>3 DEF CallInv, KernelOf, KindOf
<1> QED
  BY <1>1, <1>2, <1>4, CallKeeps

LEMMA SetNextFailsKeeps ==
    ASSUME Parts, CallType, NEW t \in Threads, SetNextFails(t)
    PROVE  Parts'
<1> DEFINE c == [call[t] EXCEPT !.at = @ + 1]
<1>1. /\ UNCHANGED handleVars /\ call[t].at # 0 /\ CallInv(t)
      /\ object' = object /\ wrapper' = wrapper
  BY DEF SetNextFails, handleVars, runtimeVars, Parts, Indexes
<1>2. call' = [call EXCEPT ![t] = c] /\ call'[t] = c /\ c.args = call[t].args
  BY DEF CallType, SetNextFails
<1> HIDE DEF c
<1>3. CallInv(t)'
  BY <1>1, <1>2 DEF CallInv, KernelOf, KindOf
<1> QED
  BY <1>1, <1>2, <1>3, CallKeeps

LEMMA CallFailsKeeps ==
    ASSUME Parts, CallType, NEW t \in Threads, CallFails(t)
    PROVE  Parts'
BY CallKeeps DEF CallFails, NoCall

\* The two handles of a functor without a call are replaced.
LEMMA FunctorKeeps ==
    ASSUME Parts, NEW t \in Threads, call[t].at = 0, NEW s, s = Functor(t),
           NEW new, NEW r, \A h \in s : new[h] \in Objects \cup {Null},
           Ledger(r, Placed(wrapper, s, new)),
           Put(s, new, object, r, running), size' = size, call' = call,
           new[<<t, "kernel">>] = Null <=> new[<<t, "queue">>] = Null,
           new[<<t, "kernel">>] # Null =>
               /\ object[new[<<t, "kernel">>]].kind = "kernel"
               /\ object[new[<<t, "queue">>]].kind = "queue"
    PROVE  Parts'
<1>1. Core /\ FunctorInv /\ ElementsInv
  BY DEF Parts
<1>2. /\ s \in SUBSET Holders /\ s \cap Elements = {} /\ s \cap Vars = {}
      /\ <<t, "kernel">> \in s /\ <<t, "queue">> \in s
  BY PlacesDiffer DEF Holders
<1>3. Change(s, new, object, r, running) /\ Follows(object, r, running)
  BY <1>1, <1>2, LedgerChange
<1>4. Core' /\ ElementsInv'
  BY <1>1, <1>2, <1>3, PutCore, SizeType, ElementsKept
<1>5. ASSUME NEW u \in Threads
      PROVE  /\ KernelOf(u)' = Null <=> QueueOf(u)' = Null
             /\ KernelOf(u)' # Null => /\ object'[KernelOf(u)'].kind = "kernel"
                                       /\ object'[QueueOf(u)'].kind = "queue"
  <2>1. CASE u = t
    <3>1. /\ KernelOf(t)' = new[<<t, "kernel">>]
          /\ QueueOf(t)' = new[<<t, "queue">>]
          /\ KernelOf(t)' # Null =>
                 /\ object'[KernelOf(t)'].kind = object[KernelOf(t)'].kind
          /\ QueueOf(t)' # Null =>
                 /\ object'[QueueOf(t)'].kind = object[QueueOf(t)'].kind
      BY <1>1, <1>2, <1>3, PutHandles DEF KernelOf, QueueOf
    <3> QED
      BY <2>1, <3>1
  <2>2. CASE u # t
    <3>1. s \cap Functor(u) = {}
      BY <2>2, PlacesDiffer
    <3>2. /\ KernelOf(u)' = KernelOf(u) /\ QueueOf(u)' = QueueOf(u)
          /\ KernelOf(u) # Null => /\ object'[KernelOf(u)].kind = "kernel"
                                   /\ object'[QueueOf(u)].kind = "queue"
      BY <1>1, <1>3, <3>1, FunctorKept
    <3> QED
      BY <1>1, <3>2 DEF FunctorInv
  <2> QED
    BY <2>1, <2>2
<1>6. FunctorInv'
  BY <1>5 DEF FunctorInv
<1>7. ASSUME NEW u \in Threads PROVE CallInv(u)'
  <2>1. CASE call[u].at = 0
    BY <2>1 DEF CallInv
  <2>2. CASE call[u].at # 0
    <3>1. u # t /\ CallInv(u)
      BY <2>2 DEF Parts
    <3>2. s \cap Functor(u) = {}
      BY <3>1, PlacesDiffer
    <3>3. \A i \in Indexes : call[u].args[i] \notin s
      BY <1>2, <2>2, <3>1 DEF CallInv
    <3> QED
      BY <1>1, <1>3, <3>1, <3>2, <3>3, CallKept
  <2> QED
    BY <2>1, <2>2
<1> QED
  BY <1>1, <1>4, <1>6, <1>7 DEF Parts

\* Two places are filled one after the other.
LEMMA PutTwo ==
    ASSUME NEW w, NEW h, NEW g, NEW s, s = {h, g}, h # g, NEW new,
           NEW v, v = Put1At(w, h, new[h])
    PROVE  Placed(w, s, new) = Put1At(v, g, new[g])
BY DEF Placed, Put1At

LEMMA BindKeeps ==
    ASSUME Parts, NEW t \in Threads, NEW x \in Vars, NEW y \in Vars, Bind(t, x, y)
    PROVE  Parts'
<1> DEFINE h == <<t, "kernel">>
           g == <<t, "queue">>
           new == [z \in Functor(t) |-> IF z = <<t, "kernel">> THEN wrapper[x]
                                         ELSE wrapper[y]]
           s == Functor(t)
           k == wrapper[x]
           q == wrapper[y]
           r1 == Retained(refs, k)
           w1 == Put1At(wrapper, h, k)
           r2 == Retained(r1, q)
<1>1. /\ Core /\ FunctorInv /\ KernelOf(t) = Null /\ Is(x, "kernel")
      /\ Is(y, "queue") /\ Put(s, new, object, r2, running)
      /\ size' = size /\ call' = call /\ Ledger(refs, wrapper)
  BY LedgerNow DEF Bind, Parts
<1>2. /\ s = {h, g} /\ h # g /\ new[h] = k /\ new[g] = q
      /\ h \in Holders /\ g \in Holders /\ x \in Holders /\ y \in Holders
      /\ y # h
  BY FunctorPlaces, PlacesDiffer
<1>3. wrapper[h] = Null /\ wrapper[g] = Null
  BY <1>1 DEF FunctorInv, KernelOf, QueueOf
<1>4. call[t].at = 0
  BY <1>1 DEF Parts, CallInv
<1>5. /\ k \in Objects /\ Known(k) /\ object[k].kind = "kernel"
      /\ q \in Objects /\ Known(q) /\ object[q].kind = "queue"
  BY <1>1, <1>2, HandleFacts DEF Is, KindOf
<1>s. s = Functor(t) /\ wrapper[x] = k /\ wrapper[y] = q
  OBVIOUS
<1> HIDE DEF h, g, s, new, k, q
<1>6. Ledger(r1, w1)
  BY <1>1, <1>2, <1>3, <1>5, <1>s, LedgerRetained
<1>7. w1[g] = Null /\ w1[y] = q
  BY <1>2, <1>3, <1>s, Put1AtAt
<1> HIDE DEF r1, w1
<1>8. Ledger(r2, Put1At(w1, g, q))
  BY <1>1, <1>2, <1>5, <1>6, <1>7, LedgerRetained
<1>9. Ledger(r2, Placed(wrapper, s, new))
  <2>1. w1 = Put1At(wrapper, h, new[h])
    BY <1>2 DEF w1
  <2>2. Placed(wrapper, s, new) = Put1At(w1, g, new[g])
    BY <1>2, <2>1, PutTwo
  <2> QED
    BY <1>2, <1>8, <2>2
<1>10. \A z \in s : new[z] \in Objects \cup {Null}
  BY <1>2, <1>5
<1>11. k # Null /\ q # Null
  BY <1>5, RuntimeAssumption
<1> HIDE DEF r2
<1> QED
  BY <1>1, <1>2, <1>4, <1>5, <1>9, <1>10, <1>11, <1>s, FunctorKeeps DEF h, g

LEMMA HeldInSame ==
    ASSUME NEW w, NEW v, NEW s, \A h \in s : w[h] = v[h]
    PROVE  HeldIn(w, s) = HeldIn(v, s)
<1>1. \A o : {h \in s : w[h] = o} = {h \in s : v[h] = o}
  OBVIOUS
<1> QED
  BY <1>1 DEF HeldIn

LEMMA AssignFunctorKeeps ==
    ASSUME Parts, NEW t \in Threads, NEW u \in Threads, AssignFunctor(t, u)
    PROVE  Parts'
<1> DEFINE h == <<t, "kernel">>
           g == <<t, "queue">>
           s == Functor(t)
           new == [z \in Functor(t) |-> wrapper[<<u, z[2]>>]]
           k == KernelOf(u)
           q == QueueOf(u)
           r1 == Assigned(<<t, "kernel">>, <<u, "kernel">>)
           w1 == Put1At(wrapper, h, k)
           d == {<<t, "queue">>}
           r2 == Released(r1, HeldIn(wrapper, d))
           w2 == Emptied(w1, d)
           r3 == Retained(r2, q)
<1>1. /\ Core /\ FunctorInv /\ t # u /\ call[t].at = 0 /\ k # Null
      /\ Put(s, new, object, r3, running) /\ size' = size /\ call' = call
  BY DEF AssignFunctor, Parts
<1>2. /\ s = {h, g} /\ h # g /\ new[h] = k /\ new[g] = q
      /\ h \in Holders /\ g \in Holders /\ h # <<u, "kernel">>
      /\ <<u, "kernel">> \in Holders /\ <<u, "queue">> \in Holders
      /\ <<u, "queue">> # h /\ <<u, "queue">> # g
  BY <1>1, FunctorPlaces, PlacesDiffer DEF KernelOf, QueueOf
<1>3. /\ k \in Objects /\ Known(k) /\ object[k].kind = "kernel"
      /\ q \in Objects /\ Known(q) /\ object[q].kind = "queue" /\ q # Null
  BY <1>1, <1>2, HandleFacts DEF FunctorInv, KernelOf, QueueOf
<1>4. /\ s = Functor(t) /\ d = {g} /\ d \in SUBSET Holders
      /\ wrapper[<<u, "kernel">>] = k /\ wrapper[<<u, "queue">>] = q
      /\ r1 = Assigned(h, <<u, "kernel">>)
  BY <1>2 DEF KernelOf, QueueOf
<1> HIDE DEF h, g, s, new, k, q, d
<1>5. Ledger(r1, w1)
  BY <1>1, <1>2, <1>4, AssignedLedger
<1>6. w1[g] = wrapper[g] /\ w1[<<u, "queue">>] = q
  BY <1>2, <1>4, Put1AtAt
<1> HIDE DEF r1, w1
<1>7. HeldIn(wrapper, d) = HeldIn(w1, d)
  BY <1>4, <1>6, HeldInSame
<1>8. Ledger(r2, w2)
  BY <1>4, <1>5, <1>7, LedgerReleased
<1>9. w2[g] = Null /\ w2[<<u, "queue">>] = q
  BY <1>2, <1>4, <1>6, EmptiedAt
<1>10. Put1At(w2, g, q) = Put1At(w1, g, q)
  BY <1>4, EmptiedPut1
<1> HIDE DEF r2, w2
<1>11. Ledger(r3, Put1At(w2, g, q))
  BY <1>1, <1>2, <1>3, <1>8, <1>9, LedgerRetained
<1>12. Ledger(r3, Placed(wrapper, s, new))
  <2>1. w1 = Put1At(wrapper, h, new[h])
    BY <1>2 DEF w1
  <2>2. Placed(wrapper, s, new) = Put1At(w1, g, new[g])
    <3>1. s = {h, g} /\ h # g
      BY <1>2
    <3> QED
      BY <2>1, <3>1, PutTwo
  <2> QED
    BY <1>2, <1>10, <1>11, <2>2
<1>13. \A z \in s : new[z] \in Objects \cup {Null}
  BY <1>2, <1>3
<1> HIDE DEF r3
<1> QED
  BY <1>1, <1>2, <1>3, <1>4, <1>12, <1>13, FunctorKeeps DEF h, g

LEMMA DestroyFunctorKeeps ==
    ASSUME Parts, NEW t \in Threads, DestroyFunctor(t)
    PROVE  Parts'
<1> DEFINE s == Functor(t)
           new == [z \in Functor(t) |-> Null]
           r == Released(refs, HeldIn(wrapper, s))
<1>1. /\ Core /\ call[t].at = 0 /\ Put(s, new, object, r, running)
      /\ size' = size /\ call' = call
  BY DEF DestroyFunctor, Destroyed, Parts
<1>2. s \in SUBSET Holders /\ s = {<<t, "kernel">>, <<t, "queue">>}
  BY PlacesDiffer DEF Holders
<1>3. /\ Emptied(wrapper, s) = Placed(wrapper, s, new) /\ \A z \in s : new[z] = Null
      /\ s = Functor(t)
  BY DEF Emptied
<1> HIDE DEF s, new
<1>4. Ledger(r, Emptied(wrapper, s))
  BY <1>1, <1>2, LedgerNow, LedgerReleased
<1>5. new[<<t, "kernel">>] = Null /\ new[<<t, "queue">>] = Null
  BY <1>2, <1>3
<1> HIDE DEF r
<1> QED
  BY <1>1, <1>3, <1>4, <1>5, FunctorKeeps

LEMMA LaunchKeeps ==
    ASSUME Parts, CallType, NEW t \in Threads, Launch(t)
    PROVE  Parts'
<1> DEFINE k == KernelOf(t)
           on == {k, QueueOf(t)} \cup ArgsOf(k)
<1>1. /\ Core /\ FunctorInv /\ on \subseteq Alive /\ size' = size
      /\ call' = [call EXCEPT ![t] = NoCall] /\ call[t].at = Arity + 1
  BY DEF Parts, Launch
<1>2. /\ k # Null /\ k \in Objects /\ object[k].kind = "kernel"
      /\ object[QueueOf(t)].kind = "queue" /\ CallInv(t)
  <2>1. call[t].at # 0
    BY <1>1, RuntimeAssumption
  <2>2. k # Null /\ CallInv(t)
    BY <2>1 DEF Parts, CallInv
  <2>3. k \in Objects
    BY <1>1, CoreTypes
  <2> QED
    BY <1>1, <2>2, <2>3 DEF FunctorInv
<1>3. Work(on)
  <2>1. Work(ArgsOf(k))
    BY <1>1, <1>2, ArgsWork
  <2>2. Work({k, QueueOf(t)})
    BY <1>1, <1>2 DEF Work, Known, Events
  <2> QED
    BY <2>1, <2>2 DEF Work
<1> HIDE DEF k, on
<1>4. PICK e \in Objects, ys \in {{}} \cup {{x} : x \in Vars} :
          /\ CanBe(e, "event") /\ \A y \in ys : wrapper[y] = Null
          /\ Put(ys, [y \in ys |-> e], WithNew(e, "event", on),
                 IF ys = {} THEN refs ELSE Owned(refs, e), running \cup {e})
  BY DEF Launch, k, on
<1> DEFINE new == [y \in ys |-> e]
           obj == WithNew(e, "event", on)
           r == IF ys = {} THEN refs ELSE Owned(refs, e)
           run == running \cup {e}
<1>5. ~Known(e) /\ obj = WithNew(e, "event", on) /\ ys \subseteq Vars
  BY <1>4 DEF CanBe, Known
<1>6. Makes(ys, new, r, run, e, "event", on, obj)
  <2>1. CASE ys = {}
    <3>1. Put({}, new, obj, refs, running \cup {e}) /\ r = refs
      BY <1>4, <2>1
    <3> HIDE DEF new, obj, r
    <3>2. Makes({}, new, refs, running \cup {e}, e, "event", on, obj)
      BY <1>1, <1>3, <1>5, <3>1, EventDropped
    <3> QED
      BY <2>1, <3>1, <3>2
  <2>2. ASSUME NEW y \in Vars, Only(ys, y)
        PROVE  Makes(ys, new, r, run, e, "event", on, obj)
    <3>1. ys # {} /\ wrapper[y] = Null /\ new[y] = e
      BY <1>4, <2>2 DEF Only
    <3>2. Put(ys, new, obj, r, running \cup {e}) /\ r = Owned(refs, e)
      BY <1>4, <3>1
    <3>3. r = Owned(Lost(refs, wrapper[y]), e)
      BY <3>1, <3>2 DEF Lost
    <3> HIDE DEF new, obj, r
    <3> QED
      BY <1>1, <1>3, <1>5, <2>2, <3>1, <3>2, <3>3, EventPut
  <2> QED
    BY <2>1, <2>2 DEF Only
<1>v. \A y \in ys : wrapper[y] = Null
  BY <1>4
<1> HIDE DEF new, obj, r, run
<1>7. /\ Change(ys, new, obj, r, run) /\ Follows(obj, r, run)
      /\ \A q \in Objects : Known(q) => obj[q].args = object[q].args
  BY <1>1, <1>6, NewChange
<1>8. ASSUME NEW u \in Threads PROVE CallInv(u)'
  <2>1. CASE u = t
    <3>1. call'[t] = NoCall
      BY <1>1 DEF CallType
    <3> QED
      BY <2>1, <3>1 DEF CallInv, NoCall
  <2>2. CASE u # t
    <3>1. call'[u] = call[u] /\ CallInv(u)
      BY <1>1, <2>2 DEF CallType, Parts
    <3>2. CASE call[u].at = 0
      BY <3>1, <3>2 DEF CallInv
    <3>3. CASE call[u].at # 0
      <4>1. /\ KernelOf(u) # Null
            /\ \A i \in Indexes : call[u].args[i] \in Vars
                                  /\ wrapper[call[u].args[i]] # Null
        BY <3>1, <3>3 DEF CallInv
      <4>2. \A i \in Indexes : call[u].args[i] \notin ys
        BY <1>v, <4>1
      <4>3. KernelOf(u) \in Objects /\ Known(KernelOf(u))
        BY <1>1, <4>1, FunctorPlaces, HandleFacts DEF KernelOf
      <4>4. ys \cap Functor(u) = {}
        BY <1>5, PlacesDiffer
      <4> QED
        BY <1>1, <1>7, <3>1, <4>2, <4>3, <4>4, CallKept
    <3> QED
      BY <3>2, <3>3
  <2> QED
    BY <2>1, <2>2
<1> QED
  BY <1>1, <1>5, <1>7, <1>8, CallsKeep

LEMMA FunctorStepKeeps ==
    ASSUME Parts, CallType, NEW t \in Threads, FunctorStep(t)
    PROVE  Parts'
BY BindKeeps, AssignFunctorKeeps, DestroyFunctorKeeps, CallStartsKeeps,
   SetNextKeeps, SetNextFailsKeeps, CallFailsKeeps, LaunchKeeps DEF FunctorStep

LEMMA ProgramKeepsParts ==
    ASSUME Parts, CallType, Program
    PROVE  Parts'
<1>0. call' = call
  BY DEF Program
<1>1. CASE \E x, y \in Vars : \E i \in Indexes : SetArg(x, i, y)
  BY <1>0, <1>1, SetArgKeeps
<1>2. CASE ~ \E x, y \in Vars : \E i \in Indexes : SetArg(x, i, y)
  BY <1>0, <1>2, ProgramStep
<1> QED
  BY <1>1, <1>2

----------------------------------------------------------------------------
(* The types of calls                                                      *)

CallOf == [at : 0 .. Arity + 1, args : [Indexes -> Vars \cup {Null}]]

LEMMA CallTyped == CallType <=> call \in [Threads -> CallOf]
BY DEF CallType, CallOf

LEMMA NoCallTyped == NoCall \in CallOf
<1>1. NoArgs \in [Indexes -> Vars \cup {Null}]
  BY DEF NoArgs
<1>2. 0 \in 0 .. Arity + 1
  BY RuntimeAssumption
<1> QED
  BY <1>1, <1>2 DEF NoCall, CallOf

LEMMA NextAt ==
    ASSUME NEW i \in Indexes PROVE i + 1 \in 0 .. Arity + 1
BY RuntimeAssumption DEF Indexes

LEMMA CallTypeKept ==
    ASSUME CallType, call' = call \/ Program \/ \E t \in Threads : FunctorStep(t)
    PROVE  CallType'
<1>1. CASE call' = call
  BY <1>1 DEF CallType
<1>3. ASSUME NEW t \in Threads, Call(t) PROVE CallType'
  <2>1. PICK args \in [Indexes -> {x \in Vars : wrapper[x] # Null
                                               /\ KindOf(x) \in Passable}] :
            call' = [call EXCEPT ![t] = [at |-> 1, args |-> args]]
    BY <1>3 DEF Call
  <2>2. 1 \in 0 .. Arity + 1 /\ args \in [Indexes -> Vars \cup {Null}]
    BY RuntimeAssumption
  <2>3. [at |-> 1, args |-> args] \in CallOf
    BY <2>2 DEF CallOf
  <2> QED
    BY <2>1, <2>3, CallTyped DEF CallType, CallOf
<1>4. ASSUME NEW t \in Threads, SetNext(t) \/ SetNextFails(t) PROVE CallType'
  <2> DEFINE n == call[t].at + 1
  <2>1. n \in 0 .. Arity + 1
    BY <1>4, NextAt DEF SetNext, SetNextFails
  <2>2. call' = [call EXCEPT ![t].at = n]
    BY <1>4 DEF SetNext, SetNextFails
  <2> HIDE DEF n
  <2>3. [call[t] EXCEPT !.at = n] \in CallOf
    BY <2>1 DEF CallType, CallOf
  <2>4. call' \in [Threads -> CallOf]
    BY <2>2, <2>3, CallTyped
  <2> QED
    BY <2>4 DEF CallType, CallOf
<1>6. ASSUME NEW t \in Threads, call' = [call EXCEPT ![t] = NoCall] PROVE CallType'
  <2>1. call' \in [Threads -> CallOf]
    BY <1>6, NoCallTyped, CallTyped
  <2> QED
    BY <2>1 DEF CallType, CallOf
<1>7. CASE Program
  BY <1>1, <1>7 DEF Program
<1>8. ASSUME NEW t \in Threads, FunctorStep(t) PROVE CallType'
  <2>1. CASE call' = call
    BY <1>1, <2>1
  <2>2. CASE ~(call' = call)
    BY <1>3, <1>4, <1>6, <1>8, <2>2
    DEF FunctorStep, Bind, AssignFunctor, DestroyFunctor, CallFails, Launch
  <2> QED
    BY <2>1, <2>2
<1> QED
  BY <1>1, <1>7, <1>8

----------------------------------------------------------------------------
(* The diagnostic program                                                  *)

Names == {"context", "queue", "in1"}
KindNamed(name) == IF name = "in1" THEN "buffer" ELSE name

LEMMA StaticPlaces ==
    /\ \A name \in Names : Static(name) \in Statics /\ Static(name) \in Holders
    /\ \A h \in Statics : \E name \in Names : h = Static(name)
    /\ \A m, n \in Names : Static(m) = Static(n) => m = n
    /\ Has \subseteq Names
<1>1. Has \subseteq Names
  BY DEF Has, Names
<1>2. \A m, n \in Names : Static(m) = Static(n) => m = n
  BY DEF Static, Names
<1>3. \A name \in Names : Static(name) \in Statics
  BY DEF Static, Names, Statics
<1>4. Statics = {Static("context"), Static("queue"), Static("in1")}
  BY PlacesDiffer
<1> QED
  BY <1>1, <1>2, <1>3, <1>4 DEF Names, Holders

\* A handle whose object is gone has no reference.
LEMMA DeadHandle ==
    ASSUME Core, NEW h \in Holders, wrapper[h] # Null, ~Lives(h)
    PROVE  refs.surplus[wrapper[h]] < 0 /\ wrapper[h] \in Objects \ Devices
<1> DEFINE o == wrapper[h]
<1>1. o \in Objects \ Devices
  BY HandleFacts, CoreTypes DEF Lives
<1>2. refs.own[o] = 0
  BY <1>1, CoreTypes DEF Lives, Counts
<1>3. HeldIn(wrapper, Holders)[o] > 0 /\ HeldIn(wrapper, Holders)[o] \in Nat
  BY <1>1, HeldInSome, HeldInType
<1>4. refs.own[o] = HeldIn(wrapper, Holders)[o] + refs.surplus[o]
      /\ refs.surplus[o] \in Int
  BY <1>1, CoreTypes DEF Sound, Counts
<1> HIDE DEF o
<1> QED
  BY <1>1, <1>2, <1>3, <1>4 DEF o

\* Where the diagnostic program runs there are no functors and no elements.
LEMMA OnlyStatics ==
    ASSUME DiagnosticInv, stage # "off"
    PROVE  \A h \in Elements \cup Functors \cup Vars : wrapper[h] = Null
<1>1. \A h \in Elements \cup Functors \cup Vars : h \in Holders /\ h \notin Statics
  BY PlacesDiffer DEF Holders
<1>2. \A h \in Holders : wrapper[h] # Null => h \in Statics
  BY StaticPlaces DEF DiagnosticInv
<1> QED
  BY <1>1, <1>2

LEMMA OnlyStaticsNext ==
    ASSUME DiagnosticInv', stage' # "off"
    PROVE  \A h \in Elements \cup Functors \cup Vars : wrapper'[h] = Null
<1>1. \A h \in Elements \cup Functors \cup Vars : h \in Holders /\ h \notin Statics
  BY PlacesDiffer DEF Holders
<1>2. \A h \in Holders : wrapper'[h] # Null => h \in Statics
  <2>1. Has' \subseteq Names
    BY DEF Has, Names
  <2> QED
    BY <2>1, StaticPlaces DEF DiagnosticInv
<1> QED
  BY <1>1, <1>2

\* So all that matters of a step is what it does to these handles.
LEMMA DiagnosticKeeps ==
    ASSUME Parts, DiagnosticInv, stage # "off", call' = call,
           Core', DiagnosticInv', stage' # "off"
    PROVE  Parts'
<1>1. ElementsInv'
  BY OnlyStaticsNext DEF ElementsInv
<1>2. FunctorInv'
  BY OnlyStaticsNext, FunctorPlaces DEF FunctorInv, KernelOf, QueueOf
<1>3. ASSUME NEW t \in Threads PROVE CallInv(t)'
  <2>0. CallInv(t) /\ KernelOf(t) = Null
    BY OnlyStatics, FunctorPlaces DEF Parts, KernelOf
  <2>1. call[t].at = 0
    BY <2>0 DEF CallInv
  <2> QED
    BY <2>1 DEF CallInv
<1> QED
  BY <1>1, <1>2, <1>3 DEF Parts

\* The program goes on and holds what it has held.
LEMMA StageKeeps ==
    ASSUME Parts, DiagnosticInv, stage # "off", stage' # "off",
           stage # "failed", UNCHANGED <<handleVars, call>>, Has' = Has
    PROVE  Parts' /\ DiagnosticInv'
<1>1. /\ object' = object /\ refs' = refs /\ running' = running
      /\ wrapper' = wrapper /\ size' = size /\ call' = call
  BY DEF handleVars, runtimeVars
<1>2. Core'
  BY <1>1 DEF Parts, Core, HandlesTypeOK, RuntimeTypeOK
<1>3. DiagnosticInv'
  BY <1>1 DEF DiagnosticInv, KindOf
<1> QED
  BY <1>1, <1>2, <1>3, DiagnosticKeeps

LEMMA DiagCreateKeeps ==
    ASSUME Parts, DiagnosticInv, NEW from, NEW name \in Names, NEW kind,
           NEW needs, NEW to, DiagCreate(from, name, kind, needs, to),
           from \notin {"off", "failed"}, to # "off",
           name \notin Has, Has' = Has \cup {name},
           kind = KindNamed(name), needs \subseteq Has \cap {"context"},
           name = "context" => needs = {}
    PROVE  Parts' /\ DiagnosticInv'
<1> DEFINE on == {wrapper[Static(n)] : n \in needs}
           h == Static(name)
<1>1. /\ Core /\ stage = from /\ stage' = to /\ size' = size /\ call' = call
      /\ Ledger(refs, wrapper)
  BY LedgerNow DEF Parts, DiagCreate
<1>2. h \in Holders /\ wrapper[h] = Null
  BY <1>1, StaticPlaces DEF DiagnosticInv
<1>3. \A o \in Objects \ Devices : refs.surplus[o] = 0
  BY <1>1 DEF DiagnosticInv
<1>4. \A n \in on : /\ n \in Alive /\ Known(n) /\ object[n].kind = "context"
                    /\ Rank(object, n) = 0
  <2> SUFFICES ASSUME "context" \in needs
               PROVE  LET c == wrapper[Static("context")]
                      IN  /\ c \in Alive /\ Known(c) /\ object[c].kind = "context"
                          /\ Rank(object, c) = 0
    OBVIOUS
  <2> DEFINE c == wrapper[Static("context")]
  <2>1. Static("context") \in Holders /\ c # Null /\ object[c].kind = "context"
    BY <1>1, StaticPlaces DEF DiagnosticInv, Names, KindOf
  <2>2. c \in Alive
    BY <1>1, <1>3, <2>1, DeadHandle DEF Lives
  <2> QED
    BY <2>1, <2>2 DEF Known, Rank
<1> HIDE DEF on
<1>5. kind \in Kinds \ {"device"} /\ (name # "context" => RankOf(kind, on) > 0)
  <2>1. kind \in Kinds \ {"device"}
    BY DEF KindNamed, Names, Kinds
  <2>2. name # "context" => kind \in {"queue", "buffer"}
    BY DEF KindNamed, Names
  <2>3. kind \in {"queue", "buffer"} => RankOf(kind, on) \in {1, 2}
    BY DEF RankOf
  <2> QED
    BY <2>1, <2>2, <2>3
<1>6. name = "context" => on = {}
  BY DEF on
<1>7. PICK o \in Objects :
          /\ CanBe(o, kind)
          /\ Put({Static(name)}, [z \in {Static(name)} |-> o],
                 WithNew(o, kind, on), Owned(refs, o), running)
  BY DEF DiagCreate, on
<1> DEFINE s == {h}
           new == [z \in {h} |-> o]
           obj == WithNew(o, kind, on)
           r == Owned(refs, o)
<1>8. /\ ~Known(o) /\ o # Null /\ on \in SUBSET Alive
      /\ Put(s, new, obj, r, running) /\ obj = WithNew(o, kind, on)
  BY <1>4, <1>7, RuntimeAssumption DEF CanBe, Known
<1>9. /\ \A z \in s : z = h /\ new[z] = o
      /\ h \in s /\ s \in SUBSET Holders
      /\ Put1At(wrapper, h, o) = Placed(wrapper, s, new)
  BY <1>2 DEF Put1At
<1>10. /\ r \in Counts /\ r.surplus = refs.surplus
  BY <1>1, CoreTypes DEF Owned, Counts
<1> HIDE DEF s, new, obj
<1>11. \A n \in on : Known(n) /\ Rank(object, n) < Rank(obj, o)
  <2>1. Rank(obj, o) = RankOf(kind, on)
    BY <1>1, <1>4, <1>8, NewRank
  <2> QED
    BY <1>4, <1>5, <1>6, <2>1
<1>12. /\ Sound(obj, r, Put1At(wrapper, h, o))
       /\ \A q \in Objects \ {o} : r.own[q] > 0 => q \in Alive
  <2> HIDE DEF h
  <2> QED
    BY <1>1, <1>2, <1>5, <1>8, <1>11, OwnedNew
<1> HIDE DEF r, h
<1>13. Makes(s, new, r, running, o, kind, on, obj)
  BY <1>5, <1>8, <1>9, <1>10, <1>11, <1>12 DEF Makes
<1>14. /\ Change(s, new, obj, r, running) /\ Follows(obj, r, running)
       /\ obj[o].kind = kind
  BY <1>1, <1>13, NewChange
<1>15. Core'
  BY <1>1, <1>14, PutCore, SizeType
<1>16. refs' = r /\ running' = running
  BY <1>8, PutIsPlaced
<1>17. /\ wrapper'[h] = o /\ object'[o].kind = kind
       /\ \A z \in Holders \ {h} :
              /\ wrapper'[z] = wrapper[z]
              /\ wrapper[z] # Null => object'[wrapper[z]].kind = KindOf(z)
  <2>1. wrapper'[h] = o /\ object'[o].kind = kind
    BY <1>1, <1>2, <1>8, <1>9, <1>14, PutHandles
  <2>2. \A z \in Holders \ {h} : z \notin s
    BY <1>9
  <2> QED
    BY <1>1, <1>14, <2>1, <2>2, HandleKept
<1>18. DiagnosticInv'
  <2>1. running' = {}
    BY <1>1, <1>16 DEF DiagnosticInv
  <2>2. \A z \in Holders : wrapper'[z] # Null => \E n \in Has' : z = Static(n)
    BY <1>1, <1>17 DEF DiagnosticInv, h
  <2>3. ASSUME NEW n \in Has'
        PROVE  /\ wrapper'[Static(n)] # Null
               /\ object'[wrapper'[Static(n)]].kind = KindNamed(n)
    <3>1. CASE n = name
      BY <1>8, <1>17, <3>1 DEF h
    <3>2. CASE n # name
      <4>1. n \in Has /\ n \in Names
        BY <3>2, StaticPlaces
      <4>2. Static(n) \in Holders \ {h}
        BY <3>2, <4>1, StaticPlaces DEF h
      <4>3. wrapper[Static(n)] # Null /\ KindOf(Static(n)) = KindNamed(n)
        BY <1>1, <4>1 DEF DiagnosticInv, KindNamed
      <4> QED
        BY <1>17, <4>2, <4>3
    <3> QED
      BY <3>1, <3>2
  <2>4. \A q \in Objects \ Devices : refs'.surplus[q] = 0
    BY <1>3, <1>10, <1>16
  <2> QED
    BY <2>1, <2>2, <2>3, <2>4 DEF DiagnosticInv, KindNamed, KindOf
<1> QED
  BY <1>1, <1>15, <1>18, DiagnosticKeeps

LEMMA HeldInLess ==
    ASSUME NEW w, NEW s \in SUBSET Holders, NEW o \in Objects
    PROVE  HeldIn(w, s)[o] <= HeldIn(w, Holders)[o]
<1>1. IsFiniteSet({h \in Holders : w[h] = o})
  BY HoldersFinite, FS_Subset
<1>2. {h \in s : w[h] = o} \subseteq {h \in Holders : w[h] = o}
  OBVIOUS
<1>3. Cardinality({h \in s : w[h] = o}) <= Cardinality({h \in Holders : w[h] = o})
  BY <1>1, <1>2, FS_Subset
<1> QED
  BY <1>3 DEF HeldIn

\* Handles that have their references are released without a failure.
LEMMA ReleasedExact ==
    ASSUME NEW r, NEW w, NEW s \in SUBSET Holders, Ledger(r, w),
           NEW o \in Objects \ Devices, r.surplus[o] >= 0
    PROVE  Released(r, HeldIn(w, s)).surplus[o] = r.surplus[o]
<1> DEFINE n == HeldIn(w, s)
<1>1. /\ r.own[o] = HeldIn(w, Holders)[o] + r.surplus[o]
      /\ r.surplus[o] \in Int /\ r.own[o] \in Nat
  BY DEF Ledger, Sound, Counts
<1>2. HeldIn(w, Holders)[o] \in Nat /\ n[o] \in Nat /\ n[o] <= HeldIn(w, Holders)[o]
  BY HeldInType, HeldInLess
<1> HIDE DEF n
<1>3. ~(r.own[o] < n[o])
  BY <1>1, <1>2
<1> QED
  BY <1>3 DEF Released, n

\* The statics but the buffer.
Kept2 == {Static("queue"), Static("context")}

\* The buffer has been dealt with, the rest is freed; r and w are the counts
\* and the handles between the two.
LEMMA FreedLedger ==
    ASSUME Core, NEW r, Ledger(r, Emptied(wrapper, {Static("in1")})),
           \A o \in Objects \ Devices : r.surplus[o] >= 0
    PROVE  /\ Ledger(freeResources(r), Emptied(wrapper, Statics))
           /\ \A o \in Objects \ Devices :
                  freeResources(r).surplus[o] = r.surplus[o]
<1> DEFINE w == Emptied(wrapper, {Static("in1")})
<1>1. /\ Kept2 \in SUBSET Holders /\ Static("in1") \in Holders
      /\ Static("in1") \notin Kept2 /\ Statics = Kept2 \cup {Static("in1")}
  <2>1. \A m, n \in Names : Static(m) = Static(n) => m = n
    BY StaticPlaces
  <2> QED
    BY <2>1, StaticPlaces, PlacesDiffer DEF Kept2, Names
<1>2. \A h \in Kept2 : w[h] = wrapper[h]
  BY <1>1, EmptiedAt
<1> HIDE DEF w
<1>3. HeldIn(wrapper, Kept2) = HeldIn(w, Kept2)
  BY <1>2, HeldInSame
<1>4. freeResources(r) = Released(r, HeldIn(w, Kept2))
  BY <1>3 DEF freeResources, Kept2
<1>5. Ledger(r, w)
  BY DEF w
<1>6. Ledger(freeResources(r), Emptied(w, Kept2))
  BY <1>1, <1>4, <1>5, LedgerReleased
<1>7. Emptied(w, Kept2) = Emptied(wrapper, Statics)
  BY <1>1 DEF w, Emptied, Placed
<1>8. \A o \in Objects \ Devices : freeResources(r).surplus[o] = r.surplus[o]
  BY <1>1, <1>4, <1>5, ReleasedExact
<1> QED
  BY <1>6, <1>7, <1>8

\* The program leaves; only a buffer may have a reference too many.
LEMMA LeaveKeeps ==
    ASSUME Parts, DiagnosticInv, stage \notin {"off", "failed"}, NEW r,
           NEW to \in {"passed", "failed"}, Leave(r, to),
           Ledger(r, Emptied(wrapper, Statics)),
           \A o \in Objects \ Devices :
               r.surplus[o] # 0 => to = "failed" /\ object[o].kind = "buffer"
                                   /\ r.surplus[o] > 0
    PROVE  Parts' /\ DiagnosticInv'
<1> DEFINE s == Statics
           new == [h \in Statics |-> Null]
<1>1. /\ Core /\ stage' = to /\ size' = size /\ call' = call
      /\ Put(s, new, object, r, running) /\ running = {}
  BY DEF Parts, Leave, DiagnosticInv
<1>2. /\ s \in SUBSET Holders /\ \A h \in s : new[h] = Null
      /\ Emptied(wrapper, Statics) = Placed(wrapper, s, new)
  BY DEF Holders, Emptied
<1> HIDE DEF new
<1>3. Change(s, new, object, r, running) /\ Follows(object, r, running)
  <2> HIDE DEF s
  <2> QED
    BY <1>1, <1>2, LedgerChange
<1>4. Core'
  BY <1>1, <1>3, PutCore, SizeType
<1>5. refs' = r /\ running' = {}
  BY <1>1, PutIsPlaced
<1>6. \A h \in Holders : wrapper'[h] = Null
  <2>1. \A h \in Holders : h \notin Statics => wrapper[h] = Null
    BY OnlyStatics DEF Holders
  <2> QED
    BY <1>1, <1>2, <1>3, <2>1, PutHandles
<1>7. Has' = {}
  BY <1>1 DEF Has
<1>8. ASSUME NEW o \in Objects \ Devices, refs'.surplus[o] # 0
      PROVE  to = "failed" /\ object'[o].kind = "buffer"
  <2>1. to = "failed" /\ object[o].kind = "buffer" /\ r.surplus[o] > 0
    BY <1>5, <1>8
  <2>2. \A h \in Holders : wrapper'[h] # o
    BY <1>6, RuntimeAssumption
  <2>3. HeldIn(wrapper', Holders)[o] = 0
    BY <2>2, HeldInNone
  <2>4. Sound(object', refs', wrapper')
    BY <1>4 DEF Core
  <2>5. refs'.own[o] = 0 + r.surplus[o] /\ r.surplus[o] \in Int
    BY <1>5, <2>3, <2>4 DEF Sound, Ledger, Counts
  <2>6. object'[o].kind # "none"
    BY <2>1, <2>4, <2>5 DEF Sound
  <2>7. object'[o].kind \in {object[o].kind, "none"}
    BY <1>1, <1>3, PutHandles
  <2> QED
    BY <2>1, <2>6, <2>7
<1>9. DiagnosticInv'
  BY <1>1, <1>5, <1>6, <1>7, <1>8 DEF DiagnosticInv
<1> QED
  BY <1>1, <1>4, <1>9, DiagnosticKeeps

LEMMA DumpErrorKeeps ==
    ASSUME Parts, DiagnosticInv, dump_error
    PROVE  Parts' /\ DiagnosticInv'
<1> DEFINE h == Static("in1")
           b == wrapper[h]
           r == Lost(refs, b)
<1>1. /\ Core /\ stage \notin {"off", "passed", "failed"}
      /\ Leave(freeResources(r), "failed")
      /\ Ledger(refs, wrapper) /\ h \in Holders
  BY LedgerNow, StaticPlaces DEF Parts, dump_error, Names
<1>2. \A o \in Objects \ Devices : refs.surplus[o] = 0
  BY <1>1 DEF DiagnosticInv
<1>3. b # Null => object[b].kind = "buffer"
  <2>1. b # Null => \E name \in Has : h = Static(name)
    BY <1>1 DEF DiagnosticInv
  <2>2. b # Null => "in1" \in Has
    BY <2>1, StaticPlaces DEF Names
  <2> QED
    BY <1>1, <2>2 DEF DiagnosticInv, KindOf
<1>4. b \in Objects \cup {Null} /\ refs \in Counts
  BY <1>1, HandleFacts, CoreTypes
<1>5. \A o \in Objects \ Devices :
          r.surplus[o] = IF b = o THEN 1 ELSE 0
  BY <1>2, <1>4, RuntimeAssumption DEF Lost, Counts, Counted
<1>6. Ledger(r, Emptied(wrapper, {h}))
  <2> HIDE DEF h
  <2> QED
    BY <1>1, LedgerLost
<1> HIDE DEF b, r
<1>7. \A o \in Objects \ Devices : r.surplus[o] >= 0
  BY <1>5
<1>8. /\ Ledger(freeResources(r), Emptied(wrapper, Statics))
      /\ \A o \in Objects \ Devices : freeResources(r).surplus[o] = r.surplus[o]
  BY <1>1, <1>6, <1>7, FreedLedger
<1>9. \A o \in Objects \ Devices : freeResources(r).surplus[o] # 0 =>
          /\ object[o].kind = "buffer" /\ freeResources(r).surplus[o] > 0
  BY <1>3, <1>5, <1>8, RuntimeAssumption
<1> QED
  BY <1>1, <1>8, <1>9, LeaveKeeps

LEMMA DiagPassesKeeps ==
    ASSUME Parts, DiagnosticInv, DiagPasses
    PROVE  Parts' /\ DiagnosticInv'
<1> DEFINE h == Static("in1")
           d == {h}
           r == Released(refs, HeldIn(wrapper, d))
<1>1. /\ Core /\ stage = "compare" /\ Leave(freeResources(r), "passed")
      /\ Ledger(refs, wrapper) /\ d \in SUBSET Holders
  BY LedgerNow, StaticPlaces DEF Parts, DiagPasses, Names
<1>2. \A o \in Objects \ Devices : refs.surplus[o] = 0
  BY <1>1 DEF DiagnosticInv
<1> HIDE DEF d
<1>3. Ledger(r, Emptied(wrapper, d))
  BY <1>1, LedgerReleased
<1>4. \A o \in Objects \ Devices : r.surplus[o] = 0
  BY <1>1, <1>2, ReleasedExact
<1> HIDE DEF r
<1>5. /\ Ledger(freeResources(r), Emptied(wrapper, Statics))
      /\ \A o \in Objects \ Devices : freeResources(r).surplus[o] = 0
  BY <1>1, <1>3, <1>4, FreedLedger DEF d
<1> QED
  BY <1>1, <1>5, LeaveKeeps

LEMMA DiagnosticStepKeeps ==
    ASSUME Parts, DiagnosticInv, Diagnostic
    PROVE  Parts' /\ DiagnosticInv' /\ call' = call
           /\ (stage \in Stages => stage' \in Stages)
<1>1. CASE general_basic_tests
  <2>1. Has' = Has
    BY <1>1 DEF general_basic_tests, Has
  <2> QED
    BY <1>1, <2>1, StageKeeps DEF general_basic_tests, Stages
<1>2. CASE DiagCreate("context", "context", "context", {}, "queue")
  <2>1. Has = {} /\ Has' = {"context"}
    BY <1>2 DEF DiagCreate, Has
  <2>2. "context" \in Names /\ KindNamed("context") = "context"
    BY DEF Names, KindNamed
  <2>3. Parts' /\ DiagnosticInv'
    BY <1>2, <2>1, <2>2, DiagCreateKeeps
  <2> QED
    BY <1>2, <2>3 DEF DiagCreate, Stages
<1>3. CASE DiagCreate("queue", "queue", "queue", {"context"}, "buffer")
  <2>1. Has = {"context"} /\ Has' = {"context", "queue"}
    BY <1>3 DEF DiagCreate, Has
  <2>2. "queue" \in Names /\ KindNamed("queue") = "queue"
    BY DEF Names, KindNamed
  <2>3. Parts' /\ DiagnosticInv'
    BY <1>3, <2>1, <2>2, DiagCreateKeeps
  <2> QED
    BY <1>3, <2>3 DEF DiagCreate, Stages
<1>4. CASE DiagCreate("buffer", "in1", "buffer", {"context"}, "write")
  <2>1. Has = {"context", "queue"} /\ Has' = {"context", "queue", "in1"}
    BY <1>4 DEF DiagCreate, Has
  <2>2. "in1" \in Names /\ KindNamed("in1") = "buffer"
    BY DEF Names, KindNamed
  <2>3. Parts' /\ DiagnosticInv'
    BY <1>4, <2>1, <2>2, DiagCreateKeeps
  <2> QED
    BY <1>4, <2>3 DEF DiagCreate, Stages
<1>5. ASSUME NEW s \in {<<"write", "read">>, <<"read", "compare">>},
             stage = s[1], stage' = s[2], UNCHANGED <<handleVars, call>>
      PROVE  Parts' /\ DiagnosticInv' /\ call' = call /\ stage' \in Stages
  <2>1. \/ stage = "write" /\ stage' = "read"
        \/ stage = "read" /\ stage' = "compare"
    BY <1>5
  <2>2. Has' = Has
    BY <2>1 DEF Has
  <2> QED
    BY <1>5, <2>1, <2>2, StageKeeps DEF Stages
<1>6. CASE dump_error
  BY <1>6, DumpErrorKeeps DEF dump_error, Leave, Stages
<1>7. CASE DiagPasses
  BY <1>7, DiagPassesKeeps DEF DiagPasses, Leave, Stages
<1> QED
  BY <1>1, <1>2, <1>3, <1>4, <1>5, <1>6, <1>7
  DEF Diagnostic, ocl_device_init, scan_device

----------------------------------------------------------------------------
(* The invariant                                                           *)

LEMMA InitInv == Init => IInv
<1> SUFFICES ASSUME Init PROVE IInv
  OBVIOUS
<1>1. /\ refs = [own |-> [o \in Objects |-> 0], surplus |-> [o \in Objects |-> 0]]
      /\ running = {} /\ wrapper = [h \in Holders |-> Null]
      /\ size = [v \in Vectors |-> 0] /\ call = [t \in Threads |-> NoCall]
      /\ stage \in {"off", "check"}
  BY DEF Init, HandlesInit, RuntimeInit
<1>2. NoArgs \in [Indexes -> Objects \cup {Null}] /\ \A i \in Indexes : NoArgs[i] = Null
  BY DEF NoArgs
<1>3. \A o \in Objects :
          object[o] = [kind |-> IF o \in Devices THEN "device" ELSE "none",
                       needs |-> {}, args |-> NoArgs]
  BY DEF Init, HandlesInit, RuntimeInit, NoObject
<1>4. object \in Table
  <2>1. ASSUME NEW o \in Objects PROVE object[o] \in Object
    <3> DEFINE k == IF o \in Devices THEN "device" ELSE "none"
    <3>1. k \in Kinds \cup {"none"}
      BY DEF Kinds
    <3>2. object[o] = [kind |-> k, needs |-> {}, args |-> NoArgs]
      BY <1>3
    <3> HIDE DEF k
    <3> QED
      BY <1>2, <3>1, <3>2 DEF Object
  <2>2. object = [o \in Objects |-> object[o]]
    BY DEF Init, HandlesInit, RuntimeInit
  <2> QED
    BY <2>1, <2>2 DEF Table
<1>5. refs \in Counts /\ wrapper \in Places /\ size \in [Vectors -> 0 .. N]
  BY <1>1, PlacesAssumption DEF Counts, Places
<1>6. HandlesTypeOK
  BY <1>1, <1>4, <1>5, Typed
<1>a. \A o \in Objects : /\ object[o].needs = {} /\ object[o].args = NoArgs
                         /\ o \in Devices => object[o].kind = "device"
  <2> SUFFICES ASSUME NEW o \in Objects
               PROVE  /\ object[o].needs = {} /\ object[o].args = NoArgs
                      /\ o \in Devices => object[o].kind = "device"
    OBVIOUS
  <2> DEFINE k == IF o \in Devices THEN "device" ELSE "none"
  <2>1. object[o] = [kind |-> k, needs |-> {}, args |-> NoArgs]
    BY <1>3
  <2>2. o \in Devices => k = "device"
    OBVIOUS
  <2> HIDE DEF k
  <2> QED
    BY <2>1, <2>2
<1>7. Shape(object)
  BY <1>2, <1>a, RuntimeAssumption DEF Shape
<1>8. Sound(object, refs, wrapper)
  <2>1. \A o \in Objects : HeldIn(wrapper, Holders)[o] = 0
    BY <1>1, HeldInNone, RuntimeAssumption
  <2> QED
    BY <1>1, <2>1, RuntimeAssumption DEF Sound
<1>9. call \in [Threads -> CallOf]
  BY <1>1, NoCallTyped
<1>10. TypeOK
  BY <1>1, <1>6, <1>9 DEF TypeOK, CallOf, Stages
<1>11. ElementsInv /\ FunctorInv /\ DiagnosticInv
  <2>1. ElementsInv
    BY <1>1 DEF ElementsInv, Holders
  <2>2. FunctorInv
    BY <1>1, FunctorPlaces DEF FunctorInv, KernelOf, QueueOf
  <2>3. stage # "off" => Has = {}
    BY <1>1 DEF Has
  <2>4. DiagnosticInv
    BY <1>1, <2>3 DEF DiagnosticInv
  <2> QED
    BY <2>1, <2>2, <2>4
<1>12. \A t \in Threads : CallInv(t)
  BY <1>1 DEF CallInv, NoCall
<1> QED
  BY <1>6, <1>7, <1>8, <1>10, <1>11, <1>12 DEF IInv, Core

LEMMA NextInv == IInv /\ [Next]_vars => IInv'
<1> SUFFICES ASSUME IInv, [Next]_vars PROVE IInv'
  OBVIOUS
<1>1. Parts /\ CallType /\ DiagnosticInv /\ stage \in Stages
  BY DEF IInv, Parts, TypeOK, CallType
<1>2. CASE UNCHANGED vars
  <2>1. UNCHANGED <<runtimeVars, wrapper, call>> /\ size' = size /\ stage' = stage
    BY <1>2 DEF vars, handleVars
  <2>2. Parts' /\ CallType'
    BY <1>1, <2>1, SameKeeps, SizeType, CallTypeKept DEF Parts
  <2>3. DiagnosticInv'
    BY <1>1, <2>1 DEF DiagnosticInv, Has, KindOf, runtimeVars
  <2>4. stage' \in Stages
    BY <1>1, <2>1
  <2> QED
    BY <2>2, <2>3, <2>4 DEF IInv, Parts, TypeOK, CallType, Core
<1>3. ASSUME stage = "off", stage' = stage,
             \/ Program \/ \E t \in Threads : FunctorStep(t)
             \/ (\E e \in Objects : Complete(e)) /\ call' = call
      PROVE  IInv'
  <2>1. Parts' /\ CallType'
    BY <1>1, <1>3, ProgramKeepsParts, FunctorStepKeeps, CompleteKeeps, CallTypeKept
  <2>2. DiagnosticInv' /\ stage' \in Stages
    BY <1>1, <1>3 DEF DiagnosticInv
  <2> QED
    BY <2>1, <2>2 DEF IInv, Parts, TypeOK, CallType, Core
<1>4. CASE Diagnostic
  <2>1. Parts' /\ DiagnosticInv' /\ call' = call /\ stage' \in Stages
    BY <1>1, <1>4, DiagnosticStepKeeps
  <2>2. CallType'
    BY <1>1, <2>1, CallTypeKept
  <2> QED
    BY <2>1, <2>2 DEF IInv, Parts, TypeOK, CallType, Core
<1> QED
  BY <1>2, <1>3, <1>4 DEF Next

LEMMA Invariant == Spec => []IInv
BY InitInv, NextInv, PTL DEF Spec

----------------------------------------------------------------------------
(* What is proved                                                          *)

\* The variables have their types: no count of the runtime ever drops below
\* zero, no vector grows beyond its N elements (cl.hpp:451), and a functor
\* sets no argument beyond the last.
THEOREM ClTypes == Spec => []TypeOK
<1>1. IInv => TypeOK
  BY DEF IInv
<1> QED
  BY <1>1, Invariant, PTL

\* In every program, with any number of wrappers, vectors, threads and
\* objects, the runtime counts as many references of an object as handles are
\* held, but for the ones that the wrapper is known to lose.
THEOREM EveryHandleIsCounted == Spec => []CountsMatchHolders
<1>1. IInv => CountsMatchHolders
  BY DEF IInv, Core, Sound, CountsMatchHolders
<1> QED
  BY <1>1, Invariant, PTL

\* A handle to an object of a kind that no cl::vector has is to one that
\* lives, whatever the vectors do to their elements.
THEOREM VectorsHarmTheirOwn == Spec => []DamageIsContained
<1>1. ASSUME IInv PROVE DamageIsContained
  <2> SUFFICES ASSUME NEW h \in Holders, wrapper[h] # Null,
                      KindOf(h) \notin VectorKinds, ~Lives(h)
               PROVE  FALSE
    BY DEF DamageIsContained
  <2>1. Core
    BY <1>1 DEF IInv
  <2>2. refs.surplus[wrapper[h]] < 0 /\ wrapper[h] \in Objects \ Devices
    BY <2>1, DeadHandle
  <2> QED
    BY <2>1, <2>2 DEF Core, Sound, KindOf
<1> QED
  BY <1>1, Invariant, PTL

\* In a program whose vectors are std::vector every variable, element, functor
\* member and raw handle is NULL or refers to an object that lives.
THEOREM NoHandleDangles ==
    ASSUME VectorKinds = {} PROVE Spec => []HandlesAreAlive
<1>1. DamageIsContained => HandlesAreAlive
  BY DEF DamageIsContained, HandlesAreAlive
<1> QED
  BY <1>1, VectorsHarmTheirOwn, PTL

\* When the diagnostic program has passed, nothing but the devices lives; when
\* it has failed, nothing it holds a reference to but the buffer that
\* dump_error forgets.
THEOREM DiagnosticGivesBack == Spec => []DiagnosticFreesAll
<1>1. ASSUME IInv PROVE DiagnosticFreesAll
  <2>1. Core /\ DiagnosticInv
    BY <1>1 DEF IInv
  <2>2. ASSUME stage \in {"passed", "failed"}, NEW o \in Objects
        PROVE  /\ refs.own[o] \in Nat /\ running = {}
               /\ refs.own[o] > 0 => stage = "failed" /\ object[o].kind = "buffer"
    <3>1. running = {} /\ Has = {} /\ \A h \in Holders : wrapper[h] = Null
      BY <2>1, <2>2 DEF DiagnosticInv, Has
    <3>2. HeldIn(wrapper, Holders)[o] = 0
      BY <3>1, HeldInNone, RuntimeAssumption
    <3>3. refs.own[o] \in Nat /\ refs.surplus[o] \in Int
      BY <2>1, CoreTypes DEF Counts
    <3>4. CASE o \in Devices
      BY <2>1, <3>1, <3>3, <3>4 DEF Core, Sound
    <3>5. CASE o \notin Devices
      <4>1. refs.own[o] = 0 + refs.surplus[o]
        BY <2>1, <3>2, <3>5 DEF Core, Sound
      <4>2. refs.surplus[o] # 0 => stage = "failed" /\ object[o].kind = "buffer"
        BY <2>1, <2>2, <3>5 DEF DiagnosticInv
      <4> QED
        BY <3>1, <3>3, <4>1, <4>2
    <3> QED
      BY <3>4, <3>5
  <2>3. ASSUME stage = "passed" PROVE Alive = Devices
    <3>1. Devices \subseteq Alive
      BY <2>1, CoreTypes
    <3>2. running = {}
      BY <2>1, <2>3 DEF DiagnosticInv
    <3>3. Roots(refs.own, running) \subseteq Devices
      BY <2>2, <2>3, <3>2 DEF Roots
    <3>4. ASSUME NEW d \in Devices PROVE object[d].needs = {}
      <4>1. Rank(object, d) = 0
        BY <2>1 DEF Core, Shape, Rank
      <4>2. \A n \in object[d].needs : Rank(object, n) < 0
        BY <2>1, <4>1, RuntimeAssumption DEF Core, Shape
      <4> QED
        BY <4>2, RankType
    <3>5. Alive \subseteq Devices
      BY <3>3, <3>4, LivingLeast DEF Alive
    <3> QED
      BY <3>1, <3>5
  <2> QED
    BY <2>2, <2>3 DEF DiagnosticFreesAll
<1> QED
  BY <1>1, Invariant, PTL

=============================================================================
