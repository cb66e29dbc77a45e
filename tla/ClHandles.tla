----------------------------- MODULE ClHandles -----------------------------
(***************************************************************************)
(* The C++ wrapper of the OpenCL API (cl.hpp).  A wrapper object holds a   *)
(* handle or NULL; copies retain, destructors release.  The places that    *)
(* hold a wrapper are the variables of the program, the elements of        *)
(* cl::vector, the two members of a kernel functor, and the raw handles of *)
(* the diagnostic program, which uses the C API.                           *)
(*                                                                         *)
(* cl::vector stands in for std::vector when the build asks for it.  A     *)
(* std::vector holds its elements like variables.  Template arguments,     *)
(* strings, ranges, sizes and flags are left out.                          *)
(***************************************************************************)
EXTENDS ClRuntime

CONSTANTS
    Vars,           \* variables of wrapper type
    Vectors,        \* variables of type cl::vector
    N,              \* elements of a cl::vector
    VectorKinds,    \* what vectors are made of
    Threads,        \* threads that call kernel functors, one functor each
    MaxOff, MaxSurplus, MaxOwn, MaxHeld      \* bounds, see Bounded

Cells(v) == {v} \X (0 .. N - 1)
Functor(t) == {t} \X {"kernel", "queue"}
Statics == {"diag"} \X {"context", "queue", "in1"}

Elements == UNION {Cells(v) : v \in Vectors}
Functors == UNION {Functor(t) : t \in Threads}
Holders == Vars \cup Elements \cup Functors \cup Statics

\* Every place is one variable of the program.
ASSUME PlacesAssumption ==
    /\ IsFiniteSet(Vars) /\ IsFiniteSet(Vectors) /\ IsFiniteSet(Threads)
    /\ N \in Nat /\ VectorKinds \subseteq Kinds
    /\ Vars \cap (Elements \cup Functors \cup Statics) = {}
    /\ Vectors \cap Threads = {} /\ "diag" \notin Vectors \cup Threads
    /\ Null \notin Threads

VARIABLES
    wrapper,    \* object_ of each wrapper object
    size        \* of each vector

handleVars == <<runtimeVars, wrapper, size>>

HandlesTypeOK ==
    /\ RuntimeTypeOK
    /\ wrapper \in [Holders -> Objects \cup {Null}]
    /\ size \in [Vectors -> 0 .. N]

HandlesInit ==
    /\ RuntimeInit
    /\ wrapper = [h \in Holders |-> Null]
    /\ size = [v \in Vectors |-> 0]

\* How many of the places in s hold each object.
HeldIn(w, s) == [o \in Objects |-> Cardinality({h \in s : w[h] = o})]

\* Bound: how many handles are held and how many references an object has;
\* how many objects have a count that is off, and by how much.
Bounded(w, r) ==
    LET off == {o \in Objects : r.surplus[o] # 0}
    IN  /\ Cardinality({h \in Holders : w[h] # Null}) <= MaxHeld
        /\ \A o \in Objects : r.own[o] <= MaxOwn
        /\ Cardinality(off) <= MaxOff
        /\ \A o \in off : r.surplus[o] \in -MaxSurplus .. MaxSurplus

\* The places s take the values new, and the counts become r.
Put(s, new, obj, r, run) ==
    LET w == [h \in Holders |-> IF h \in s THEN new[h] ELSE wrapper[h]] IN
    /\ Bounded(w, r)
    /\ wrapper' = w
    /\ Update(obj, r, run, {o \in Objects : \E h \in Holders : w[h] = o})

Put1(h, o, r) == Put({h}, [x \in {h} |-> o], object, r, running)

\* A handle to o is written over, or a reference has no handle from the start.
Lost(r, o) ==
    IF o = Null \/ ~Counted(o) THEN r ELSE [r EXCEPT !.surplus[o] = @ + 1]

\* The handles in new are written over those in the places s byte by byte.
Overwritten(s, new) ==
    [refs EXCEPT !.surplus = [o \in Objects |->
        IF Counted(o) THEN @[o] + HeldIn(wrapper, s)[o] - HeldIn(new, s)[o]
        ELSE 0]]

KindOf(h) == object[wrapper[h]].kind
Is(h, kind) == wrapper[h] # Null /\ KindOf(h) = kind
Lives(h) == wrapper[h] \in Alive

----------------------------------------------------------------------------
(* Wrapper: copy, assignment, destruction                                  *)

\* Mutant of Copied: the new wrapper does not retain.
CopiedRaw(from) == refs

Copied(from) == Retained(refs, wrapper[from])

\* A new variable is made from another one or from an element of a vector.
Copy(x, y) ==
    /\ wrapper[x] = Null /\ wrapper[y] # Null
    /\ Put1(x, wrapper[y], Copied(y))
    /\ UNCHANGED size

\* The handle is released, the other one is copied, the copy is retained.
Assigned(h, from) ==
    Retained(Released(refs, HeldIn(wrapper, {h})), wrapper[from])

\* Mutant of Differ: a wrapper is assigned to itself.
DifferNot(x, y) == TRUE

\* The check of the derived classes: this != &rhs.
Differ(x, y) == x # y

Assign(x, y) ==
    /\ Differ(x, y) /\ wrapper[x] # Null
    /\ wrapper[y] # Null => KindOf(x) = KindOf(y)
    /\ Put1(x, wrapper[y], Assigned(x, y))
    /\ UNCHANGED size

Destroyed(s) == Released(refs, HeldIn(wrapper, s))

Destroy(x) ==
    /\ wrapper[x] # Null
    /\ Put1(x, Null, Destroyed({x}))
    /\ UNCHANGED size

----------------------------------------------------------------------------
(* getInfo with a handle as the answer                                     *)

\* The parameters whose type is a wrapper, by the kind that is asked.
Answers ==
    [k \in Kinds |->
        CASE k \in Events -> {"queue", "context"}
          [] k = "queue" -> {"context", "device"}
          [] k \in Memories -> {"context", "buffer"}
          [] k \in {"program", "sampler"} -> {"context"}
          [] k = "kernel" -> {"program", "context"}
          [] OTHER -> {}]

\* The handles that a query of x for something of this kind can give; NULL for
\* the buffer of a buffer that is not part of another one.
AnswersOf(x, kind) ==
    LET own == [o \in Objects |-> IF o = wrapper[x] THEN 1 ELSE 0]
        found == {o \in Living(object, own, {}) \ {wrapper[x]} :
                      object[o].kind = kind}
    IN  IF kind \notin Answers[KindOf(x)] THEN {}
        ELSE IF found = {} /\ kind = "buffer" THEN {Null} ELSE found

\* getInfo<name>(): the answer is put into a new wrapper and retained.
Query(x, y) ==
    /\ wrapper[x] # Null /\ Lives(x) /\ wrapper[y] = Null
    /\ \E kind \in Kinds : \E o \in AnswersOf(x, kind) \ {Null} :
           Put1(y, o, Retained(refs, o))
    /\ UNCHANGED size

\* getInfo(name, &y): the answer is written over the handle of y, which is
\* not released.
QueryInto(x, y) ==
    /\ wrapper[x] # Null /\ Lives(x) /\ wrapper[y] # Null
    /\ \E o \in AnswersOf(x, KindOf(y)) :
           LET r == Retained(Lost(refs, wrapper[y]), o)
           IN  Put1(y, o, r)
    /\ UNCHANGED size

----------------------------------------------------------------------------
(* Constructors.  If clCreate* fails the wrapper keeps NULL.               *)

\* A parameter of this kind: what y holds, or a temporary that a query of y
\* returns and that is destroyed after the call.
Given(y, kind) ==
    IF wrapper[y] = Null \/ ~Lives(y) THEN {}
    ELSE IF KindOf(y) = kind THEN {wrapper[y]}
    ELSE AnswersOf(y, kind) \ {Null}

\* x becomes a new object that needs these, in flight if it is an event.
New(x, kind, needs) ==
    /\ wrapper[x] = Null
    /\ \E o \in Objects :
           /\ CanBe(o, kind)
           /\ Put({x}, [h \in {x} |-> o], WithNew(o, kind, needs),
                  Owned(refs, o),
                  running \cup (IF kind \in Events THEN {o} ELSE {}))
    /\ UNCHANGED size

InContext(x, y, kind) == \E c \in Given(y, "context") : New(x, kind, {c})

\* Platform::get, getDevices: the elements are made of plain handles.
GetDevices(x) ==
    /\ wrapper[x] = Null
    /\ \E d \in Devices : Put1(x, d, refs)
    /\ UNCHANGED size

NewContext(x, y) == Given(y, "device") # {} /\ New(x, "context", {})
NewQueue(x, y) == InContext(x, y, "queue")
NewBuffer(x, y) == InContext(x, y, "buffer")
NewInterop(x, y) == InContext(x, y, "interop")
NewImage(x, y) == InContext(x, y, "image")
NewSampler(x, y) == InContext(x, y, "sampler")
NewProgram(x, y) == InContext(x, y, "program")
NewUserEvent(x, y) == InContext(x, y, "user event")
NewKernel(x, y) == \E p \in Given(y, "program") : New(x, "kernel", {p})

\* A sub-buffer of a sub-buffer is an error.
NewSubBuffer(x, y) ==
    /\ Is(y, "buffer") /\ Lives(y)
    /\ \A o \in object[wrapper[y]].needs : object[o].kind = "context"
    /\ New(x, "buffer", {wrapper[y]})

SetStatus(x) ==
    /\ Is(x, "user event") /\ wrapper[x] \in running
    /\ Put({}, <<>>, object, refs, running \ {wrapper[x]})
    /\ UNCHANGED size

----------------------------------------------------------------------------
(* cl::vector                                                              *)

Used(v) == {<<v, i>> : i \in 0 .. size[v] - 1}

\* The element behind the last one is assigned to, or nothing happens.
PushBack(v, y) ==
    /\ wrapper[y] # Null /\ KindOf(y) \in VectorKinds /\ size[v] < N
    /\ LET c == <<v, size[v]>> IN Put1(c, wrapper[y], Assigned(c, y))
    /\ size' = [size EXCEPT ![v] = @ + 1]

\* The destructor of the last element is run and the handle stays in it.
PopBack(v) ==
    /\ size[v] > 0
    /\ LET c == {<<v, size[v] - 1>>}
           r == [Destroyed(c) EXCEPT !.surplus = [o \in Objects |->
                    IF Counted(o) THEN @[o] - HeldIn(wrapper, c)[o] ELSE 0]]
       IN  Put({}, <<>>, object, r, running)
    /\ size' = [size EXCEPT ![v] = @ - 1]

\* clear; the elements stay as they are.
Clear(v) ==
    /\ size[v] > 0 /\ size' = [size EXCEPT ![v] = 0]
    /\ UNCHANGED <<runtimeVars, wrapper>>

\* Copy constructor and assignment: memcpy, neither release nor retain.
CopyVector(v, u) ==
    /\ v # u /\ size[u] > 0
    /\ LET s == {<<v, i>> : i \in 0 .. size[u] - 1}
           new == [c \in s |-> wrapper[<<u, c[2]>>]]
           r == Overwritten(s, new)
       IN  Put(s, new, object, r, running)
    /\ size' = [size EXCEPT ![v] = size[u]]

\* An iterator holds such a copy of the vector; at the end of a loop the
\* elements of the copy are destroyed, which nobody has retained.
Iterate(v) ==
    /\ size[v] > 0
    /\ LET r == [Destroyed(Used(v)) EXCEPT !.surplus = [o \in Objects |->
                    IF Counted(o) THEN @[o] - HeldIn(wrapper, Used(v))[o] ELSE 0]]
       IN  Put({}, <<>>, object, r, running)
    /\ UNCHANGED size

\* All N elements are destroyed, those beyond the size too.
DestroyVector(v) ==
    /\ \E c \in Cells(v) : wrapper[c] # Null
    /\ Put(Cells(v), [c \in Cells(v) |-> Null], object, Destroyed(Cells(v)),
           running)
    /\ size' = [size EXCEPT ![v] = 0]

\* createKernels of a program with one kernel: the runtime fills an array on
\* the stack, the vector copies its elements and nobody releases them.
CreateKernels(x, v) ==
    /\ Is(x, "program") /\ Lives(x) /\ N > 0 /\ "kernel" \in VectorKinds
    /\ \E o \in Objects :
           LET c == <<v, 0>>
               r == [Released(refs, HeldIn(wrapper, {c})) EXCEPT !.own[o] = 2,
                                                            !.surplus[o] = 1]
           IN  /\ CanBe(o, "kernel")
               /\ Put({c}, [h \in {c} |-> o], WithNew(o, "kernel", {wrapper[x]}),
                      r, running)
    /\ size' = [size EXCEPT ![v] = 1]

----------------------------------------------------------------------------
(* CommandQueue                                                            *)

\* A command that works on the objects on is enqueued to q after the events
\* waits.  If y is given its handle is written over and not released.
Enqueue(q, on, waits, ys) ==
    /\ Lives(q) /\ on \subseteq Alive
    /\ \A w \in waits : Lives(w)
    /\ \E e \in Objects :
           LET r == IF ys = {} THEN refs
                    ELSE Owned(Lost(refs, wrapper[CHOOSE y \in ys : TRUE]), e)
           IN  /\ CanBe(e, "event")
               /\ Put(ys, [y \in ys |-> e],
                      WithNew(e, "event", on \cup {wrapper[q]}),
                      r, running \cup {e})
    /\ UNCHANGED size

\* read, write and copy of a buffer
TransferBuffer(q, x, waits, ys) ==
    Is(x, "buffer") /\ Enqueue(q, {wrapper[x]}, waits, ys)

\* read, write and copy of an image
TransferImage(q, x, waits, ys) ==
    Is(x, "image") /\ Enqueue(q, {wrapper[x]}, waits, ys)

MapMemory(q, x, waits, ys) ==
    (Is(x, "buffer") \/ Is(x, "image")) /\ Enqueue(q, {wrapper[x]}, waits, ys)

Unmap(q, x, waits, ys) ==
    /\ wrapper[x] # Null /\ KindOf(x) \in Memories
    /\ Enqueue(q, {wrapper[x]}, waits, ys)

\* enqueueAcquireGLObjects and its relatives: the memory of a vector.
AcquireInterop(q, x, waits, ys) ==
    Is(x, "interop") /\ Enqueue(q, {wrapper[x]}, waits, ys)

\* The arguments of a kernel, if all are set.
ArgsOf(k) == {object[k].args[i] : i \in Indexes}

RunKernel(q, x, waits, ys) ==
    /\ Is(x, "kernel") /\ Lives(x)
    /\ Enqueue(q, {wrapper[x]} \cup ArgsOf(wrapper[x]), waits, ys)

\* A function of the host works on memory objects.
NativeKernel(q, x, waits, ys) ==
    /\ wrapper[x] # Null /\ KindOf(x) \in Memories
    /\ Enqueue(q, {wrapper[x]}, waits, ys)

Marker(q, ys) == Enqueue(q, {}, {}, ys)

\* The runtime has done the work; the event still knows its queue.
Complete(e) ==
    /\ e \in running /\ object[e].kind = "event"
    /\ LET queues == {o \in object[e].needs : object[o].kind = "queue"}
       IN  Put({}, <<>>, [object EXCEPT ![e].needs = queues], refs, running \ {e})
    /\ UNCHANGED size

=============================================================================
