----------------------------- MODULE ClRuntime -----------------------------
(***************************************************************************)
(* The objects of the OpenCL runtime as the host wrapper (cl.hpp) and the  *)
(* diagnostic program use them.  The runtime is not part of the sources:   *)
(* what is assumed of it is the contract of clCreate*, clRetain* and       *)
(* clRelease*.  An object has a count of references, it lives while it has *)
(* one or a living object needs it, and a command in flight keeps what it  *)
(* works on.  A call with a dead handle fails and changes nothing.         *)
(***************************************************************************)
EXTENDS Integers, FiniteSets

CONSTANTS
    Objects,        \* names of objects, used again when nobody knows them
    MayBe,          \* what each of them can be: [Objects -> SUBSET Kinds]
    Devices,        \* objects that exist all the time and are not counted
    Arity,          \* kernels have the arguments 1 .. Arity
    Null

\* "interop" is a buffer or image of OpenGL or Direct3D; a platform is a device.
Kinds == {"device", "context", "queue", "buffer", "image", "interop",
          "sampler", "program", "kernel", "event", "user event"}

Memories == {"buffer", "image", "interop"}
Events == {"event", "user event"}
Indexes == 1 .. Arity

ASSUME RuntimeAssumption ==
    /\ Null \notin Objects
    /\ MayBe \in [Objects -> SUBSET Kinds]
    /\ Devices \subseteq Objects
    /\ Arity \in Nat

VARIABLES
    object,     \* kind, what it needs, and the arguments if it is a kernel
    refs,       \* own: the counts of references; surplus: references that no
                \* handle stands for, negative if handles have no reference
    running     \* events whose commands are in flight, user events not set

runtimeVars == <<object, refs, running>>

NoArgs == [i \in Indexes |-> Null]
NoObject == [kind |-> "none", needs |-> {}, args |-> NoArgs]

RuntimeTypeOK ==
    /\ object \in [Objects -> [kind : Kinds \cup {"none"},
                               needs : SUBSET Objects,
                               args : [Indexes -> Objects \cup {Null}]]]
    /\ refs \in [own : [Objects -> Nat], surplus : [Objects -> Int]]
    /\ running \subseteq Objects

RuntimeInit ==
    /\ object = [o \in Objects |->
                    IF o \in Devices THEN [NoObject EXCEPT !.kind = "device"]
                    ELSE NoObject]
    /\ refs = [own |-> [o \in Objects |-> 0], surplus |-> [o \in Objects |-> 0]]
    /\ running = {}

----------------------------------------------------------------------------
\* The objects that live.  The longest chain of needs is an event, a
\* sub-buffer, its buffer and the context.
Living(obj, own, run) ==
    LET with(s) == s \cup UNION {obj[o].needs : o \in s}
    IN  with(with(with({o \in Objects : own[o] > 0} \cup run \cup Devices)))

Alive == Living(object, refs.own, running)

Counted(o) == o \notin Devices

\* A handle to each object o is given up n[o] times.  Where no reference is
\* left the call fails: the handle had none.  Devices have no release.
Released(r, n) ==
    [own |-> [o \in Objects |->
         IF ~Counted(o) THEN 0
         ELSE IF r.own[o] >= n[o] THEN r.own[o] - n[o] ELSE 0],
     surplus |-> [o \in Objects |->
         IF Counted(o) /\ r.own[o] < n[o]
         THEN r.surplus[o] + n[o] - r.own[o] ELSE r.surplus[o]]]

\* A handle to o that has been copied is retained.  Devices have no retain.
Retained(r, o) ==
    IF o = Null \/ ~Counted(o) THEN r
    ELSE IF o \in Living(object, r.own, running)
         THEN [r EXCEPT !.own[o] = @ + 1]
    ELSE [r EXCEPT !.surplus[o] = @ - 1]

\* The runtime keeps what lives; a dead object is no more than a name, as
\* long as a handle or an argument of a kernel still holds it.
Kept(alive, obj, named) ==
    [o \in Objects |->
        IF o \in alive THEN obj[o]
        ELSE IF \/ o \in named
                \/ \E k \in alive : \E i \in Indexes : obj[k].args[i] = o
             THEN [NoObject EXCEPT !.kind = obj[o].kind]
        ELSE NoObject]

Update(obj, r, run, named) ==
    /\ refs' = r
    /\ running' = run
    /\ object' = Kept(Living(obj, r.own, run), obj, named)

\* The objects and the counts after clCreate* of o.
WithNew(o, kind, needs) ==
    [object EXCEPT ![o] = [kind |-> kind, needs |-> needs, args |-> NoArgs]]
Owned(r, o) == [r EXCEPT !.own[o] = 1]

CanBe(o, kind) == object[o].kind = "none" /\ kind \in MayBe[o]

=============================================================================
