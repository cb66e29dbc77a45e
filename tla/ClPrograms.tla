----------------------------- MODULE ClPrograms -----------------------------
(***************************************************************************)
(* Programs on the OpenCL runtime: C++ programs that use the wrapper       *)
(* (cl.hpp), among them threads that launch kernels through functors, or   *)
(* the diagnostic program (diagnostic.c), which uses the C API.            *)
(*                                                                         *)
(* A functor sets the arguments of its kernel one after the other and then *)
(* launches it.  The arguments belong to the kernel object, which other    *)
(* functors and variables may hold as well.                                *)
(***************************************************************************)
EXTENDS ClHandles

VARIABLES
    call,       \* what each thread's functor is doing
    stage       \* where the diagnostic program is; "off" if another one runs

vars == <<handleVars, call, stage>>

\* at: the next argument to set, Arity + 1 at the launch, 0 outside a call;
\* args: the variables that hold the arguments.
NoCall == [at |-> 0, args |-> NoArgs]
Stages == {"off", "check", "context", "queue", "buffer", "write", "read", "compare",
           "passed", "failed"}

TypeOK ==
    /\ HandlesTypeOK
    /\ call \in [Threads -> [at : 0 .. Arity + 1,
                             args : [Indexes -> Vars \cup {Null}]]]
    /\ stage \in Stages

Init ==
    /\ HandlesInit
    /\ call = [t \in Threads |-> NoCall]
    /\ stage \in {"off", "check"}

\* A variable that a functor works with is not touched by its thread.
Free(x) == \A t \in Threads : \A i \in Indexes : call[t].args[i] # x

----------------------------------------------------------------------------
(* setArg and the functors                                                 *)

KernelOf(t) == wrapper[<<t, "kernel">>]
QueueOf(t) == wrapper[<<t, "queue">>]

\* What can be passed: a handle.  Numbers and local memory are left out.
Passable == Memories \cup {"sampler"}

\* Argument i of kernel k becomes what x holds.
WithArg(k, i, x) == [object EXCEPT ![k].args[i] = wrapper[x]]

\* Kernel::setArg by a program.
SetArg(x, i, y) ==
    /\ Is(x, "kernel") /\ Lives(x)
    /\ wrapper[y] # Null /\ KindOf(y) \in Passable /\ Lives(y)
    /\ Put({}, <<>>, WithArg(wrapper[x], i, y), refs, running)
    /\ UNCHANGED size

\* Kernel::bind: the functor copies the kernel and the queue.
Bind(t, x, y) ==
    /\ KernelOf(t) = Null /\ Is(x, "kernel") /\ Is(y, "queue")
    /\ LET new == [h \in Functor(t) |-> IF h = <<t, "kernel">> THEN wrapper[x]
                                         ELSE wrapper[y]]
       IN  Put(Functor(t), new, object,
               Retained(Retained(refs, wrapper[x]), wrapper[y]), running)
    /\ UNCHANGED <<size, call>>

\* Assignment of functors, and the copy constructor if t is NULL: kernel
\* first, then queue.
AssignFunctor(t, u) ==
    /\ t # u /\ call[t].at = 0 /\ KernelOf(u) # Null
    /\ LET k == Assigned(<<t, "kernel">>, <<u, "kernel">>)
           q == Retained(Released(k, HeldIn(wrapper, {<<t, "queue">>})), QueueOf(u))
           new == [h \in Functor(t) |-> wrapper[<<u, h[2]>>]]
       IN  Put(Functor(t), new, object, q, running)
    /\ UNCHANGED <<size, call>>

DestroyFunctor(t) ==
    /\ KernelOf(t) # Null /\ call[t].at = 0
    /\ Put(Functor(t), [h \in Functor(t) |-> Null], object,
           Destroyed(Functor(t)), running)
    /\ UNCHANGED <<size, call>>

\* operator(): the arguments are references to variables of the caller.
Call(t) ==
    /\ KernelOf(t) # Null /\ call[t].at = 0
    /\ \E args \in [Indexes -> {x \in Vars : wrapper[x] # Null /\ KindOf(x) \in Passable}] :
           call' = [call EXCEPT ![t] = [at |-> 1, args |-> args]]
    /\ UNCHANGED handleVars

\* setArg(i, ai) in operator().
SetNext(t) ==
    LET i == call[t].at
        k == KernelOf(t)
    IN  /\ i \in Indexes
        /\ k \in Alive /\ Lives(call[t].args[i])
        /\ Put({}, <<>>, WithArg(k, i, call[t].args[i]), refs, running)
        /\ call' = [call EXCEPT ![t].at = i + 1]
        /\ UNCHANGED size

\* setArg fails and nobody looks at its result: the kernel keeps what it has.
SetNextFails(t) ==
    /\ call[t].at \in Indexes
    /\ call' = [call EXCEPT ![t].at = @ + 1]
    /\ UNCHANGED handleVars

\* With exceptions a failed setArg ends the call; a launch that fails ends it
\* in any build and returns a NULL event.
CallFails(t) ==
    /\ call[t].at # 0
    /\ call' = [call EXCEPT ![t] = NoCall]
    /\ UNCHANGED handleVars

\* The launch has no wait list, whatever events the caller gave.  The event is
\* returned to a new variable or dropped.
Launch(t) ==
    LET k == KernelOf(t)
        on == {k, QueueOf(t)} \cup ArgsOf(k)
    IN  /\ call[t].at = Arity + 1
        /\ on \subseteq Alive
        /\ \E e \in Objects : \E ys \in {{}} \cup {{x} : x \in Vars} :
               /\ CanBe(e, "event")
               /\ \A y \in ys : wrapper[y] = Null
               /\ Put(ys, [y \in ys |-> e], WithNew(e, "event", on),
                      IF ys = {} THEN refs ELSE Owned(refs, e), running \cup {e})
        /\ call' = [call EXCEPT ![t] = NoCall]
        /\ UNCHANGED size

----------------------------------------------------------------------------
(* The C++ programs                                                        *)

\* One variable is made or changed, with the help of another.
ChangeVar(x, y) ==
    \/ Copy(x, y) \/ Assign(x, y) \/ Query(y, x) \/ QueryInto(y, x)
    \/ GetDevices(x) \/ NewContext(x, y) \/ NewQueue(x, y) \/ NewBuffer(x, y)
    \/ NewInterop(x, y) \/ NewImage(x, y) \/ NewSampler(x, y)
    \/ NewProgram(x, y) \/ NewKernel(x, y) \/ NewSubBuffer(x, y)
    \/ NewUserEvent(x, y)

ChangeVector(v) ==
    \/ \E y \in Vars : PushBack(v, y) \/ CreateKernels(y, v)
    \/ \E x \in Vars : \E c \in Used(v) : Free(x) /\ Copy(x, c)
    \/ \E u \in Vectors : CopyVector(v, u)
    \/ PopBack(v) \/ Clear(v) \/ Iterate(v) \/ DestroyVector(v)

\* A wait list, and where the event goes: nowhere or into a variable.
WaitLists ==
    {{}} \cup {{w} : w \in {z \in Vars : wrapper[z] # Null /\ KindOf(z) \in Events}}
Targets == {{}} \cup {{y} : y \in {z \in Vars : Free(z) /\
                (wrapper[z] # Null => KindOf(z) \in Events)}}

ToQueue(q, ys) ==
    \/ \E waits \in WaitLists :
           \E x \in Vars :
               \/ TransferBuffer(q, x, waits, ys) \/ TransferImage(q, x, waits, ys)
               \/ MapMemory(q, x, waits, ys) \/ Unmap(q, x, waits, ys)
               \/ AcquireInterop(q, x, waits, ys) \/ RunKernel(q, x, waits, ys)
               \/ NativeKernel(q, x, waits, ys)
    \/ Marker(q, ys)

Program ==
    /\ \/ \E x \in Vars : Free(x) /\ (Destroy(x) \/ SetStatus(x))
       \/ \E x, y \in Vars : Free(x) /\ ChangeVar(x, y)
       \/ \E v \in Vectors : ChangeVector(v)
       \/ \E q \in Vars : Is(q, "queue") /\ \E ys \in Targets : ToQueue(q, ys)
       \/ \E x, y \in Vars : \E i \in Indexes : SetArg(x, i, y)
    /\ UNCHANGED call

FunctorStep(t) ==
    \/ \E x, y \in Vars : Bind(t, x, y)
    \/ \E u \in Threads : AssignFunctor(t, u)
    \/ DestroyFunctor(t) \/ Call(t) \/ SetNext(t) \/ SetNextFails(t)
    \/ CallFails(t) \/ Launch(t)

----------------------------------------------------------------------------
(* The diagnostic program                                                  *)

Static(name) == <<"diag", name>>

\* The driver is loaded and its device can be opened, or not.
general_basic_tests ==
    /\ stage = "check" /\ stage' \in {"context", "failed"}
    /\ UNCHANGED <<handleVars, call>>

\* clCreate* succeeds; the next stage follows.
DiagCreate(from, name, kind, needs, to) ==
    /\ stage = from /\ stage' = to
    /\ \E o \in Objects :
           /\ CanBe(o, kind)
           /\ Put({Static(name)}, [h \in {Static(name)} |-> o],
                  WithNew(o, kind, {wrapper[Static(n)] : n \in needs}),
                  Owned(refs, o), running)
    /\ UNCHANGED <<size, call>>

ocl_device_init ==
    \/ DiagCreate("context", "context", "context", {}, "queue")
    \/ DiagCreate("queue", "queue", "queue", {"context"}, "buffer")

\* The buffer is written and read back, both blocking.
scan_device ==
    \/ DiagCreate("buffer", "in1", "buffer", {"context"}, "write")
    \/ \E s \in {<<"write", "read">>, <<"read", "compare">>} :
           /\ stage = s[1] /\ stage' = s[2]
           /\ UNCHANGED <<handleVars, call>>

\* Mutant of freeResources: the context is forgotten.
freeResourcesQueue(r) ==
    Released(r, HeldIn(wrapper, {Static("queue")}))

\* What freeResources makes of the counts.  The kernel and the program are
\* never created.
freeResources(r) ==
    Released(r, HeldIn(wrapper, {Static("queue"), Static("context")}))

Leave(r, to) ==
    /\ stage' = to
    /\ Put(Statics, [h \in Statics |-> Null], object, r, running)
    /\ UNCHANGED <<size, call>>

\* Any call or the comparison fails: dump_error or the return of -1.
dump_error ==
    /\ stage \in Stages \ {"off", "check", "passed", "failed"}
    /\ Leave(freeResources(Lost(refs, wrapper[Static("in1")])), "failed")

DiagPasses ==
    /\ stage = "compare"
    /\ Leave(freeResources(Released(refs, HeldIn(wrapper, {Static("in1")}))), "passed")

Diagnostic ==
    \/ general_basic_tests \/ ocl_device_init \/ scan_device \/ dump_error
    \/ DiagPasses

Next ==
    \/ /\ stage = "off" /\ UNCHANGED stage
       /\ \/ Program
          \/ \E t \in Threads : FunctorStep(t)
          \/ (\E e \in Objects : Complete(e)) /\ UNCHANGED call
    \/ Diagnostic

Spec == Init /\ [][Next]_vars

----------------------------------------------------------------------------
(* Properties                                                              *)

\* The count of an object is the number of handles that the program holds,
\* but for what the wrapper is known to lose: answers and events written over
\* a handle (cl.hpp:773), createKernels (cl.hpp:2548), cl::vector.
CountsMatchHolders ==
    \A o \in Objects \ Devices :
        refs.own[o] = HeldIn(wrapper, Holders)[o] + refs.surplus[o]

\* No variable, element, functor member or raw handle refers to an object that
\* is gone, in whatever order wrappers, queues, commands, kernels and functors
\* are copied, assigned and destroyed, also to themselves (cl.hpp:1474).  It
\* holds of programs whose vectors are std::vector (VectorKinds = {}); with
\* cl::vector a variable can be left with a dead handle, and what holds then
\* is DamageIsContained.
HandlesAreAlive ==
    \A h \in Holders : wrapper[h] # Null => Lives(h)

\* What a cl::vector gives up too often are references to its own elements:
\* whoever else holds one of these may be left with a dead handle, but the
\* objects of all other kinds, the queues, contexts, programs and buffers
\* that the elements and their commands need, keep what their handles stand
\* for (cl.hpp:476, cl.hpp:1119).
DamageIsContained ==
    \A h \in Holders :
        wrapper[h] # Null /\ KindOf(h) \notin VectorKinds => Lives(h)

\* The diagnostic program releases what it has created, on each of its ways
\* out; only the buffer stays when a call after its creation fails
\* (diagnostic.c:181).
DiagnosticFreesAll ==
    /\ stage = "passed" => Alive = Devices
    /\ stage = "failed" =>
           \A o \in Objects : refs.own[o] > 0 => object[o].kind = "buffer"

=============================================================================
