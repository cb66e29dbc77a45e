---------------------------- MODULE MCClPrograms ----------------------------
(* Two variables, two functors with kernels of one argument, two vectors of *)
(* one kernel.                                                              *)
EXTENDS ClPrograms, TLC

CONSTANTS dev1, ctx1, que1, buf1, buf2, prog1, kern1, evt1, x1, x2, v1, v2, t1, t2

\* One object of each kind, but two buffers.  The kinds that only a queue or
\* nothing works on share their name with the program.
MCMayBe ==
    (dev1 :> {"device"}) @@ (ctx1 :> {"context"}) @@ (que1 :> {"queue"})
    @@ (buf1 :> {"buffer"}) @@ (buf2 :> {"buffer"}) @@ (kern1 :> {"kernel"})
    @@ (prog1 :> {"program", "image", "interop", "sampler", "user event"})
    @@ (evt1 :> {"event"})

\* Variables, vectors and threads play the same part each.
Symmetry ==
    Permutations(Vars) \cup Permutations(Vectors) \cup Permutations(Threads)
=============================================================================
