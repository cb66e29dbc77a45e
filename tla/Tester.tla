------------------------------- MODULE Tester -------------------------------
(***************************************************************************)
(* The tester (user.c) and other programs on the read and write path.  The *)
(* tester writes to the start of global memory through bar 0 and reads the *)
(* same cells back, in several sizes.  The other programs ask for anything *)
(* in Asked.  insmod and rmmod run at any time.  The driver calls the node *)
(* acl0 and the tester acl: a link of that name is taken as given.         *)
(***************************************************************************)
EXTENDS RwPath

CONSTANTS
    Testers,        \* the processes that run the tester
    Sizes,          \* the transfers of its tests
    Asked           \* the requests of the other programs

\* The second half of a tester's memory receives what is read back.
Into == UserCells \div 2

\* The request of read_mem, write_mem and their relatives for n cells.
TestRequest(op, n) ==
    [op |-> op, bar |-> 0, addr |-> Base, size |-> n,
     user |-> IF op = "read" THEN Into ELSE 0]

ASSUME TesterAssumption ==
    /\ Testers \subseteq Procs
    /\ Asked \subseteq Requests
    /\ Sizes \subseteq 1 .. Into /\ Sizes \subseteq 1 .. Window
    /\ \A n \in Sizes : \A op \in Ops : TestRequest(op, n) \in Requests

VARIABLES
    stage,      \* where the tester is in a test
    test,       \* the size of the test
    alone       \* nobody else has written to the device since the test began
                \* and its write succeeded, for the properties only

testVars == <<stage, test, alone>>
allVars == <<vars, testVars>>

Stages == {"prepare", "write", "written", "read", "compare"}

TestInit ==
    /\ Init
    /\ stage = [t \in Testers |-> "prepare"]
    /\ test = [t \in Testers |-> 0]
    /\ alone = [t \in Testers |-> TRUE]

Stage(t, from, to) == stage[t] = from /\ stage' = [stage EXCEPT ![t] = to]

\* The next test: new values for the source, anything else for the target.
Prepare(t) ==
    /\ pc[t] = "idle"
    /\ Stage(t, "prepare", "write")
    /\ \E n \in Sizes :
           /\ test' = [test EXCEPT ![t] = n]
           /\ user' = [user EXCEPT ![t] = [u \in UserAddrs |->
                          IF u < n THEN <<t, n, u>> ELSE Fresh(t)[u]]]
    /\ alone' = [alone EXCEPT ![t] = TRUE]
    /\ touch' = NoTouch
    /\ UNCHANGED <<lifeVars, pc, req, frame, ret, semVars, buffer, mem, was>>

\* The tester does not look at the result of a write.
WriteTest(t) ==
    /\ Stage(t, "write", "written")
    /\ Call(t, TestRequest("write", test[t])) /\ UNCHANGED user
    /\ UNCHANGED <<test, alone>>

ReadTest(t) ==
    /\ Stage(t, "written", "read")
    /\ Call(t, TestRequest("read", test[t])) /\ UNCHANGED user
    /\ alone' = [alone EXCEPT ![t] = alone[t] /\ ret[t] = "ok"]
    /\ UNCHANGED test

Returned(t) ==
    /\ pc[t] = "idle" /\ Stage(t, "read", "compare")
    /\ touch' = NoTouch
    /\ UNCHANGED <<lifeVars, pc, req, frame, ret, semVars, data, was, test, alone>>

\* A program that ends takes its memory with it.
Exit(p) ==
    /\ CloseCall(p)
    /\ user' = [user EXCEPT ![p] = Fresh(p)]

\* The test has passed or failed.
Compare(t) ==
    /\ pc[t] = "idle" /\ Stage(t, "compare", "prepare")
    /\ user' = [user EXCEPT ![t] = Fresh(t)]
    /\ test' = [test EXCEPT ![t] = 0]
    /\ touch' = NoTouch
    /\ UNCHANGED <<lifeVars, pc, req, frame, ret, semVars, buffer, mem, was, alone>>

\* After its tests, whose order and number are left open, the tester exits.
TesterExit(t) == stage[t] = "prepare" /\ Exit(t) /\ UNCHANGED testVars

\* The tester maps memory between two tests.
TesterMaps(t) == stage[t] = "prepare" /\ MmapNoTable(t) /\ UNCHANGED testVars

\* A write by p is seen by every tester but p.
Seen(p) ==
    /\ alone' = [t \in Testers |-> alone[t] /\ (t = p \/ mem' = mem)]
    /\ UNCHANGED <<stage, test>>

\* A call returns.  A tester keeps what it has read and the result; what the
\* other programs do with theirs is not modelled, and they start afresh.
Return(p) ==
    /\ Leave(p)
    /\ \/ p \in Testers /\ UNCHANGED <<user, ret>>
       \/ /\ p \notin Testers
          /\ user' = [user EXCEPT ![p] = Fresh(p)]
          /\ ret' = [ret EXCEPT ![p] = "ok"]

InDriver(p) == (Proceed(p) \/ Return(p)) /\ Seen(p)

TesterStep(t) ==
    \/ Prepare(t) \/ WriteTest(t) \/ ReadTest(t) \/ Returned(t) \/ Compare(t)
    \/ TesterExit(t) \/ TesterMaps(t)
    \/ (OpenCall(t) \/ Signalled(t)) /\ UNCHANGED testVars

ProgramCall(p) == \E r \in Asked : Call(p, r) /\ UNCHANGED user

ProgramStep(p) ==
    /\ \/ OpenCall(p) \/ Exit(p) \/ Signalled(p) \/ ProgramCall(p)
       \/ MmapNoTable(p)
    /\ UNCHANGED testVars

Next ==
    \/ LifeStep /\ UNCHANGED testVars
    \/ \E t \in Testers : TesterStep(t)
    \/ \E p \in Procs \ Testers : ProgramStep(p)
    \/ \E p \in Procs : InDriver(p)

Spec == TestInit /\ [][Next]_allVars

\* A call that has begun is run by the scheduler.
Fairness == \A p \in Procs : WF_allVars(InDriver(p))

FairSpec == Spec /\ Fairness

----------------------------------------------------------------------------
(* Properties                                                              *)

\* A tester reads back what it wrote, whatever the others read and however its
\* calls interleave with theirs, unless somebody else writes or a call fails.
TesterPasses ==
    \A t \in Testers : stage[t] = "compare" /\ alone[t] /\ ret[t] = "ok" =>
        \A j \in 0 .. test[t] - 1 : user[t][Into + j] = user[t][j]

\* A call that has begun returns, through whatever error path: the semaphore
\* is released on each of them.  Only a process that dies in the driver keeps
\* it, and the others out.
CallsReturn ==
    \A p \in Procs :
        pc[p] \notin {"idle", "closed"} ~>
            \/ pc[p] \in {"idle", "closed"}
            \/ \E q \in Procs : pc[q] = "dead" /\ (q = p \/ holder = q)

=============================================================================
