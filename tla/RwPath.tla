------------------------------- MODULE RwPath -------------------------------
(***************************************************************************)
(* open, close, read and write of the device (aclsoc_fileio.c) while the   *)
(* module comes and goes (ModuleLife).  A call waits for the device's      *)
(* semaphore, copies its request, computes the bar, checks the bounds and  *)
(* moves the data: 1, 2 or 4 bytes directly, anything else in chunks       *)
(* through the bounce buffer that all calls share.                         *)
(*                                                                         *)
(* One cell is one byte and addresses are Width wide.  Global memory       *)
(* behind the window holds what is written to it; the control registers    *)
(* are read as RegData and writing them leaves no data.  Kernels do not    *)
(* write global memory during a transfer.                                  *)
(*                                                                         *)
(* A process that goes to a region or to a table that is not there dies in *)
(* the driver (ModuleLife): its exit then waits for ever, for the          *)
(* semaphore that it holds itself or for its own address space, so that    *)
(* its file is never closed.                                               *)
(***************************************************************************)
EXTENDS ModuleLife, Integers, Sequences

CONSTANTS
    Requests,       \* what processes ask of the driver
    NoRequest,
    Width,          \* an address is a number below Width (2^32 in the code)
    Base, Window,   \* ACL_PCIE_MEMWINDOW_BASE, ACL_PCIE_MEMWINDOW_SIZE
    Buf,            \* BUF_SIZE
    UserCells,      \* readable and writable cells of a process: 0..UserCells-1
    Nobody

Word == 4           \* sizeof(uX)
Cells == Base .. Base + Window - 1
UserAddrs == 0 .. UserCells - 1

ASSUME PathAssumption ==
    /\ {Base, Window, Buf, UserCells, Width} \subseteq Nat \ {0}
    /\ Base + Window <= RegionSize[0]
    /\ \A b \in Bars : RegionSize[b] <= Width \div 2
    /\ Nobody \notin Procs

\* A process is named by none of the marks on data that is not a process's.
ASSUME MarksAssumption == {"mem", "reg", "junk"} \cap Procs = {}

\* Commands that reach the hardware, the interrupt or the table.
Commands == {"ENABLE_KERNEL_IRQ", "LOAD", "SAVE", "GET_PHYS_PTR_FROM_VIRT"}
Ops == {"read", "write"}

ASSUME RequestAssumption ==
    Requests \subseteq
        [op : Ops, bar : Nat, addr : 0 .. Width - 1, user : Nat,
         size : 0 .. Width - 1]
        \cup [op : {"command"}, cmd : Commands]
        \cup [op : {"unreadable"}]

VARIABLES
    pc,         \* where each process is
    req,        \* its request
    frame,      \* its stack: bar, cells of finished chunks, cells of this one
    ret,        \* what its last read or write returned
    holder, queue,      \* the semaphore: its owner and those who sleep on it
    buffer,     \* the bounce buffer
    mem,        \* global memory
    user,       \* the memory of the processes
    was,        \* what the call changes, as it was, for the properties only
    touch       \* the last access to the hardware, for the properties only

data == <<buffer, mem, user>>
semVars == <<holder, queue>>
pathVars == <<pc, req, frame, ret, semVars, data, was, touch>>
vars == <<lifeVars, pathVars>>

Inside == {"dispatch", "command", "small", "fill", "dev", "spill", "leave"}
Waiting == {"open", "close", "rw"}
PCs == Inside \cup Waiting \cup {"closed", "idle", "dead"}
Results == {"ok", "fault"}      \* no error, an error

Datum == (Procs \cup {"mem", "reg", "junk"}) \X Nat \X Nat
RegData == <<"reg", 0, 0>>
Junk == <<"junk", 0, 0>>        \* in place of what could not be copied

NoTouch == [bar |-> 2, first |-> 0, last |-> -1, by |-> Nobody]

TypeOK ==
    /\ LifeTypeOK
    /\ pc \in [Procs -> PCs]
    /\ req \in [Procs -> Requests \cup {NoRequest}]
    /\ frame \in [Procs -> [bar : Bars, done : Nat, i : 0 .. Buf]]
    /\ ret \in [Procs -> Results]
    /\ holder \in Procs \cup {Nobody}
    /\ queue \in Seq(Procs) /\ Len(queue) <= Cardinality(Procs)
    /\ buffer \in [0 .. Buf - 1 -> Datum]
    /\ mem \in [Cells -> Datum]
    /\ user \in [Procs -> [UserAddrs -> Datum]]
    /\ touch \in [bar : Nat, first : Nat, last : Int, by : Procs \cup {Nobody}]

NoBuffer == [c \in 0 .. Buf - 1 |-> Junk]
NewFrame == [bar |-> 0, done |-> 0, i |-> 0]

\* Data of a process's own.
Fresh(p) == [u \in UserAddrs |-> <<p, 0, u>>]

PathInit ==
    /\ pc = [p \in Procs |-> "closed"]
    /\ req = [p \in Procs |-> NoRequest]
    /\ frame = [p \in Procs |-> NewFrame]
    /\ ret = [p \in Procs |-> "ok"]
    /\ holder = Nobody /\ queue = <<>>
    /\ buffer = NoBuffer
    /\ mem = [a \in Cells |-> <<"mem", 0, a>>]
    /\ user = [p \in Procs |-> Fresh(p)]
    /\ was = [p \in Procs |-> <<>>] /\ touch = NoTouch

Init == LifeInit /\ PathInit

At(p, from, to) == pc[p] = from /\ pc' = [pc EXCEPT ![p] = to]

----------------------------------------------------------------------------
(* The semaphore.  A sleeper is served in the order of arrival.            *)

\* A call arrives at down_interruptible.
Arrive(p, from, to) ==
    /\ At(p, from, to)
    /\ queue' = Append(queue, p)
    /\ touch' = NoTouch
    /\ UNCHANGED <<holder, frame, buffer, mem, was>>

Granted(p) ==
    /\ holder = Nobody /\ queue # <<>> /\ Head(queue) = p
    /\ holder' = p /\ queue' = Tail(queue)

\* A signal ends the sleep: the call returns without the semaphore.
Interrupted(p, from, to) ==
    /\ At(p, from, to) /\ holder # Nobody
    /\ queue' = SelectSeq(queue, LAMBDA q : q # p)
    /\ touch' = NoTouch
    /\ UNCHANGED <<frame, holder, data, was>>

Up == holder' = Nobody /\ UNCHANGED queue

----------------------------------------------------------------------------
(* open and close: what they store is modelled in KernelIrq                *)

OpenCall(p) ==
    /\ CanOpen
    /\ Arrive(p, "closed", "open")
    /\ users' = users \cup {p}
    /\ UNCHANGED <<life, aclsoc, held, size, req, ret, user>>

\* The body of open runs to its end; the address of the segment control is
\* computed with the same check as a transfer's and never used.
OpenBody(p) ==
    /\ At(p, "open", "idle")
    /\ queue # <<>> /\ Head(queue) = p /\ holder = Nobody
    /\ queue' = Tail(queue) /\ holder' = Nobody
    /\ touch' = NoTouch
    /\ UNCHANGED <<lifeVars, req, ret, frame, data, was>>

OpenInterrupted(p) ==
    /\ Interrupted(p, "open", "closed")
    /\ users' = users \ {p}
    /\ UNCHANGED <<life, aclsoc, held, size, req, ret>>

CloseCall(p) ==
    Arrive(p, "idle", "close") /\ UNCHANGED <<lifeVars, req, ret>>

\* The kernel drops the file whatever aclsoc_close returns.
CloseBody(p) ==
    /\ At(p, "close", "closed")
    /\ queue # <<>> /\ Head(queue) = p /\ holder = Nobody
    /\ queue' = Tail(queue) /\ holder' = Nobody
    /\ touch' = NoTouch
    /\ users' = users \ {p}
    /\ UNCHANGED <<life, aclsoc, held, size, req, ret, frame, data, was>>

CloseInterrupted(p) ==
    /\ Interrupted(p, "close", "closed")
    /\ users' = users \ {p}
    /\ UNCHANGED <<life, aclsoc, held, size, req, ret>>

----------------------------------------------------------------------------
(* aclsoc_rw: the decisions                                                *)

\* The device address as ssize_t.
Signed(a) == IF a < Width \div 2 THEN a ELSE a - Width

Sum(a, n) == (a + n) % Width

\* Mutant of BarOf: a transfer up to the end of the window is sent to bar 2.
BarOfShort(r) ==
    IF /\ r.bar = 0
       /\ Signed(r.addr) >= Base
       /\ Sum(r.addr, r.size) < Base + Window
    THEN 0 ELSE 2

\* Global memory is reached through bar 0 and the window, everything else is
\* sent to bar 2.  The end of the transfer is an unsigned sum.
BarOf(r) ==
    IF /\ r.bar = 0
       /\ Signed(r.addr) >= Base
       /\ Sum(r.addr, r.size) <= Base + Window
    THEN 0 ELSE 2

\* Mutant of Checked: the length is forgotten.
CheckedStart(r) == r.addr <= size[BarOf(r)]

\* aclsoc_get_checked_addr
Checked(r) == Sum(r.addr, r.size) <= size[BarOf(r)]

Call(p, r) ==
    /\ Arrive(p, "idle", "rw")
    /\ req' = [req EXCEPT ![p] = r]
    /\ UNCHANGED <<lifeVars, ret>>

CallInterrupted(p) ==
    /\ Interrupted(p, "rw", "idle")
    /\ req' = [req EXCEPT ![p] = NoRequest]
    /\ ret' = [ret EXCEPT ![p] = "fault"]
    /\ UNCHANGED lifeVars

\* Mutant of Enter: aclsoc_rw without down_interruptible.
EnterUnlocked(p) ==
    /\ At(p, "rw", "dispatch")
    /\ queue' = SelectSeq(queue, LAMBDA q : q # p)
    /\ frame' = [frame EXCEPT ![p] = NewFrame] /\ touch' = NoTouch
    /\ UNCHANGED <<lifeVars, holder, req, ret, data, was>>

Enter(p) ==
    /\ At(p, "rw", "dispatch")
    /\ Granted(p)
    /\ frame' = [frame EXCEPT ![p] = NewFrame] /\ touch' = NoTouch
    /\ UNCHANGED <<lifeVars, req, ret, data, was>>

\* The side that the transfer is going to change, as it is now.
Before(p) == IF req[p].op = "read" THEN user[p] ELSE mem

Finish(p, result) ==
    /\ pc' = [pc EXCEPT ![p] = "leave"]
    /\ ret' = [ret EXCEPT ![p] = result]

\* The request cannot be read, or fails the check, or is a command or a
\* transfer of one kind or the other; DMA is compiled out (USE_DMA is 0).
Dispatch(p) ==
    LET r == req[p] IN
    /\ pc[p] = "dispatch"
    /\ \/ r.op = "unreadable" /\ Finish(p, "fault") /\ UNCHANGED <<frame, was>>
       \/ /\ r.op = "command"
          /\ pc' = [pc EXCEPT ![p] = "command"] /\ UNCHANGED <<frame, was, ret>>
       \/ /\ r.op \in Ops /\ ~Checked(r)
          /\ Finish(p, "fault") /\ UNCHANGED <<frame, was>>
       \/ /\ r.op \in Ops /\ Checked(r)
          /\ frame' = [frame EXCEPT ![p].bar = BarOf(r)]
          /\ was' = [was EXCEPT ![p] = Before(p)]
          /\ IF r.size = 0 THEN Finish(p, "ok")
             ELSE /\ pc' = [pc EXCEPT ![p] = IF r.size \in {1, 2, 4} THEN "small"
                                             ELSE IF r.op = "write" THEN "fill"
                                             ELSE "dev"]
                  /\ UNCHANGED ret
    /\ touch' = NoTouch
    /\ UNCHANGED <<lifeVars, req, semVars, data>>

\* What only the call needs: nobody looks at the bounce buffer again either.
Forget(p) ==
    /\ req' = [req EXCEPT ![p] = NoRequest]
    /\ frame' = [frame EXCEPT ![p] = NewFrame]
    /\ was' = [was EXCEPT ![p] = <<>>]
    /\ buffer' = NoBuffer
    /\ touch' = NoTouch

\* Mutant of Leave: a call that fails returns without up.
LeaveHolding(p) ==
    /\ At(p, "leave", "idle")
    /\ IF ret[p] = "ok" THEN Up ELSE UNCHANGED semVars
    /\ Forget(p)
    /\ UNCHANGED <<lifeVars, mem>>

Leave(p) ==
    /\ At(p, "leave", "idle")
    /\ Up
    /\ Forget(p)
    /\ UNCHANGED <<lifeVars, mem>>

----------------------------------------------------------------------------
(* The hardware                                                            *)

\* n cells of a bar are accessed from offset a on.
Access(p, b, a, n) ==
    touch' = [bar |-> b, first |-> a, last |-> a + n - 1, by |-> p]

\* What is read at offset a of bar b.
ReadCell(b, a) == IF b = 0 /\ a \in Cells THEN mem[a] ELSE RegData

\* The memory after the n cells from offset a on of bar b are written with
\* those of f, from index s on.
WriteCells(b, a, n, f, s) ==
    [c \in Cells |-> IF b = 0 /\ a <= c /\ c < a + n THEN f[s + c - a] ELSE mem[c]]

\* A copy of n cells from a process, from address u on, as the driver sees
\* it: the process's data up to a fault.
CopyIn(p, u, n) ==
    [j \in 0 .. n - 1 |-> IF u + j \in UserAddrs THEN user[p][u + j] ELSE Junk]

\* A copy of nothing cannot fault.
Readable(u, n) == n = 0 \/ u + n <= UserCells

\* The memory of p after a copy of the first n cells of f to address u: cells
\* before a fault are written.
CopyOut(p, u, n, f) ==
    [user EXCEPT ![p] = [v \in UserAddrs |->
        IF u <= v /\ v < u + n THEN f[v - u] ELSE user[p][v]]]

----------------------------------------------------------------------------
(* What is not there *)

\* The case of two bytes has no break: the case of four follows, and its copy
\* decides the result.  The data is written whether or not it could be copied.
Written(n) == IF n = 2 THEN 4 ELSE n

\* The cells of a large transfer that go through the bounce buffer together.
Chunk(p) == LET left == req[p].size - frame[p].done
            IN  IF left < Buf THEN left ELSE Buf

\* The command writes the interrupt enable register.
WritesEnable(cmd) ==
    cmd \in {"ENABLE_KERNEL_IRQ", "SAVE"} \/ (cmd = "LOAD" /\ "irq" \notin held)

\* The next access of p goes through a pointer that is NULL: to a region that
\* is not mapped, or not yet, or to a table that was never allocated.
Astray(p) ==
    \/ /\ pc[p] = "command"
       /\ \/ WritesEnable(req[p].cmd) /\ ~Mapped(2)
          \/ req[p].cmd = "GET_PHYS_PTR_FROM_VIRT" /\ "addr_map" \notin held
    \/ pc[p] = "small" /\ ~Mapped(frame[p].bar)
    \/ pc[p] = "dev" /\ frame[p].i < Chunk(p) /\ ~Mapped(frame[p].bar)

\* The next access of p is to a region that is mapped and ends behind it: a
\* transfer whose end wraps around, or an overhang.
Outside(p) ==
    LET r == req[p]
        f == frame[p]
    IN  \/ /\ pc[p] = "small"
           /\ r.addr + (IF r.op = "write" THEN Written(r.size) ELSE r.size)
                  > RegionSize[f.bar]
        \/ /\ pc[p] = "dev" /\ f.i < Chunk(p)
           /\ r.addr + f.done + f.i >= RegionSize[f.bar]

\* The call ends there, with the semaphore; behind a region it may go on as
\* well.  LOAD has requested the interrupt by then.
Die(p) ==
    /\ Astray(p) \/ Outside(p)
    /\ pc' = [pc EXCEPT ![p] = "dead"]
    /\ held' = IF pc[p] = "command" /\ req[p].cmd = "LOAD"
               THEN held \cup {"irq"} ELSE held
    /\ was' = [was EXCEPT ![p] = <<>>]
    /\ touch' = NoTouch
    /\ UNCHANGED <<life, aclsoc, size, users, req, frame, ret, semVars, data>>

\* mmap() looks for a free slot of the table without the semaphore; what it
\* does with one is modelled in AddrMap.
MmapNoTable(p) ==
    /\ At(p, "idle", "dead")
    /\ "addr_map" \notin held
    /\ touch' = NoTouch
    /\ UNCHANGED <<lifeVars, req, frame, ret, semVars, data, was>>

----------------------------------------------------------------------------
(* aclsoc_exec_cmd: the commands write the interrupt enable register, which *)
(* is not checked against the size of the region                           *)

Command(p) ==
    LET cmd == req[p].cmd IN
    /\ pc[p] = "command" /\ ~Astray(p)
    /\ Finish(p, "ok")
    /\ \/ WritesEnable(cmd) /\ Access(p, 2, 0, 4)
       \/ ~WritesEnable(cmd) /\ touch' = NoTouch
    /\ held' = CASE cmd = "SAVE" -> held \ {"irq"}
                 [] cmd = "LOAD" -> held \cup {"irq"}
                 [] OTHER -> held
    /\ UNCHANGED <<life, aclsoc, size, users, req, frame, semVars, data, was>>

----------------------------------------------------------------------------
(* 1, 2 and 4 cells                                                        *)

ReadSmall(p) ==
    LET r == req[p]
        b == frame[p].bar
    IN  /\ pc[p] = "small" /\ r.op = "read" /\ ~Astray(p)
        /\ Access(p, b, r.addr, r.size)
        /\ user' = CopyOut(p, r.user, r.size,
                           [j \in 0 .. r.size - 1 |-> ReadCell(b, r.addr + j)])
        /\ Finish(p, IF Readable(r.user, r.size) THEN "ok" ELSE "fault")
        /\ UNCHANGED <<lifeVars, req, frame, semVars, buffer, mem, was>>

WriteSmall(p) ==
    LET r == req[p]
        b == frame[p].bar
        n == Written(r.size)
    IN  /\ pc[p] = "small" /\ r.op = "write" /\ ~Astray(p)
        /\ Access(p, b, r.addr, n)
        /\ mem' = WriteCells(b, r.addr, n, CopyIn(p, r.user, n), 0)
        /\ Finish(p, IF Readable(r.user, n) THEN "ok" ELSE "fault")
        /\ UNCHANGED <<lifeVars, req, frame, semVars, buffer, user, was>>

----------------------------------------------------------------------------
(* aclsoc_rw_large                                                         *)

\* The cells of a chunk that go word by word; the rest goes byte by byte.
InWords(p) == (Chunk(p) \div Word) * Word

\* copy_from_user of a chunk.  A fault ends the call.
Fill(p) ==
    LET r == req[p]
        u == r.user + frame[p].done
        n == Chunk(p)
    IN  /\ pc[p] = "fill"
        /\ buffer' = [c \in 0 .. Buf - 1 |->
                          IF c < n THEN CopyIn(p, u, n)[c] ELSE buffer[c]]
        /\ \/ Readable(u, n) /\ pc' = [pc EXCEPT ![p] = "dev"] /\ UNCHANGED ret
           \/ ~Readable(u, n) /\ Finish(p, "fault")
        /\ touch' = NoTouch
        /\ UNCHANGED <<lifeVars, req, frame, semVars, mem, user, was>>

\* The next word or byte goes between the buffer and the device.
Transfer(p) ==
    LET r == req[p]
        f == frame[p]
        n == IF f.i < InWords(p) THEN Word ELSE 1
        a == r.addr + f.done + f.i
    IN  /\ pc[p] = "dev" /\ f.i < Chunk(p) /\ ~Astray(p)
        /\ Access(p, f.bar, a, n)
        /\ frame' = [frame EXCEPT ![p].i = f.i + n]
        /\ \/ /\ r.op = "read"
              /\ buffer' = [c \in 0 .. Buf - 1 |->
                                IF f.i <= c /\ c < f.i + n
                                THEN ReadCell(f.bar, a + c - f.i) ELSE buffer[c]]
              /\ UNCHANGED mem
           \/ /\ r.op = "write"
              /\ mem' = WriteCells(f.bar, a, n, buffer, f.i)
              /\ UNCHANGED buffer
        /\ UNCHANGED <<lifeVars, pc, req, ret, semVars, user, was>>

\* The next chunk, or the end.
NextChunk(p, again) ==
    LET done == frame[p].done + Chunk(p) IN
    /\ frame' = [frame EXCEPT ![p].done = done, ![p].i = 0]
    /\ IF done < req[p].size
       THEN pc' = [pc EXCEPT ![p] = again] /\ UNCHANGED ret
       ELSE Finish(p, "ok")

ChunkWritten(p) ==
    /\ pc[p] = "dev" /\ req[p].op = "write" /\ frame[p].i = Chunk(p)
    /\ NextChunk(p, "fill")
    /\ touch' = NoTouch
    /\ UNCHANGED <<lifeVars, req, semVars, data, was>>

ChunkRead(p) ==
    /\ At(p, "dev", "spill")
    /\ req[p].op = "read" /\ frame[p].i = Chunk(p)
    /\ touch' = NoTouch
    /\ UNCHANGED <<lifeVars, req, frame, ret, semVars, data, was>>

\* Mutant of Spill: the result of copy_to_user is not looked at.
SpillUnchecked(p) ==
    LET r == req[p]
        u == r.user + frame[p].done
        n == Chunk(p)
    IN  /\ pc[p] = "spill"
        /\ user' = CopyOut(p, u, n, buffer)
        /\ NextChunk(p, "dev")
        /\ touch' = NoTouch
        /\ UNCHANGED <<lifeVars, req, semVars, buffer, mem, was>>

\* copy_to_user of a chunk.  A fault ends the call.
Spill(p) ==
    LET r == req[p]
        u == r.user + frame[p].done
        n == Chunk(p)
    IN  /\ pc[p] = "spill"
        /\ user' = CopyOut(p, u, n, buffer)
        /\ \/ Readable(u, n) /\ NextChunk(p, "dev")
           \/ ~Readable(u, n) /\ Finish(p, "fault") /\ UNCHANGED frame
        /\ touch' = NoTouch
        /\ UNCHANGED <<lifeVars, req, semVars, buffer, mem, was>>

----------------------------------------------------------------------------
\* A signal reaches a process that sleeps on the semaphore.
Signalled(p) == OpenInterrupted(p) \/ CloseInterrupted(p) \/ CallInterrupted(p)

\* What a call does once it has begun, up to its return.
Proceed(p) ==
    \/ OpenBody(p) \/ CloseBody(p) \/ Enter(p) \/ Dispatch(p) \/ Command(p)
    \/ ReadSmall(p) \/ WriteSmall(p) \/ Fill(p) \/ Transfer(p)
    \/ ChunkWritten(p) \/ ChunkRead(p) \/ Spill(p) \/ Die(p)

LifeStep == LifeNext /\ UNCHANGED pathVars

----------------------------------------------------------------------------
(* Properties                                                              *)

\* What lies in the bounce buffer during a chunk is the caller's: its data on
\* the way to the device, or what the device has delivered so far.  All calls
\* share the buffer (aclsoc_fileio.c:507).
BounceBufferIsMine ==
    \A p \in Procs : pc[p] \in {"dev", "spill"} =>
        LET r == req[p]
            f == frame[p]
        IN  IF r.op = "write"
            THEN \A c \in 0 .. Chunk(p) - 1 :
                     buffer[c] = user[p][r.user + f.done + c]
            ELSE \A c \in 0 .. f.i - 1 :
                     buffer[c] = ReadCell(f.bar, r.addr + f.done + c)

\* A write that returns 0 has put all of the caller's data in place, one that
\* faults in a large transfer whole chunks of it and no more; data that could
\* not be copied reaches the device only in a call that fails; and only the
\* target changes, but for the two cells behind a write of two bytes
\* (aclsoc_fileio.c:271).
WriteOutcome(p) ==
    LET r == req[p]
        n == IF ret[p] = "ok" THEN r.size ELSE frame[p].done
        small == r.size \in {1, 2, 4}
    IN  /\ ret[p] = "ok" => Readable(r.user, r.size)
        /\ \A a \in Cells :
               LET in(k) == frame[p].bar = 0 /\ r.addr <= a /\ a < r.addr + k IN
               /\ in(n) => mem[a] = user[p][r.user + a - r.addr]
               /\ ~in(n) /\ (~small \/ ~in(Written(r.size))) => mem[a] = was[p][a]
               /\ mem[a] = Junk => was[p][a] = Junk \/ ret[p] = "fault"

\* A read that returns 0 has delivered what the device holds, one that faults
\* part of it; nothing else of the caller's memory changes.
ReadOutcome(p) ==
    LET r == req[p] IN
    /\ ret[p] = "ok" => Readable(r.user, r.size)
    /\ \A u \in UserAddrs :
           LET new == ReadCell(frame[p].bar, r.addr + u - r.user)
               in == r.user <= u /\ u < r.user + r.size
           IN  /\ in => IF ret[p] = "ok" THEN user[p][u] = new
                        ELSE user[p][u] \in {new, was[p][u]}
               /\ ~in => user[p][u] = was[p][u]

\* What a call reports is what it has done.
OutcomeMatchesData ==
    \A p \in Procs : pc[p] = "leave" /\ was[p] # <<>> =>
        IF req[p].op = "write" THEN WriteOutcome(p) ELSE ReadOutcome(p)

\* What reaches the hardware reaches a region that is mapped.  A transfer stays
\* between its start and its end, and its end in the region as it is mapped,
\* whatever the driver has stored as its size (aclsoc_fileio.c:77).  It does
\* not hold, and is not said here, of an end that wraps around, which passes
\* the check, nor of the two cells behind a write of two bytes.  A call
\* to a region that is not mapped reaches no hardware: its process dies (Die).
InRegion ==
    touch.by # Nobody =>
        /\ Mapped(touch.bar)
        /\ req[touch.by].op \in Ops =>
               LET r == req[touch.by] IN
               /\ touch.first >= r.addr
               /\ touch.last < r.addr + Written(r.size)
               /\ r.addr + r.size < Width =>
                      r.addr + r.size <= RegionSize[touch.bar]

\* A process that has the device open finds the device and the bounce buffer,
\* and no rmmod takes them away: rmmod waits for those who have the file open,
\* and a probe that fails leaves no node (aclsoc.c:483).  The table and the
\* regions are another matter: their absence is not noticed.
CallsFindTheirDevice ==
    \A p \in Procs : pc[p] # "closed" =>
        /\ aclsoc /\ {"dev", "buffer", "node"} \subseteq held
        /\ life \notin Unloading \cup {"oops"}

\* rmmod gives back all that the probe acquired, and what hosts have acquired
\* with LOAD.
UnloadReturnsAll == life = "out" => held = {}

=============================================================================
