------------------------------- MODULE RunCapped -------------------------------
(***************************************************************************)
(* One call of run_capped (chassis/resource_oracle.py:63-90): the parent,  *)
(* the spawned child that runs _child (42-60), the queue's feeder thread   *)
(* and the pipe between them, the wall-clock deadline, SIGTERM, and the    *)
(* kernel's OOM killer, at the grain at which they interleave.             *)
(*                                                                         *)
(* The queue is CPython's multiprocessing.Queue as run_capped uses it:     *)
(* put() hands the message to a feeder thread, a process does not exit     *)
(* before its feeder has written everything, and the pipe holds a bounded  *)
(* amount.  A message is counted in writes: a short one is written whole,  *)
(* a long one is a header and a body, a huge one exceeds the pipe.         *)
(***************************************************************************)
EXTENDS Naturals

CONSTANTS
    Behaviours,   \* what fn(*args) may do: see AllBehaviours
    PipeCap,      \* writes the pipe holds
    KillPoints    \* control points at which the kernel may kill the child

AllBehaviours ==
    {"returns",     \* returns normally
     "leaks",       \* returns, and what it keeps leaves no room for a thread
     "raises",      \* raises an exception with a short message
     "raisesLong",  \* ... whose message is written as a header and a body
     "raisesHuge",  \* ... whose message exceeds the pipe's capacity
     "raisesFull",  \* ... with a traceback that leaves no room for a thread
     "memory",      \* MemoryError, with room left once it is caught
     "hoards",      \* MemoryError, its traceback still holding the memory
     "loops",       \* never ends
     "quits"}       \* SystemExit, os._exit, or a crash: ends with no report

ChildPCs == {"boot", "fn", "exiting", "dead"}

ASSUME BehavioursAssumption == Behaviours \subseteq AllBehaviours
ASSUME PipeCapAssumption == PipeCap \in Nat /\ PipeCap >= 2
ASSUME KillPointsAssumption == KillPoints \subseteq ChildPCs \ {"dead"}

VARIABLES
    fn, capAvail, killed, outcome,   \* as in CappedCall
    calm,      \* a machine with time and memory to spare: the deadline
               \* strikes only a child that cannot move, the kernel kills none
    parent,    \* where run_capped is
    child,     \* where the child process is
    msg,       \* what the child has put on the queue, "none" if nothing
    pending,   \* writes its feeder thread still owes
    inPipe,    \* writes in the pipe
    sigterm    \* p.terminate() was called

callvars  == <<fn, capAvail, killed, outcome>>
vars == <<fn, capAvail, killed, outcome, calm, parent, child, msg, pending, inPipe, sigterm>>

Size == CASE fn = "raisesLong" -> 2
          [] fn = "raisesHuge" -> PipeCap + 1
          [] OTHER -> 1

Init == /\ fn \in Behaviours
        /\ capAvail \in BOOLEAN
        /\ calm \in BOOLEAN
        /\ killed = FALSE
        /\ outcome = "none"
        /\ parent = "join"            \* p.start() has returned
        /\ child = "boot"
        /\ msg = "none"
        /\ pending = 0
        /\ inPipe = 0
        /\ sigterm = FALSE

--------------------------------------------------------------------------------
(* The child. *)

ChildUnchanged == UNCHANGED <<fn, capAvail, killed, outcome, calm, parent, sigterm>>

(* q.put(report), the last statement of every path through _child. *)
Put(report, size) == /\ msg' = report
                     /\ pending' = size
                     /\ child' = "exiting"
                     /\ UNCHANGED inPipe
                     /\ ChildUnchanged

(* The path ends with nothing on the queue: a BaseException, a crash, or   *)
(* the last put() of the path, in an except clause, whose feeder thread    *)
(* cannot be started under the cap.                                        *)
NoReport == /\ child' = "exiting"
            /\ UNCHANGED <<msg, pending, inPipe>>
            /\ ChildUnchanged

(* Mutant: a cap that cannot be set is ignored. *)
SetCapIgnoringFailure == /\ child = "boot"
                         /\ child' = "fn"
                         /\ UNCHANGED <<msg, pending, inPipe>>
                         /\ ChildUnchanged

SetCap == /\ child = "boot"
          /\ \/ capAvail /\ child' = "fn"
                         /\ UNCHANGED <<msg, pending, inPipe>> /\ ChildUnchanged
             \/ ~capAvail /\ Put("nocap", 1)

FnReturns == /\ child = "fn"
             /\ fn \in {"returns", "leaks"}
             /\ Put("ok", Size)

(* put(OK) stands inside the try: when its feeder cannot be started, the   *)
(* MemoryError or RuntimeError is caught as the loader's would be, and the *)
(* clause puts a report of its own.                                        *)
PutOkFails == /\ child = "fn"
              /\ fn = "leaks"
              /\ \E report \in {"exhausted", "rejected"} : Put(report, Size)

FnRaises == /\ child = "fn"
            /\ fn \in {"raises", "raisesLong", "raisesHuge", "raisesFull"}
            /\ Put("rejected", Size)

FnExhausts == /\ child = "fn"
              /\ fn \in {"memory", "hoards"}
              /\ Put("exhausted", Size)

FnLeavesNoReport == /\ child = "fn"
                    /\ fn \in {"quits", "leaks", "hoards", "raisesFull"}
                    /\ NoReport

(* Mutant: a feeder that does not wait for room in the pipe. *)
FeederWritesPastCapacity == /\ child = "exiting"
                            /\ pending > 0
                            /\ pending' = pending - 1
                            /\ inPipe' = inPipe + 1
                            /\ UNCHANGED <<msg, child>>
                            /\ ChildUnchanged

FeederWrites == /\ child = "exiting"
                /\ pending > 0
                /\ inPipe < PipeCap
                /\ pending' = pending - 1
                /\ inPipe' = inPipe + 1
                /\ UNCHANGED <<msg, child>>
                /\ ChildUnchanged

ChildExits == /\ child = "exiting"
              /\ pending = 0
              /\ child' = "dead"
              /\ UNCHANGED <<msg, pending, inPipe>>
              /\ ChildUnchanged

SigtermKills == /\ sigterm
                /\ child # "dead"
                /\ child' = "dead"
                /\ UNCHANGED <<msg, pending, inPipe>>
                /\ ChildUnchanged

KernelKills == /\ ~calm
               /\ child \in KillPoints
               /\ outcome = "none"
               /\ killed' = TRUE
               /\ child' = "dead"
               /\ UNCHANGED <<fn, capAvail, outcome, calm, parent, msg, pending, inPipe, sigterm>>

--------------------------------------------------------------------------------
(* The parent. *)

ParentGoes(pc) == /\ parent' = pc
                  /\ UNCHANGED <<fn, capAvail, killed, outcome, calm, child, msg, pending, inPipe>>

Return(o) == /\ outcome' = o
             /\ parent' = "done"
             /\ UNCHANGED <<fn, capAvail, killed, calm, child, msg, pending, sigterm>>

(* Neither looping nor waiting for room in the pipe. *)
ChildCanMove == \/ child \in {"boot", "dead"}
                \/ child = "fn" /\ fn # "loops"
                \/ child = "exiting" /\ (pending = 0 \/ inPipe < PipeCap)

(* p.join(timeout_s) returns when the child has exited ... *)
JoinSeesExit == /\ parent = "join"
                /\ child = "dead"
                /\ ParentGoes("check")
                /\ UNCHANGED sigterm

(* ... or when the time is up, whatever the child is doing. *)
JoinTimesOut == /\ parent = "join"
                /\ calm => ~ChildCanMove
                /\ ParentGoes("check")
                /\ UNCHANGED sigterm

(* Mutants: the verdict is taken from the clock and not from the child;    *)
(* the child is waited for without having been terminated.                 *)
CheckClock == /\ parent = "check"
              /\ ParentGoes("reap")
              /\ sigterm' = TRUE

CheckWithoutTerminate == /\ parent = "check"
                         /\ ParentGoes(IF child = "dead" THEN "poll" ELSE "reap")
                         /\ UNCHANGED sigterm

(* if p.is_alive(): p.terminate() -- the child may have exited since. *)
CheckAlive == /\ parent = "check"
              /\ IF child = "dead"
                 THEN ParentGoes("poll") /\ UNCHANGED sigterm
                 ELSE ParentGoes("reap") /\ sigterm' = TRUE

(* Mutant: terminate() with no join() after it. *)
ReapWithoutJoin == /\ parent = "reap"
                   /\ Return("timeout")
                   /\ UNCHANGED inPipe

(* p.join(); return ("timeout", ...): a report already queued is dropped.  *)
Reap == /\ parent = "reap"
        /\ child = "dead"
        /\ Return("timeout")
        /\ UNCHANGED inPipe

(* if not q.empty(): true as soon as one write is in the pipe. *)
PollFindsReport == /\ parent = "poll"
                   /\ inPipe > 0
                   /\ ParentGoes("get")
                   /\ UNCHANGED sigterm

PollFindsNothing == /\ parent = "poll"
                    /\ inPipe = 0
                    /\ Return("exhausted")
                    /\ UNCHANGED inPipe

(* return q.get(): waits for the whole message.  The parent holds a write  *)
(* end of the pipe itself, so the death of the child does not end the wait.*)
GetReport == /\ parent = "get"
             /\ pending = 0
             /\ Return(msg)
             /\ inPipe' = 0

--------------------------------------------------------------------------------
Child == \/ SetCap \/ FnReturns \/ PutOkFails \/ FnRaises \/ FnExhausts
         \/ FnLeavesNoReport \/ FeederWrites \/ ChildExits \/ SigtermKills

Parent == \/ JoinSeesExit \/ JoinTimesOut \/ CheckAlive \/ Reap
          \/ PollFindsReport \/ PollFindsNothing \/ GetReport

Next == Child \/ Parent \/ KernelKills

Spec == Init /\ [][Next]_vars

(* The operating system schedules both processes, delivers SIGTERM and     *)
(* lets time pass; nothing obliges the OOM killer to strike.               *)
Fairness == WF_vars(Child) /\ WF_vars(Parent)
FairSpec == Spec /\ Fairness

--------------------------------------------------------------------------------
(* Properties. *)

TypeOK == /\ fn \in Behaviours
          /\ capAvail \in BOOLEAN
          /\ killed \in BOOLEAN
          /\ calm \in BOOLEAN
          /\ outcome \in {"none", "ok", "rejected", "exhausted", "timeout", "nocap"}
          /\ parent \in {"join", "check", "reap", "poll", "get", "done"}
          /\ child \in ChildPCs
          /\ msg \in {"none", "ok", "rejected", "exhausted", "nocap"}
          /\ pending \in 0..(PipeCap + 1)
          /\ inPipe \in 0..PipeCap
          /\ sigterm \in BOOLEAN

(* Every outcome run_capped returns is honest about the loader, however    *)
(* parent, child, feeder, deadline and OOM killer interleave, and no call  *)
(* is told anything of the one before it: RunCapped implements CappedCall. *)
Call == INSTANCE CappedCall
ImplementsCall == Call!Spec

(* run_capped leaves no loader running behind its back: once it has        *)
(* returned, the child is gone (lines 82-86).                              *)
NoOrphan == parent = "done" => child = "dead"

(* On a calm machine a loader is called a timeout only when it loops, or   *)
(* when it ended and its report does not fit the pipe, which nobody reads  *)
(* before join returns: so also one that raised a clean exception fast,    *)
(* which lines 73 and 75 would have rejected.                              *)
TimeoutMeansStuck == calm /\ outcome = "timeout" => fn \in {"loops", "raisesHuge"}

(* The child died in the middle of writing its report (only its feeder     *)
(* thread can be there).                                                   *)
Torn == child = "dead" /\ inPipe > 0 /\ pending > 0 /\ ~sigterm

(* "Process died without reporting (e.g. OS-killed on the cap): treat as   *)
(* exhausted" (line 89): a call always returns, a killed child included.   *)
AlwaysReturns == <>(parent = "done")
================================================================================
