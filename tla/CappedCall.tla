------------------------------ MODULE CappedCall ------------------------------
(***************************************************************************)
(* What a caller of chassis/resource_oracle.py's run_capped may rely on,   *)
(* with no child process, queue or clock in it: one call on a loader whose *)
(* behaviour is fixed ends with at most one outcome, the outcome tells the *)
(* truth about that behaviour, and nothing of one call is left in the next.*)
(* RunCapped implements one call, ResourceOracle a sequence of them.       *)
(***************************************************************************)
CONSTANT Behaviours     \* what fn(*args) may do in the child, see RunCapped

VARIABLES fn,           \* the behaviour of this call's loader on its input
          capAvail,     \* would setrlimit(RLIMIT_AS, ...) be accepted?
          killed,       \* has the kernel killed the child?
          outcome       \* what run_capped returned, "none" until it does

cvars == <<fn, capAvail, killed, outcome>>

(* Outcome strings of resource_oracle.py (OK, REJECTED, EXHAUSTED and the  *)
(* two literals of run_capped and _child).                                 *)
Outcomes == {"ok", "rejected", "exhausted", "timeout", "nocap"}

Returning == {"returns", "leaks"}
Raising   == {"raises", "raisesLong", "raisesHuge", "raisesFull"}
Hungry    == {"memory", "hoards"}

(* Behaviours under which putting the report on the queue may itself fail: *)
(* under the cap there may be no room for the queue's feeder thread.       *)
NoRoom == {"leaks", "hoards", "raisesFull"}

(* The truth table of the docstring of run_capped.  Any call may time out: *)
(* nothing bounds how long the child's interpreter takes to start.         *)
Honest(o) ==
    \/ o = "ok"        /\ capAvail /\ fn \in Returning
    \/ o = "rejected"  /\ capAvail /\ fn \in Raising \cup {"leaks"}
    \/ o = "exhausted" /\ (killed \/ (capAvail /\ fn \in Hungry \cup NoRoom \cup {"quits"}))
    \/ o = "nocap"     /\ ~capAvail
    \/ o = "timeout"

Init == /\ fn \in Behaviours
        /\ capAvail \in BOOLEAN
        /\ killed = FALSE
        /\ outcome = "none"

KernelKills == /\ outcome = "none"
               /\ killed' = TRUE
               /\ UNCHANGED <<fn, capAvail, outcome>>

Answer == /\ outcome = "none"
          /\ outcome' \in {o \in Outcomes : Honest(o)}
          /\ UNCHANGED <<fn, capAvail, killed>>

(* The caller calls again, on another loader or input. *)
NewCall == /\ outcome # "none"
           /\ fn' \in Behaviours
           /\ outcome' = "none"
           /\ killed' = FALSE
           /\ UNCHANGED capAvail

Next == KernelKills \/ Answer \/ NewCall

Spec == Init /\ [][Next]_cvars
===============================================================================
