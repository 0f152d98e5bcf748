---------------------------------- MODULE Gate ----------------------------------
(***************************************************************************)
(* What a triage step promises the job that runs it: it sees the verdicts  *)
(* of the reports one by one, in any order, and then decides, once, with   *)
(* exit code 1 if one of them is "real" and 0 if none is.                  *)
(***************************************************************************)
EXTENDS Integers

CONSTANT Verdicts

VARIABLES seen,    \* the verdicts of the reports read so far
          code     \* the exit code, -1 before it is decided

Tripped == "real" \in seen

Init == seen = {} /\ code = -1

See == /\ code = -1
       /\ \E v \in Verdicts : seen' = seen \cup {v}
       /\ UNCHANGED code

Decide == /\ code = -1
          /\ code' = IF Tripped THEN 1 ELSE 0
          /\ UNCHANGED seen

Next == See \/ Decide

Spec == Init /\ [][Next]_<<seen, code>>
================================================================================
