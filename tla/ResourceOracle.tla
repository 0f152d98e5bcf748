---------------------------- MODULE ResourceOracle ----------------------------
(***************************************************************************)
(* assert_guards_class (chassis/resource_oracle.py:93-122) and _selftest   *)
(* (155-188), on top of RunCapped: a suite is a sequence of cases, a case  *)
(* is two capped calls on one loader, first the bomb and then the benign   *)
(* input, and the suite fails when a case is not flagged as expected.      *)
(***************************************************************************)
EXTENDS RunCapped, Integers, Sequences

CONSTANT Suites     \* sequences of [bomb, benign : behaviour, mustFlag : BOOLEAN]

Case == [bomb : Behaviours, benign : Behaviours, mustFlag : BOOLEAN]
ASSUME SuitesAssumption == Suites \subseteq Seq(Case) /\ <<>> \notin Suites

VARIABLES suite,      \* the suite that is run
          phase,      \* which input the current call has, or "done"
          failures,   \* what assert_guards_class has to say of the current case
          flagged,    \* per finished case: was the list of failures non-empty?
          exitCode    \* of the self-test, -1 until it ends

ovars == <<suite, phase, failures, flagged, exitCode>>
allvars == <<vars, ovars>>

current == suite[Len(flagged) + 1]

OracleInit == /\ suite \in Suites
              /\ phase = "bomb"
              /\ failures = {}
              /\ flagged = <<>>
              /\ exitCode = -1
              /\ Init
              /\ fn = suite[1].bomb

CallStep == Next /\ UNCHANGED ovars

(* The next call of run_capped: a new queue and a new process.             *)
StartCall(behaviour) == /\ fn' = behaviour
                        /\ parent' = "join"
                        /\ child' = "boot"
                        /\ msg' = "none" /\ outcome' = "none"
                        /\ pending' = 0 /\ inPipe' = 0
                        /\ killed' = FALSE /\ sigterm' = FALSE
                        /\ UNCHANGED <<capAvail, calm>>

(* Mutants: a timeout is not a failure; running out of memory is not one;  *)
(* a rejection is one.                                                     *)
BombFailuresButTimeout == CASE outcome = "exhausted" -> {"notBounded"}
                            [] outcome = "nocap" -> {"inconclusive"}
                            [] OTHER -> {}

BombFailuresButExhausted == CASE outcome = "timeout" -> {"notBounded"}
                              [] outcome = "nocap" -> {"inconclusive"}
                              [] OTHER -> {}

BombMustBeAccepted == IF outcome # "ok" THEN {"notBounded"} ELSE {}

BombFailures == CASE outcome \in {"exhausted", "timeout"} -> {"notBounded"}
                  [] outcome = "nocap" -> {"inconclusive"}
                  [] OTHER -> {}

BenignFailures == IF outcome # "ok" THEN {"benignFailed"} ELSE {}

BombDone == /\ phase = "bomb"
            /\ parent = "done"
            /\ failures' = BombFailures
            /\ phase' = "benign"
            /\ StartCall(current.benign)
            /\ UNCHANGED <<suite, flagged, exitCode>>

(* Mutant: only the loaders that must be flagged are looked at. *)
FlaggedAsExpected(flags) == \A i \in DOMAIN flags : suite[i].mustFlag => flags[i]

AsExpected(flags) == \A i \in DOMAIN flags : flags[i] = suite[i].mustFlag

BenignDone == /\ phase = "benign"
              /\ parent = "done"
              /\ flagged' = Append(flagged, failures \cup BenignFailures # {})
              /\ failures' = {}
              /\ IF Len(flagged') < Len(suite)
                 THEN /\ phase' = "bomb"
                      /\ StartCall(suite[Len(flagged') + 1].bomb)
                      /\ UNCHANGED exitCode
                 ELSE /\ phase' = "done"
                      /\ exitCode' = IF AsExpected(flagged') THEN 0 ELSE 1
                      /\ UNCHANGED vars
              /\ UNCHANGED suite

OracleNext == CallStep \/ BombDone \/ BenignDone

OracleFairness == /\ WF_allvars(Child /\ UNCHANGED ovars)
                  /\ WF_allvars(Parent /\ UNCHANGED ovars)
                  /\ WF_allvars(BombDone \/ BenignDone)

OracleSpec == OracleInit /\ [][OracleNext]_allvars /\ OracleFairness

--------------------------------------------------------------------------------
(* Properties. *)

(* The regression guard has no false pass ("empty means pass", line 103):  *)
(* whatever the timing and the OOM killer, a case with an empty list of    *)
(* failures had its cap in force, a bomb that ended by itself and not by   *)
(* running out of memory, and a benign input that was accepted.            *)
NoFalsePass ==
    \A i \in DOMAIN flagged : ~flagged[i] =>
        /\ capAvail
        /\ suite[i].bomb \notin {"loops", "memory", "hoards", "quits"}
        /\ suite[i].benign \in {"returns", "leaks"}

(* ... and, on a calm machine, no false alarm: a loader that ends the bomb *)
(* at once, with room for the queue's thread and a message that fits the   *)
(* pipe, and accepts the benign input is passed.                           *)
NoFalseAlarm ==
    calm => \A i \in DOMAIN flagged : flagged[i] =>
        \/ ~capAvail
        \/ suite[i].bomb \notin {"returns", "raises", "raisesLong"}
        \/ suite[i].benign # "returns"

(* The self-test never goes green on a machine where no cap can be set:    *)
(* there every bomb is "inconclusive", which flags every loader, and only  *)
(* a case that must not be flagged, as the third one, tells.               *)
SelftestNeedsCap ==
    exitCode = 0 /\ (\E i \in DOMAIN suite : ~suite[i].mustFlag) => capAvail

(* On a calm machine the exit code is exactly "can a cap be set?", for any *)
(* suite built like that of _selftest: a loader that must be flagged       *)
(* exhausts memory or time, the others end the bomb at once, every benign  *)
(* input is accepted, and one loader at least must not be flagged.         *)
LikeSelftest ==
    /\ \A i \in DOMAIN suite :
          /\ suite[i].bomb \in IF suite[i].mustFlag THEN {"memory", "hoards", "loops"}
                                                   ELSE {"returns", "raises", "raisesLong"}
          /\ suite[i].benign = "returns"
    /\ \E i \in DOMAIN suite : ~suite[i].mustFlag

SelftestExact == calm /\ LikeSelftest /\ exitCode # -1 => (exitCode = 0 <=> capAvail)

(* A suite ends, given that no report is torn by the OOM killer: loaders   *)
(* that loop or cannot deliver their report included.                      *)
SuiteEnds == <>(phase = "done" \/ Torn)
================================================================================
