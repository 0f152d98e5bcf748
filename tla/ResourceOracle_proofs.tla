------------------------- MODULE ResourceOracle_proofs -------------------------
(***************************************************************************)
(* Proofs about the resource-exhaustion oracle.  First RunCapped, for      *)
(* every set of behaviours, every capacity of the pipe, calm machines and  *)
(* loaded ones, and the OOM killer anywhere.  Then, from what holds of one *)
(* call, assert_guards_class and the self-test, for every suite of cases:  *)
(* no false pass, no false alarm on a calm machine, and a suite is a       *)
(* sequence of honest calls.                                               *)
(***************************************************************************)
EXTENDS ResourceOracle, TLAPS

Assumptions == /\ Behaviours \subseteq AllBehaviours
               /\ PipeCap \in Nat /\ PipeCap >= 2
               /\ KillPoints \subseteq ChildPCs \ {"dead"}

(* What is on the queue is true of the loader. *)
MsgHonest == /\ msg = "ok" => capAvail /\ fn \in {"returns", "leaks"}
             /\ msg = "rejected" => capAvail /\ fn \in {"raises", "raisesLong", "raisesHuge",
                                                       "raisesFull", "leaks"}
             /\ msg = "exhausted" => capAvail /\ fn \in {"memory", "hoards", "leaks"}
             /\ msg = "nocap" => ~capAvail

(* A child that ends with nothing on the queue had a reason. *)
SilenceExplained ==
    /\ child \in {"boot", "fn"} => msg = "none"
    /\ child = "fn" => capAvail
    /\ msg = "none" /\ (child = "exiting" \/ (child = "dead" /\ ~killed /\ ~sigterm)) =>
          capAvail /\ fn \in {"quits", "leaks", "hoards", "raisesFull"}

(* Writes are neither lost nor invented before the parent reads. *)
WritesAccounted ==
    /\ msg = "none" => pending = 0 /\ inPipe = 0
    /\ msg # "none" /\ parent # "done" => pending + inPipe >= 1
    /\ pending + inPipe <= Size
    /\ child = "dead" /\ ~killed /\ ~sigterm => pending = 0

(* What the parent knows where it is. *)
ParentKnows ==
    /\ parent \in {"poll", "get", "done"} => child = "dead"
    /\ parent \in {"join", "check", "poll", "get"} => ~sigterm
    /\ parent = "get" => inPipe > 0
    /\ parent = "done" <=> outcome # "none"

(* On a calm machine, only a stuck one is waited for in vain. *)
StuckBehaviour ==
    calm => /\ parent = "check" /\ child # "dead" => fn \in {"loops", "raisesHuge"}
            /\ parent = "reap" => fn \in {"loops", "raisesHuge"}
            /\ outcome = "timeout" => fn \in {"loops", "raisesHuge"}

IInv == /\ TypeOK
        /\ MsgHonest
        /\ SilenceExplained
        /\ WritesAccounted
        /\ ParentKnows
        /\ StuckBehaviour

(* The assumptions on the constants, gathered. *)
LEMMA AssumptionsHold == Assumptions
BY BehavioursAssumption, PipeCapAssumption, KillPointsAssumption
   DEF Assumptions

(* The inductive invariant holds at the start of every call. *)
LEMMA InitIInv == Init => IInv
<1> SUFFICES ASSUME Init PROVE IInv
    OBVIOUS
<1> USE AssumptionsHold DEF Assumptions, Init
<1>1. pending \in 0..(PipeCap + 1) /\ inPipe \in 0..PipeCap
  OBVIOUS
<1>2. TypeOK
  BY <1>1, Zenon DEF TypeOK, ChildPCs
<1>3. Size \in Nat
  BY DEF Size
<1>4. WritesAccounted
  BY <1>3 DEF WritesAccounted
<1>5. MsgHonest /\ SilenceExplained
  BY DEF MsgHonest, SilenceExplained
<1>6. ParentKnows /\ StuckBehaviour
  BY DEF ParentKnows, StuckBehaviour
<1>7. QED BY <1>2, <1>4, <1>5, <1>6 DEF IInv

(* Every step of child, parent and kernel preserves it. *)
LEMMA StepIInv == IInv /\ [Next]_vars => IInv'
<1> SUFFICES ASSUME IInv, [Next]_vars PROVE IInv'
    OBVIOUS
<1> USE AssumptionsHold
    DEF Assumptions, IInv, TypeOK, MsgHonest, SilenceExplained, WritesAccounted,
        ParentKnows, StuckBehaviour, ChildPCs, Size, AllBehaviours
<1>1. CASE SetCap
  BY <1>1 DEF SetCap, Put, ChildUnchanged
<1>2. CASE FnReturns
  BY <1>2 DEF FnReturns, Put, ChildUnchanged
<1>3. CASE FnRaises
  BY <1>3 DEF FnRaises, Put, ChildUnchanged
<1>4. CASE FnExhausts
  BY <1>4 DEF FnExhausts, Put, ChildUnchanged
<1>5. CASE FnLeavesNoReport
  BY <1>5 DEF FnLeavesNoReport, NoReport, ChildUnchanged
<1>6. CASE FeederWrites
  BY <1>6 DEF FeederWrites, ChildUnchanged
<1>7. CASE ChildExits
  BY <1>7 DEF ChildExits, ChildUnchanged
<1>8. CASE SigtermKills
  BY <1>8 DEF SigtermKills, ChildUnchanged
<1>9. CASE KernelKills
  BY <1>9 DEF KernelKills
<1>10. CASE JoinSeesExit
  BY <1>10 DEF JoinSeesExit, ParentGoes
<1>11. CASE JoinTimesOut
  BY <1>11 DEF JoinTimesOut, ParentGoes, ChildCanMove
<1>12. CASE CheckAlive
  BY <1>12 DEF CheckAlive, ParentGoes
<1>13. CASE Reap
  BY <1>13 DEF Reap, Return
<1>14. CASE PollFindsReport
  BY <1>14 DEF PollFindsReport, ParentGoes
<1>15. CASE PollFindsNothing
  BY <1>15 DEF PollFindsNothing, Return
<1>16. CASE GetReport
  BY <1>16 DEF GetReport, Return
<1>17. CASE UNCHANGED vars
  BY <1>17 DEF vars
<1>18. CASE PutOkFails
  BY <1>18 DEF PutOkFails, Put, ChildUnchanged
<1>19. QED
  BY <1>1, <1>2, <1>3, <1>4, <1>5, <1>6, <1>7, <1>8, <1>9, <1>10, <1>11, <1>12,
     <1>13, <1>14, <1>15, <1>16, <1>17, <1>18 DEF Next, Child, Parent

(* The inductive invariant holds in every state of every call. *)
THEOREM Invariance == Spec => []IInv
BY InitIInv, StepIInv, PTL DEF Spec

(* The variables of a call stay in their types. *)
THEOREM TypeCorrect == Spec => []TypeOK
<1>1. IInv => TypeOK
  BY DEF IInv
<1>2. QED BY <1>1, Invariance, PTL

(* run_capped never returns while its child is alive (lines 82-86). *)
THEOREM LeavesNoOrphan == Spec => []NoOrphan
<1>1. IInv => NoOrphan
  BY DEF IInv, ParentKnows, NoOrphan
<1>2. QED BY <1>1, Invariance, PTL

(* On a calm machine a child is called a timeout only when it loops or     *)
(* when its report does not fit the pipe.                                  *)
THEOREM CalmTimeout == Spec => []TimeoutMeansStuck
<1>1. IInv => TimeoutMeansStuck
  BY DEF IInv, StuckBehaviour, TimeoutMeansStuck
<1>2. QED BY <1>1, Invariance, PTL

(* Every step of a call is invisible to its caller, the kill of the child, *)
(* or an answer that is true of the loader.                                *)
LEMMA StepRefines == IInv /\ [Next]_vars => [Call!Next]_(Call!cvars)
<1> SUFFICES ASSUME IInv, [Next]_vars PROVE [Call!Next]_(Call!cvars)
    OBVIOUS
<1> USE DEF Call!Next, Call!cvars
<1>1. CASE Child
  BY <1>1 DEF Child, SetCap, FnReturns, PutOkFails, FnRaises, FnExhausts, FnLeavesNoReport,
     Put, NoReport, FeederWrites, ChildExits, SigtermKills, ChildUnchanged
<1>2. CASE KernelKills
  BY <1>2 DEF KernelKills, Call!KernelKills
<1>3. CASE JoinSeesExit \/ JoinTimesOut \/ CheckAlive \/ PollFindsReport
  BY <1>3 DEF JoinSeesExit, JoinTimesOut, CheckAlive, PollFindsReport, ParentGoes
<1>4. ASSUME NEW o \in Call!Outcomes, Return(o), outcome = "none", Call!Honest(o)
      PROVE  Call!Answer
  BY <1>4 DEF Return, Call!Answer
<1>5. CASE Reap
  BY <1>5, <1>4 DEF Reap, IInv, ParentKnows, Call!Honest, Call!Outcomes
<1>6. CASE PollFindsNothing
  <2>1. killed \/ (capAvail /\ fn \in {"quits", "leaks", "hoards", "raisesFull"})
    BY <1>6 DEF PollFindsNothing, IInv, TypeOK, ParentKnows, SilenceExplained,
       WritesAccounted
  <2>2. Call!Honest("exhausted")
    BY <2>1 DEF Call!Honest, Call!NoRoom, Call!Hungry
  <2>3. QED
    BY <1>6, <1>4, <2>2 DEF PollFindsNothing, IInv, ParentKnows, Call!Outcomes
<1>7. CASE GetReport
  <2>1. msg \in Call!Outcomes
    BY <1>7 DEF GetReport, IInv, TypeOK, WritesAccounted, ParentKnows, Call!Outcomes
  <2>2. Call!Honest(msg)
    BY <2>1 DEF IInv, MsgHonest, Call!Honest, Call!Outcomes, Call!Returning,
       Call!Raising, Call!NoRoom, Call!Hungry
  <2>3. QED
    BY <1>7, <1>4, <2>1, <2>2 DEF GetReport, IInv, ParentKnows
<1>8. CASE UNCHANGED vars
  BY <1>8 DEF vars
<1>9. QED
  BY <1>1, <1>2, <1>3, <1>5, <1>6, <1>7, <1>8 DEF Next, Parent

(* run_capped implements the honest call: what it returns is true of the   *)
(* loader, and it returns once.                                            *)
THEOREM Refinement == Spec => ImplementsCall
<1>1. Init => Call!Init
  BY DEF Init, Call!Init
<1>2. QED
  BY <1>1, StepRefines, Invariance, PTL DEF Spec, ImplementsCall, Call!Spec

--------------------------------------------------------------------------------
(* The oracle. *)

Phases == {"bomb", "benign", "done"}
Complaints == {"notBounded", "inconclusive", "benignFailed"}

OTypeOK == /\ suite \in Suites
           /\ phase \in Phases
           /\ failures \in SUBSET Complaints
           /\ flagged \in Seq(BOOLEAN)
           /\ exitCode \in {-1, 0, 1}

(* Where the suite is, and on which input the current call is. *)
Progress == /\ Len(flagged) \in 0..Len(suite)
            /\ phase # "done" => Len(flagged) < Len(suite) /\ exitCode = -1
            /\ phase = "bomb" => fn = current.bomb
            /\ phase = "benign" => fn = current.benign
            /\ phase = "done" => Len(flagged) = Len(suite)
            /\ exitCode = 0 => phase = "done" /\ AsExpected(flagged)
            /\ exitCode = 1 => phase = "done" /\ ~AsExpected(flagged)

(* What a call returned is true of its loader. *)
OutcomeHonest == outcome # "none" => Call!Honest(outcome)

BombEndedCleanly(case) == capAvail /\ case.bomb \notin {"loops", "memory", "hoards", "quits"}

(* An empty list of failures after the first call already says so. *)
BombJudged == phase = "benign" /\ failures = {} => BombEndedCleanly(current)

(* Loaders that end the bomb at once, with a report that fits the pipe. *)
Quick == {"returns", "raises", "raisesLong"}

(* A complaint on a calm machine is the loader's doing, or the missing     *)
(* cap's: the kernel has not touched the child.                            *)
AlarmIsReal ==
    calm => /\ ~killed
            /\ failures # {} => ~capAvail \/ current.bomb \notin Quick

OInv == /\ IInv
        /\ OTypeOK
        /\ Progress
        /\ OutcomeHonest
        /\ BombJudged
        /\ NoFalsePass
        /\ AlarmIsReal
        /\ NoFalseAlarm

(* A suite is a sequence of cases, and not empty. *)
LEMMA SuiteTyped == \A s \in Suites : /\ s \in Seq(Case) /\ Len(s) \in Nat \ {0}
                                      /\ \A i \in 1..Len(s) : s[i] \in Case
<1> SUFFICES ASSUME NEW s \in Suites
             PROVE  /\ s \in Seq(Case) /\ Len(s) \in Nat \ {0}
                    /\ \A i \in 1..Len(s) : s[i] \in Case
    OBVIOUS
<1>1. s \in Seq(Case) /\ s # <<>>
  BY SuitesAssumption
<1>2. Len(s) \in Nat /\ Len(s) # 0
  BY <1>1
<1>3. QED BY <1>1, <1>2

(* A new call starts in the inductive invariant of RunCapped. *)
LEMMA StartCallIInv ==
    ASSUME IInv, parent = "done", NEW b \in Behaviours, StartCall(b)
    PROVE  IInv' /\ OutcomeHonest' /\ [Call!NewCall]_(Call!cvars)
<1> USE AssumptionsHold DEF Assumptions, StartCall, IInv
<1>1. pending' \in 0..(PipeCap + 1) /\ inPipe' \in 0..PipeCap
  OBVIOUS
<1>2. TypeOK'
  BY <1>1, Zenon DEF TypeOK, ChildPCs
<1>3. Size' \in Nat
  BY DEF Size
<1>4. WritesAccounted'
  BY <1>3 DEF WritesAccounted
<1>5. MsgHonest' /\ SilenceExplained' /\ ParentKnows' /\ StuckBehaviour'
  BY DEF MsgHonest, SilenceExplained, ParentKnows, StuckBehaviour
<1>6. OutcomeHonest'
  BY DEF OutcomeHonest
<1>7. [Call!NewCall]_(Call!cvars)
  BY DEF Call!NewCall, Call!cvars, ParentKnows
<1>8. QED BY <1>2, <1>4, <1>5, <1>6, <1>7

(* A step within a call keeps what was returned true. *)
LEMMA CallStepHonest == IInv /\ OutcomeHonest /\ [Call!Next]_(Call!cvars) => OutcomeHonest'
<1> SUFFICES ASSUME IInv, OutcomeHonest, [Call!Next]_(Call!cvars) PROVE OutcomeHonest'
    OBVIOUS
<1> USE DEF OutcomeHonest, Call!Honest, Call!cvars, Call!NoRoom, Call!Hungry,
            Call!Returning, Call!Raising
<1>1. CASE Call!KernelKills
  BY <1>1 DEF Call!KernelKills
<1>2. CASE Call!Answer
  BY <1>2, Zenon DEF Call!Answer
<1>3. CASE Call!NewCall
  BY <1>3 DEF Call!NewCall
<1>4. CASE UNCHANGED Call!cvars
  BY <1>4
<1>5. QED BY <1>1, <1>2, <1>3, <1>4 DEF Call!Next

(* It holds initially. *)
LEMMA InitOInv == OracleInit => OInv
<1> SUFFICES ASSUME OracleInit PROVE OInv
    OBVIOUS
<1>1. IInv
  BY InitIInv DEF OracleInit
<1>2. OTypeOK
  BY DEF OracleInit, OTypeOK, Phases
<1>3. Progress
  BY SuiteTyped DEF OracleInit, Progress, current
<1>4. OutcomeHonest /\ BombJudged /\ NoFalsePass /\ AlarmIsReal /\ NoFalseAlarm
  BY DEF OracleInit, Init, OutcomeHonest, BombJudged, NoFalsePass, AlarmIsReal, NoFalseAlarm
<1>5. QED BY <1>1, <1>2, <1>3, <1>4 DEF OInv

(* What an outcome that raises no complaint says of the loader. *)
LEMMA QuietBomb == TypeOK /\ OutcomeHonest /\ outcome # "none" /\ BombFailures = {}
                   => capAvail /\ fn \notin {"loops", "memory", "hoards", "quits"}
BY DEF TypeOK, OutcomeHonest, BombFailures, Call!Honest, Call!Returning, Call!Raising

(* An honest outcome without failures of benign cases. *)
LEMMA QuietBenign == OutcomeHonest /\ outcome # "none" /\ BenignFailures = {}
                     => capAvail /\ fn \in {"returns", "leaks"}
BY DEF OutcomeHonest, BenignFailures, Call!Honest, Call!Returning

(* On a calm machine a quick loader under a cap is not complained of. *)
LEMMA CalmBomb == IInv /\ OutcomeHonest /\ outcome # "none" /\ calm /\ ~killed /\ capAvail
                  /\ fn \in Quick => BombFailures = {}
BY DEF IInv, TypeOK, StuckBehaviour, OutcomeHonest, Quick, BombFailures, Call!Honest,
   Call!NoRoom, Call!Hungry

(* ... nor is one that accepts the benign input. *)
LEMMA CalmBenign == IInv /\ OutcomeHonest /\ outcome # "none" /\ calm /\ ~killed /\ capAvail
                    /\ fn = "returns" => BenignFailures = {}
BY DEF IInv, TypeOK, StuckBehaviour, OutcomeHonest, BenignFailures, Call!Honest,
   Call!NoRoom, Call!Hungry, Call!Raising

(* Every step of a call, and every step of the caller, preserves it. *)
LEMMA StepOInv == OInv /\ [OracleNext]_allvars => OInv'
<1> SUFFICES ASSUME OInv, [OracleNext]_allvars PROVE OInv'
    OBVIOUS
<1> USE DEF OInv
<1>0. /\ suite \in Seq(Case) /\ Len(suite) \in Nat \ {0}
      /\ \A i \in 1..Len(suite) : suite[i] \in Case
  BY SuiteTyped DEF OTypeOK
<1>a. parent = "done" => outcome # "none"
  BY DEF IInv, ParentKnows
<1>1. CASE CallStep
  <2>1. IInv' /\ OutcomeHonest'
    BY <1>1, StepIInv, StepRefines, CallStepHonest DEF CallStep
  <2>2. fn' = fn /\ capAvail' = capAvail /\ calm' = calm /\ (calm => killed' = killed)
    BY <1>1 DEF CallStep, Next, Child, Parent, SetCap, FnReturns, PutOkFails, FnRaises, FnExhausts,
       FnLeavesNoReport, Put, NoReport, FeederWrites, ChildExits, SigtermKills, ChildUnchanged,
       JoinSeesExit, JoinTimesOut, CheckAlive, Reap, PollFindsReport, PollFindsNothing, GetReport,
       ParentGoes, Return, KernelKills
  <2>3. QED
    BY <1>1, <2>1, <2>2 DEF CallStep, ovars, OTypeOK, Progress, current, BombJudged,
       BombEndedCleanly, NoFalsePass, AsExpected, AlarmIsReal, NoFalseAlarm
<1>2. CASE BombDone
  <2> USE <1>2 DEF BombDone
  <2>1. current \in Case /\ current.benign \in Behaviours
    BY <1>0 DEF Progress, current, Case
  <2>2. IInv' /\ OutcomeHonest'
    BY <2>1, StartCallIInv
  <2>3. failures' = {} => BombEndedCleanly(current)
    BY <1>a, QuietBomb DEF IInv, Progress, BombEndedCleanly
  <2>4. BombFailures \subseteq Complaints
    BY DEF BombFailures, Complaints
  <2>5. OTypeOK' /\ Progress'
    BY <2>4 DEF OTypeOK, Phases, Progress, current, StartCall, AsExpected
  <2>6. BombJudged' /\ NoFalsePass'
    BY <2>3 DEF BombJudged, BombEndedCleanly, current, NoFalsePass, StartCall
  <2>7. AlarmIsReal' /\ NoFalseAlarm'
    <3>1. calm /\ failures' # {} => ~capAvail \/ current.bomb \notin Quick
      BY <1>a, CalmBomb DEF Progress, AlarmIsReal
    <3>2. QED
      BY <3>1 DEF AlarmIsReal, NoFalseAlarm, StartCall, current
  <2>8. QED BY <2>2, <2>5, <2>6, <2>7
<1>3. CASE BenignDone
  <2> DEFINE alarm == failures \cup BenignFailures # {}
  <2>1. flagged' = Append(flagged, alarm) /\ Len(flagged') = Len(flagged) + 1
    BY <1>3 DEF BenignDone, OTypeOK
  <2>2. /\ flagged' \in Seq(BOOLEAN)
        /\ DOMAIN flagged' = 1..(Len(flagged) + 1) /\ DOMAIN flagged = 1..Len(flagged)
        /\ \A i \in DOMAIN flagged : flagged'[i] = flagged[i]
        /\ flagged'[Len(flagged) + 1] = alarm
    BY <2>1 DEF OTypeOK
  <2>3. Len(flagged) \in Nat /\ Len(flagged) < Len(suite)
    BY <1>3 DEF BenignDone, Progress
  <2>4. ~alarm => BombEndedCleanly(current) /\ fn \in {"returns", "leaks"}
    BY <1>3, <1>a, QuietBenign DEF BenignDone, BombJudged
  <2>5. suite' = suite /\ capAvail' = capAvail /\ calm' = calm /\ failures' = {}
        /\ (calm => ~killed')
    BY <1>3 DEF BenignDone, StartCall, vars, AlarmIsReal
  <2>6. NoFalsePass'
    <3> SUFFICES ASSUME NEW i \in DOMAIN flagged', ~flagged'[i]
                 PROVE  /\ capAvail
                        /\ suite[i].bomb \notin {"loops", "memory", "hoards", "quits"}
                        /\ suite[i].benign \in {"returns", "leaks"}
      BY <2>5 DEF NoFalsePass
    <3>1. CASE i \in DOMAIN flagged
      BY <3>1, <2>2 DEF NoFalsePass
    <3>2. CASE i = Len(flagged) + 1
      BY <3>2, <2>2, <2>4, <1>3 DEF BenignDone, Progress, current, BombEndedCleanly
    <3>3. QED BY <3>1, <3>2, <2>2, <2>3
  <2>a. NoFalseAlarm' /\ AlarmIsReal'
    <3>1. calm /\ alarm => ~capAvail \/ current.bomb \notin Quick \/ fn # "returns"
      BY <1>3, <1>a, CalmBenign DEF BenignDone, AlarmIsReal
    <3>2. ASSUME calm, NEW i \in DOMAIN flagged', flagged'[i]
          PROVE  ~capAvail \/ suite[i].bomb \notin Quick \/ suite[i].benign # "returns"
      <4>1. CASE i \in DOMAIN flagged
        BY <4>1, <3>2, <2>2 DEF NoFalseAlarm, Quick
      <4>2. CASE i = Len(flagged) + 1
        BY <4>2, <3>2, <2>2, <3>1, <1>3 DEF BenignDone, Progress, current
      <4>3. QED BY <4>1, <4>2, <2>2, <2>3
    <3>3. QED
      BY <3>2, <2>5 DEF NoFalseAlarm, AlarmIsReal, Quick
  <2>7. CASE Len(flagged') < Len(suite)
    <3> DEFINE next == suite[Len(flagged') + 1].bomb
    <3>1. phase' = "bomb" /\ StartCall(next) /\ exitCode' = exitCode /\ failures' = {}
      BY <1>3, <2>7 DEF BenignDone
    <3>2. suite[Len(flagged') + 1] \in Case
      BY <1>0, <2>1, <2>3, <2>7
    <3>3. next \in Behaviours
      BY <3>2 DEF Case
    <3>4. IInv' /\ OutcomeHonest'
      BY <3>1, <3>3, <1>3, StartCallIInv DEF BenignDone
    <3>5. OTypeOK' /\ Progress'
      BY <3>1, <2>1, <2>2, <2>3, <2>5, <2>7, <1>3
         DEF OTypeOK, Phases, Progress, current, StartCall, BenignDone
    <3>6. BombJudged'
      BY <3>1 DEF BombJudged
    <3>7. QED BY <3>4, <3>5, <3>6, <2>6, <2>a
  <2>8. CASE ~(Len(flagged') < Len(suite))
    <3>1. /\ phase' = "done" /\ UNCHANGED vars /\ failures' = {}
          /\ exitCode' = (IF AsExpected(flagged') THEN 0 ELSE 1)
      BY <1>3, <2>8 DEF BenignDone
    <3>2. IInv'
      BY <3>1, StepIInv
    <3>3. OutcomeHonest'
      BY <3>1 DEF OutcomeHonest, vars, Call!Honest, Call!NoRoom, Call!Hungry,
         Call!Returning, Call!Raising
    <3>4. AsExpected(flagged)' <=> AsExpected(flagged')
      BY <2>5 DEF AsExpected
    <3>5. OTypeOK' /\ Progress'
      BY <3>1, <3>4, <2>1, <2>2, <2>3, <2>5, <2>8 DEF OTypeOK, Phases, Progress
    <3>6. BombJudged'
      BY <3>1 DEF BombJudged
    <3>7. QED BY <3>2, <3>3, <3>5, <3>6, <2>6, <2>a
  <2>9. QED BY <2>7, <2>8
<1>4. CASE UNCHANGED allvars
  <2>1. IInv'
    BY <1>4, StepIInv DEF allvars
  <2>2. QED
    BY <1>4, <2>1 DEF allvars, ovars, vars, OTypeOK, Progress, current, OutcomeHonest,
       Call!Honest, Call!NoRoom, Call!Hungry, Call!Returning, Call!Raising, BombJudged,
       BombEndedCleanly,
       NoFalsePass, AsExpected, AlarmIsReal, NoFalseAlarm
<1>5. QED
  BY <1>1, <1>2, <1>3, <1>4 DEF OracleNext

(* The invariant holds in every state. *)
THEOREM OracleInvariance == OracleSpec => []OInv
BY InitOInv, StepOInv, PTL DEF OracleSpec

(* "empty means pass" (line 103): a case assert_guards_class passes had    *)
(* its cap in force, a bomb that ended by itself, not by running out of    *)
(* memory, and a benign input that was accepted, for every suite and every *)
(* timing.                                                                 *)
THEOREM GuardHasNoFalsePass == OracleSpec => []NoFalsePass
<1>1. OInv => NoFalsePass
  BY DEF OInv
<1>2. QED BY <1>1, OracleInvariance, PTL

(* A suite with a case that must not be flagged is never green on a        *)
(* machine where no cap can be set.                                        *)
THEOREM GreenNeedsCap == OracleSpec => []SelftestNeedsCap
<1>1. OInv => SelftestNeedsCap
  <2> SUFFICES ASSUME OInv, exitCode = 0, NEW i \in DOMAIN suite, ~suite[i].mustFlag
               PROVE  capAvail
    BY DEF SelftestNeedsCap
  <2>1. i \in DOMAIN flagged
    BY SuiteTyped DEF OInv, OTypeOK, Progress
  <2>2. ~flagged[i]
    BY <2>1 DEF OInv, Progress, AsExpected
  <2>3. QED BY <2>1, <2>2 DEF OInv, NoFalsePass
<1>2. QED BY <1>1, OracleInvariance, PTL

(* On a calm machine a loader under a cap that ends the bomb at once and   *)
(* accepts the benign input is never flagged, whatever the suite.          *)
THEOREM GuardHasNoFalseAlarm == OracleSpec => []NoFalseAlarm
<1>1. OInv => NoFalseAlarm
  BY DEF OInv
<1>2. QED BY <1>1, OracleInvariance, PTL

(* On a calm machine the exit code of a suite like that of _selftest tells *)
(* exactly whether a cap can be set.                                       *)
THEOREM SelftestTellsTheCap == OracleSpec => []SelftestExact
<1>1. OInv => SelftestExact
  <2> SUFFICES ASSUME OInv, calm, LikeSelftest, exitCode # -1
               PROVE  exitCode = 0 <=> capAvail
    BY DEF SelftestExact
  <2> USE DEF OInv
  <2>1. exitCode \in {0, 1} /\ phase = "done" /\ (exitCode = 0 <=> AsExpected(flagged))
    BY DEF OTypeOK, Progress
  <2>2. /\ flagged \in Seq(BOOLEAN) /\ DOMAIN flagged = DOMAIN suite
        /\ \A i \in DOMAIN suite : suite[i] \in Case
    BY <2>1, SuiteTyped DEF OTypeOK, Progress
  <2>3. PICK third \in DOMAIN suite : ~suite[third].mustFlag
    BY DEF LikeSelftest
  <2>4. ASSUME AsExpected(flagged) PROVE capAvail
    <3>1. ~flagged[third]
      BY <2>2, <2>3, <2>4 DEF AsExpected
    <3>2. QED BY <2>2, <3>1 DEF NoFalsePass
  <2>5. ASSUME capAvail, NEW i \in DOMAIN suite PROVE flagged[i] = suite[i].mustFlag
    <3>1. flagged[i] \in BOOLEAN /\ suite[i].mustFlag \in BOOLEAN
      BY <2>2 DEF Case
    <3>2. CASE suite[i].mustFlag
      <4>1. suite[i].bomb \in {"memory", "hoards", "loops"}
        BY <3>2 DEF LikeSelftest
      <4>2. flagged[i]
        BY <4>1, <2>2 DEF NoFalsePass
      <4>3. QED BY <3>1, <3>2, <4>2
    <3>3. CASE ~suite[i].mustFlag
      <4>1. suite[i].bomb \in {"returns", "raises", "raisesLong"} /\ suite[i].benign = "returns"
        BY <3>3 DEF LikeSelftest
      <4>2. ~flagged[i]
        BY <4>1, <2>2, <2>5 DEF NoFalseAlarm
      <4>3. QED BY <3>1, <3>3, <4>2
    <3>4. QED BY <3>1, <3>2, <3>3
  <2>6. capAvail => AsExpected(flagged)
    BY <2>2, <2>5 DEF AsExpected
  <2>7. QED BY <2>1, <2>4, <2>6
<1>2. QED BY <1>1, OracleInvariance, PTL

(* A suite is a sequence of honest calls: no call is told anything of the  *)
(* one before it.                                                          *)
THEOREM SuiteOfHonestCalls == OracleSpec => ImplementsCall
<1>1. OracleInit => Call!Init
  BY DEF OracleInit, Init, Call!Init
<1>2. OInv /\ [OracleNext]_allvars => [Call!Next]_(Call!cvars)
  <2> SUFFICES ASSUME OInv, [OracleNext]_allvars PROVE [Call!Next]_(Call!cvars)
      OBVIOUS
  <2> USE DEF OInv
  <2>0. /\ suite \in Seq(Case) /\ Len(suite) \in Nat \ {0}
        /\ \A i \in 1..Len(suite) : suite[i] \in Case
    BY SuiteTyped DEF OTypeOK
  <2>1. CASE CallStep
    BY <2>1, StepRefines DEF CallStep
  <2>2. CASE BombDone
    <3>1. current.benign \in Behaviours
      BY <2>0, <2>2 DEF BombDone, Progress, current, Case
    <3>2. QED BY <2>2, <3>1, StartCallIInv DEF BombDone, Call!Next
  <2>3. CASE BenignDone
    <3>1. CASE UNCHANGED vars
      BY <3>1 DEF vars, Call!cvars
    <3>2. CASE Len(flagged') < Len(suite) /\ StartCall(suite[Len(flagged') + 1].bomb)
      <4>1. Len(flagged') + 1 \in 1..Len(suite)
        BY <2>0, <2>3, <3>2 DEF BenignDone, OTypeOK
      <4>2. suite[Len(flagged') + 1].bomb \in Behaviours
        BY <2>0, <4>1 DEF Case
      <4>3. QED BY <2>3, <3>2, <4>2, StartCallIInv DEF BenignDone, Call!Next
    <3>3. QED BY <2>3, <3>1, <3>2 DEF BenignDone
  <2>4. CASE UNCHANGED allvars
    BY <2>4 DEF allvars, vars, Call!cvars
  <2>5. QED BY <2>1, <2>2, <2>3, <2>4 DEF OracleNext
<1>3. QED
  BY <1>1, <1>2, OracleInvariance, PTL DEF OracleSpec, ImplementsCall, Call!Spec
===============================================================================
