---------------------------- MODULE GgufBuild_proofs ----------------------------
(***************************************************************************)
(* What build.sh builds, for any commits, pins and patch files and after   *)
(* any history of builds that succeeded, failed or were killed.            *)
(***************************************************************************)
EXTENDS GgufBuild, FiniteSetTheorems, TLAPS

Asked == IF env.apply THEN env.patch.hunks ELSE {}

(* How far the build has got.  The work tree holds the file of the commit  *)
(* that is checked out, with some hunks; of these nothing is known before  *)
(* the reset, everything after one that succeeded, and after one that      *)
(* failed what git apply and the count of the hunks tell.                  *)
Progress ==
    /\ head # "none" \/ pc \notin {"idle", "clone", "link"} => tree.file = GgufCpp[head]
    /\ pc # "idle" => failure = "none"
    /\ pc \in {"fetch", "checkout"} => head \in Commits
    /\ pc \in {"reset", "apply", "verify", "compile"} => head = env.commit
    /\ pc \in {"apply", "verify"} => env.apply
    /\ pc = "apply" /\ ~unreset => tree.hunks = {}
    /\ pc = "verify" => /\ env.patch.hunks \subseteq tree.hunks
                        /\ unreset \/ tree.hunks = env.patch.hunks
    /\ pc = "compile" /\ ~Uncaught => tree.hunks = Asked
    /\ pc = "link" /\ ~Uncaught => objects = Source(env.commit, Asked)

IInv == TypeOK /\ Progress /\ RetryWorks

(* What a build was asked for has its type. *)
LEMMA EnvTyped == ASSUME TypeOK
                  PROVE  /\ env.commit \in Commits /\ env.apply \in BOOLEAN
                         /\ env.patch.hunks \in SUBSET Hunks /\ env.patch.strays \in Nat
                         /\ Asked \in SUBSET Hunks
<1>1. env.commit \in Commits /\ env.apply \in BOOLEAN /\ env.patch \in Patches
  BY PinsAssumption DEF TypeOK, Builds
<1>2. env.patch.hunks \in SUBSET Hunks /\ env.patch.strays \in Nat
  BY <1>1, PatchesAssumption
<1>. QED
  BY <1>1, <1>2 DEF Asked

(* A patch that applied and is counted right is all there is in the tree,  *)
(* and one that is alone in the tree is counted right.                     *)
LEMMA CountTells == ASSUME TypeOK, env.patch.hunks \subseteq tree.hunks, env.patch.strays = 0
                    PROVE  Got = Want <=> tree.hunks = env.patch.hunks
<1>1. tree.hunks \in SUBSET Hunks
  BY DEF TypeOK
<1>2. IsFiniteSet(tree.hunks)
  BY <1>1, HunksAssumption, FS_Subset
<1>3. /\ IsFiniteSet(env.patch.hunks)
      /\ Cardinality(tree.hunks) = Cardinality(env.patch.hunks) =>
            tree.hunks = env.patch.hunks
  BY <1>2, FS_Subset
<1>4. Cardinality(env.patch.hunks) \in Nat
  BY <1>3, FS_CardinalityType
<1>5. Want = Cardinality(env.patch.hunks)
  BY <1>4 DEF Want
<1>. QED
  BY <1>3, <1>5 DEF Got

(* The file of a commit is a tree. *)
LEMMA PristineTyped ==
    ASSUME NEW c \in Commits PROVE Pristine(c) \in [file : Files, hunks : SUBSET Hunks]
<1>1. GgufCpp[c] \in Files /\ {} \in SUBSET Hunks
  BY DEF Files
<1>. QED
  BY <1>1 DEF Pristine

(* It holds initially. *)
LEMMA Initially == Init => IInv
<1>. SUFFICES ASSUME Init PROVE IInv
  OBVIOUS
<1>1. TypeOK /\ RetryWorks
  <2>1. "none" \in Files /\ {} \in SUBSET Hunks
    BY DEF Files
  <2>2. tree \in [file : Files, hunks : SUBSET Hunks]
    BY <2>1 DEF Init
  <2>3. objects \in Sources /\ binary \in Sources
    BY DEF Init, Sources
  <2>4. TypeOK
    BY <2>2, <2>3 DEF Init, TypeOK, Steps
  <2>5. RetryWorks
    BY DEF Init, RetryWorks
  <2>. QED
    BY <2>4, <2>5
<1>2. Progress
  BY DEF Init, Progress
<1>. QED
  BY <1>1, <1>2 DEF IInv

(* Each action keeps it. *)
LEMMA StartKeeps == ASSUME IInv, NEW b \in Builds, Start(b) PROVE IInv'
<1>. USE DEF IInv, Start
<1>1. TypeOK'
  BY DEF TypeOK, Steps
<1>2. Progress' /\ RetryWorks'
  BY DEF TypeOK, Progress, RetryWorks
<1>. QED
  BY <1>1, <1>2

(* A build that stops leaves everything but the reason as it was. *)
LEMMA FailsKeeps ==
    ASSUME IInv, NEW step \in {"network", "checkout", "apply", "verify", "compiler", "killed"},
           Fails(step),
           step = "apply" => \/ ~(env.patch.hunks \subseteq Fits[env.commit])
                             \/ unreset /\ tree.hunks # {},
           step = "verify" => env.patch.strays > 0 \/ (unreset /\ tree.hunks # env.patch.hunks)
    PROVE  IInv'
<1>. USE DEF IInv, Fails
<1>1. TypeOK'
  BY DEF TypeOK, Steps
<1>2. Progress'
  BY DEF Progress, Uncaught
<1>3. RetryWorks'
  BY DEF RetryWorks
<1>. QED
  BY <1>1, <1>2, <1>3

(* Up to the checkout. *)
LEMMA FetchKeeps == IInv /\ (Clone \/ Fetch \/ Checkout) => IInv'
<1>. SUFFICES ASSUME IInv, Clone \/ Fetch \/ Checkout PROVE IInv'
  OBVIOUS
<1>. USE DEF IInv, Goes, Continues, Uncaught
<1>1. CASE Clone
  <2>1. PICK tip \in Commits : head' = tip /\ tree' = Pristine(tip)
    BY <1>1 DEF Clone
  <2>2. TypeOK'
    BY <1>1, <2>1, PristineTyped DEF Clone, TypeOK, Steps
  <2>3. Progress' /\ RetryWorks'
    BY <1>1, <2>1 DEF Clone, Pristine, Progress, RetryWorks
  <2>. QED
    BY <2>2, <2>3
<1>2. CASE Fetch
  BY <1>2 DEF Fetch, TypeOK, Steps, Progress, RetryWorks
<1>3. CASE Checkout
  <2>1. env.commit \in Commits
    BY EnvTyped
  <2>2. TypeOK'
    BY <1>3, <2>1, PristineTyped DEF Checkout, TypeOK, Steps
  <2>3. Progress' /\ RetryWorks'
    BY <1>3 DEF Checkout, Pristine, Progress, RetryWorks
  <2>. QED
    BY <2>2, <2>3
<1>. QED
  BY <1>1, <1>2, <1>3

(* The reset, and the patch on the tree it leaves. *)
LEMMA PatchKeeps == IInv /\ (Reset \/ ResetFails \/ Apply \/ Verify) => IInv'
<1>. SUFFICES ASSUME IInv, Reset \/ ResetFails \/ Apply \/ Verify PROVE IInv'
  OBVIOUS
<1>. USE DEF IInv, Goes, Continues, Uncaught
<1>1. CASE Reset
  <2>1. head = env.commit /\ env.commit \in Commits /\ env.apply \in BOOLEAN
    BY <1>1, EnvTyped DEF Reset, Progress
  <2>2. TypeOK'
    BY <1>1, <2>1, PristineTyped DEF Reset, AfterReset, TypeOK, Steps
  <2>3. Progress' /\ RetryWorks'
    BY <1>1, <2>1 DEF Reset, AfterReset, Pristine, Asked, TypeOK, Progress, RetryWorks
  <2>. QED
    BY <2>2, <2>3
<1>2. CASE ResetFails
  <2>1. head = env.commit /\ env.commit \in Commits /\ env.apply \in BOOLEAN
    BY <1>2, EnvTyped DEF ResetFails, Progress
  <2>2. TypeOK'
    BY <1>2, <2>1 DEF ResetFails, AfterReset, TypeOK, Steps
  <2>3. Progress' /\ RetryWorks'
    BY <1>2, <2>1 DEF ResetFails, AfterReset, TypeOK, Progress, RetryWorks
  <2>. QED
    BY <2>2, <2>3
<1>3. CASE Apply
  <2>1. head = env.commit /\ env.apply /\ (unreset \/ tree.hunks = {})
    BY <1>3 DEF Apply, Progress
  <2>2. /\ tree'.file = tree.file /\ tree'.hunks = tree.hunks \cup env.patch.hunks
        /\ tree' \in [file : Files, hunks : SUBSET Hunks]
    BY <1>3, EnvTyped DEF Apply, TypeOK
  <2>3. TypeOK'
    BY <1>3, <2>2 DEF Apply, TypeOK, Steps
  <2>4. Progress' /\ RetryWorks'
    BY <1>3, <2>1, <2>2 DEF Apply, TypeOK, Progress, RetryWorks
  <2>. QED
    BY <2>3, <2>4
<1>4. CASE Verify
  <2>1. env.apply /\ env.patch.hunks \subseteq tree.hunks
        /\ (unreset \/ tree.hunks = env.patch.hunks)
    BY <1>4 DEF Verify, Progress
  <2>2. env.patch.strays = 0 => tree.hunks = env.patch.hunks
    BY <1>4, <2>1, CountTells DEF Verify
  <2>3. env.patch.strays # 0 => env.patch.strays > 0
    BY EnvTyped
  <2>4. ~Uncaught => tree.hunks = Asked
    BY <2>1, <2>2, <2>3 DEF Asked, TypeOK
  <2>5. TypeOK'
    BY <1>4 DEF Verify, TypeOK, Steps
  <2>6. Progress' /\ RetryWorks'
    BY <1>4, <2>4 DEF Verify, Asked, TypeOK, Progress, RetryWorks
  <2>. QED
    BY <2>5, <2>6
<1>. QED
  BY <1>1, <1>2, <1>3, <1>4

(* The build proper. *)
LEMMA BuildKeeps == IInv /\ (Compile \/ Link) => IInv'
<1>. SUFFICES ASSUME IInv, Compile \/ Link PROVE IInv'
  OBVIOUS
<1>. USE DEF IInv, Goes, Continues, Uncaught
<1>1. CASE Compile
  <2>1. /\ head = env.commit /\ head \in Commits /\ tree.hunks \in SUBSET Hunks
        /\ objects' = Source(env.commit, tree.hunks)
    BY <1>1, EnvTyped DEF Compile, TypeOK, Progress, Source
  <2>2. TypeOK'
    BY <1>1, <2>1 DEF Compile, TypeOK, Steps, Sources
  <2>3. Progress' /\ RetryWorks'
    BY <1>1, <2>1 DEF Compile, Asked, Progress, RetryWorks
  <2>. QED
    BY <2>2, <2>3
<1>2. CASE Link
  BY <1>2 DEF Link, TypeOK, Steps, Progress, RetryWorks
<1>. QED
  BY <1>1, <1>2

(* The ways a build fails. *)
LEMMA FailureKeeps ==
    IInv /\ (\/ NetworkFails \/ CheckoutRefused \/ ApplyFails \/ VerifyFails
             \/ CompilerFails \/ Killed) => IInv'
<1>1. IInv /\ (NetworkFails \/ CheckoutRefused \/ CompilerFails \/ Killed) => IInv'
  BY FailsKeeps DEF NetworkFails, CheckoutRefused, CompilerFails, Killed
<1>2. ASSUME IInv, ApplyFails PROVE IInv'
  <2>1. head = env.commit /\ (unreset \/ tree.hunks = {})
    BY <1>2 DEF IInv, ApplyFails, Progress
  <2>2. \/ ~(env.patch.hunks \subseteq Fits[env.commit])
        \/ unreset /\ tree.hunks # {}
    BY <1>2, <2>1 DEF ApplyFails, Applicable
  <2>. QED
    BY <1>2, <2>2, FailsKeeps DEF ApplyFails
<1>3. ASSUME IInv, VerifyFails PROVE IInv'
  <2>1. env.patch.hunks \subseteq tree.hunks /\ (unreset \/ tree.hunks = env.patch.hunks)
    BY <1>3 DEF IInv, VerifyFails, Progress
  <2>2. env.patch.strays = 0 => tree.hunks # env.patch.hunks
    BY <1>3, <2>1, CountTells DEF IInv, VerifyFails
  <2>3. env.patch.strays = 0 \/ env.patch.strays > 0
    BY <1>3, EnvTyped DEF IInv
  <2>. QED
    BY <1>3, <2>1, <2>2, <2>3, FailsKeeps DEF VerifyFails
<1>. QED
  BY <1>1, <1>2, <1>3

(* The invariant holds in every state. *)
THEOREM Invariance == Spec => []IInv
<1>1. IInv /\ [Next]_vars => IInv'
  <2>. SUFFICES ASSUME IInv, [Next]_vars PROVE IInv'
    OBVIOUS
  <2>1. CASE UNCHANGED vars
    BY <2>1 DEF vars, IInv, TypeOK, Progress, RetryWorks, Asked, Uncaught
  <2>. QED
    BY <2>1, StartKeeps, FetchKeeps, PatchKeeps, BuildKeeps, FailureKeeps DEF Next
<1>. QED
  BY <1>1, Initially, PTL DEF Spec

(* Past its checkout a build fails on its own account only for its patch   *)
(* file, or because its reset failed on a tree that was patched.           *)
THEOREM AlwaysRetries == Spec => []RetryWorks
<1>1. IInv => RetryWorks
  BY DEF IInv
<1>2. QED
  BY <1>1, Invariance, PTL

(* The variables stay in their types. *)
THEOREM TypeCorrect == Spec => []TypeOK
<1>1. IInv => TypeOK
  BY DEF IInv
<1>2. QED
  BY <1>1, Invariance, PTL

(* Only the link replaces the binary, and what it links is what the build  *)
(* was asked for, also after a reset that failed if the blockers are on    *)
(* and the marker is in no other line of the patch file.                   *)
THEOREM BuildsWhatWasAsked == Spec => BinaryAsAsked
<1>1. IInv /\ [Next]_vars =>
        [binary' # binary /\ ~Uncaught =>
            binary' = Source(env.commit, IF env.apply THEN env.patch.hunks ELSE {})]_vars
  <2>. SUFFICES ASSUME IInv, Next, binary' # binary, ~Uncaught
                PROVE  binary' = Source(env.commit, IF env.apply THEN env.patch.hunks ELSE {})
    OBVIOUS
  <2>1. Link
    BY DEF Next, Start, Clone, NetworkFails, Fetch, Checkout, CheckoutRefused, Reset,
           ResetFails, Apply, ApplyFails, Verify, VerifyFails, Compile, CompilerFails, Killed, Fails
  <2>. QED
    BY <2>1 DEF Link, IInv, Progress, Asked
<1>. QED
  BY <1>1, Invariance, PTL DEF Spec, BinaryAsAsked
================================================================================
