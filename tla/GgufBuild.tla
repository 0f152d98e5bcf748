------------------------------- MODULE GgufBuild -------------------------------
(***************************************************************************)
(* targets/gguf/build.sh: repeated builds of the GGUF harness in one work  *)
(* directory, each asked for a commit of llama.cpp and with or without the *)
(* fuzz-blocker patch.  The checkout, the objects and the binary outlive a *)
(* build; a build may fail at a step (set -e) or be killed between two.    *)
(***************************************************************************)
EXTENDS Naturals, FiniteSets

CONSTANTS
    Commits,    \* upstream commits
    Pins,       \* those a build may be asked for (LLAMA_COMMIT)
    GgufCpp,    \* commit -> what ggml/src/gguf.cpp is at it
    Hunks,      \* hunks the patch file may have: one marker line each
    Patches,    \* patch files [hunks, strays]: strays mention the marker elsewhere
    Fits        \* commit -> the hunks that apply to its gguf.cpp

ASSUME PinsAssumption == Pins \subseteq Commits
ASSUME PatchesAssumption == Patches \subseteq [hunks : SUBSET Hunks, strays : Nat]
ASSUME HunksAssumption == IsFiniteSet(Hunks)
ASSUME FitsAssumption == Fits \in [Commits -> SUBSET Hunks]

Source(c, hunks) == [commit |-> c, file |-> GgufCpp[c], hunks |-> hunks]
Nothing == [commit |-> "none", file |-> "none", hunks |-> {}]

VARIABLES
    pc,         \* the step the script is about to take, "idle" between builds
    env,        \* what this build was asked for
    head,       \* the commit that is checked out, "none" before the clone
    tree,       \* gguf.cpp in the work tree: which file, and the hunks applied to it
    objects,    \* the source the static libraries were built from
    binary,     \* the source fuzz_gguf was linked from
    unreset,    \* did this build's reset of gguf.cpp fail, which || true hides?
    failure     \* the step at which the last build gave up, "none" if it did not

vars == <<pc, env, head, tree, objects, binary, unreset, failure>>

Builds == [commit : Pins, apply : BOOLEAN, patch : Patches]

Init == /\ pc = "idle"
        /\ env \in Builds
        /\ head = "none"
        /\ tree = [file |-> "none", hunks |-> {}]
        /\ objects = Nothing
        /\ binary = Nothing
        /\ unreset = FALSE
        /\ failure = "none"

Start(b) == /\ pc = "idle"
            /\ env' = b
            /\ failure' = "none"
            /\ unreset' = FALSE
            /\ pc' = IF head = "none" THEN "clone" ELSE "fetch"
            /\ UNCHANGED <<head, tree, objects, binary>>

(* set -e: the script ends at the step that failed. *)
Fails(step) == /\ pc' = "idle"
               /\ failure' = step
               /\ UNCHANGED <<env, head, tree, objects, binary, unreset>>

Goes(step) == /\ pc' = step
              /\ UNCHANGED <<env, failure>>

Continues(step) == Goes(step) /\ UNCHANGED unreset

Pristine(c) == [file |-> GgufCpp[c], hunks |-> {}]

(* The clone checks out whatever upstream's branch is at. *)
Clone == /\ pc = "clone"
         /\ \E tip \in Commits : head' = tip /\ tree' = Pristine(tip)
         /\ Continues("fetch")
         /\ UNCHANGED <<objects, binary>>

NetworkFails == pc \in {"clone", "fetch"} /\ Fails("network")

Fetch == /\ pc = "fetch"
         /\ Continues("checkout")
         /\ UNCHANGED <<head, tree, objects, binary>>

(* git checkout carries local changes along when the file is the same at   *)
(* both commits, and refuses when it is not.                               *)
Checkout == /\ pc = "checkout"
            /\ \/ tree.hunks = {} /\ tree' = Pristine(env.commit)
               \/ tree.hunks # {} /\ GgufCpp[head] = GgufCpp[env.commit] /\ UNCHANGED tree
            /\ head' = env.commit
            /\ Continues("reset")
            /\ UNCHANGED <<objects, binary>>

CheckoutRefused == /\ pc = "checkout"
                   /\ tree.hunks # {}
                   /\ GgufCpp[head] # GgufCpp[env.commit]
                   /\ Fails("checkout")

AfterReset == IF env.apply THEN "apply" ELSE "compile"

(* Mutant: gguf.cpp is left as it is found. *)
NoReset == /\ pc = "reset"
           /\ Continues(AfterReset)
           /\ UNCHANGED <<head, tree, objects, binary>>

(* git checkout -- ggml/src/gguf.cpp, whatever an earlier build left. *)
Reset == /\ pc = "reset"
         /\ tree' = Pristine(head)
         /\ Continues(AfterReset)
         /\ UNCHANGED <<head, objects, binary>>

(* 2>/dev/null || true: if git fails (another git holds the index lock, the *)
(* disk is full), the build goes on with the tree it found.                 *)
ResetFails == /\ pc = "reset"
              /\ unreset' = TRUE
              /\ Goes(AfterReset)
              /\ UNCHANGED <<head, tree, objects, binary>>

(* git apply applies every hunk of the file, or none. *)
Applicable == env.patch.hunks \subseteq Fits[head] \ tree.hunks

Apply == /\ pc = "apply"
         /\ Applicable
         /\ tree' = [tree EXCEPT !.hunks = @ \cup env.patch.hunks]
         /\ Continues("verify")
         /\ UNCHANGED <<head, objects, binary>>

ApplyFails == pc = "apply" /\ ~Applicable /\ Fails("apply")

Want == Cardinality(env.patch.hunks) + env.patch.strays
Got == Cardinality(tree.hunks)

(* Mutant: the exit code of git apply is trusted. *)
VerifyNothing == /\ pc = "verify"
                 /\ Continues("compile")
                 /\ UNCHANGED <<head, tree, objects, binary>>

Verify == /\ pc = "verify"
          /\ Got = Want
          /\ Continues("compile")
          /\ UNCHANGED <<head, tree, objects, binary>>

VerifyFails == pc = "verify" /\ Got # Want /\ Fails("verify")

(* cmake and ninja: everything that changed is rebuilt. *)
Compile == /\ pc = "compile"
           /\ objects' = [commit |-> head, file |-> tree.file, hunks |-> tree.hunks]
           /\ Continues("link")
           /\ UNCHANGED <<head, tree, binary>>

CompilerFails == pc \in {"compile", "link"} /\ Fails("compiler")

(* Mutant: what is linked is the checkout, not the libraries. *)
LinkTree == /\ pc = "link"
            /\ binary' = tree
            /\ Continues("idle")
            /\ UNCHANGED <<head, tree, objects>>

Link == /\ pc = "link"
        /\ binary' = objects
        /\ Continues("idle")
        /\ UNCHANGED <<head, tree, objects>>

Killed == pc # "idle" /\ Fails("killed")

Next == \/ \E b \in Builds : Start(b)
        \/ Clone \/ NetworkFails \/ Fetch \/ Checkout \/ CheckoutRefused \/ Reset
        \/ ResetFails
        \/ Apply \/ ApplyFails \/ Verify \/ VerifyFails
        \/ Compile \/ CompilerFails \/ Link \/ Killed

Spec == Init /\ [][Next]_vars

--------------------------------------------------------------------------------
(* Properties. *)

Steps == {"idle", "clone", "fetch", "checkout", "reset", "apply", "verify", "compile", "link"}
Sources == {Nothing} \cup {Source(c, hunks) : c \in Commits, hunks \in SUBSET Hunks}

Files == {"none"} \cup {GgufCpp[c] : c \in Commits}

TypeOK == /\ pc \in Steps
          /\ env \in Builds
          /\ head \in Commits \cup {"none"}
          /\ tree \in [file : Files, hunks : SUBSET Hunks]
          /\ objects \in Sources /\ binary \in Sources
          /\ unreset \in BOOLEAN
          /\ failure \in {"none", "network", "checkout", "apply", "verify", "compiler", "killed"}

(* A swallowed reset is caught in no way: without blockers nothing looks   *)
(* at gguf.cpp, with them a miscounted marker may make up for a hunk that  *)
(* an earlier build left.                                                  *)
Uncaught == unreset /\ (~env.apply \/ env.patch.strays > 0)

(* Whatever builds went before, with other pins, with or without blockers, *)
(* failed or killed at any step: a build that replaces the binary builds   *)
(* exactly what it was asked for, pinned commit and hunks.  With the       *)
(* blockers on this survives a reset that fails: the count of the hunks    *)
(* (lines 42-55) then stands alone.  With them off it does not: the tree   *)
(* an earlier build patched is compiled and linked as if it were not.      *)
BinaryAsAsked ==
    [][binary' # binary /\ ~Uncaught =>
        binary' = Source(env.commit, IF env.apply THEN env.patch.hunks ELSE {})]_vars

(* A build can be run again after any history of failed, killed and other  *)
(* builds: past its checkout it fails on its own account only for a patch  *)
(* file that does not fit the pin or whose marker is miscounted; for what  *)
(* an earlier build left in the tree only if its own reset failed as well  *)
(* (lines 36-40).                                                          *)
RetryWorks ==
    /\ failure = "apply" =>
          \/ ~(env.patch.hunks \subseteq Fits[env.commit])
          \/ unreset /\ tree.hunks # {}
    /\ failure = "verify" => env.patch.strays > 0 \/ (unreset /\ tree.hunks # env.patch.hunks)
================================================================================
