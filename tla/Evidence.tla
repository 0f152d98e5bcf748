------------------------------- MODULE Evidence -------------------------------
(***************************************************************************)
(* The evidence base: a researcher edits claims.yaml, renders claims.md    *)
(* with evidence/tool.py and pushes; the workflow evidence-check.yml       *)
(* validates the one and compares the other with a rendering of its own.   *)
(* A claim is what the checks look at: its id, kind, confidence, the       *)
(* claims it cites and what is wrong with it.                              *)
(***************************************************************************)
EXTENDS Naturals, Sequences, FiniteSets, SequencesExt

CONSTANTS Claims,      \* [id, kind, confidence, cites, flaws]
          MaxClaims    \* a bound on the length of claims.yaml, for TLC

Kinds == {"finding", "negative", "non-finding", "method", "audit", "correction"}
Confidences == {"verified", "observed", "inferred"}

(* A required field is missing, the boundary is blank, a negative states   *)
(* no effort, a non-finding does not say why it is not counted.            *)
Flaws == {"fields", "boundary", "effort", "why"}

ASSUME ClaimsAssumption ==
    Claims \subseteq [id : Nat, kind : Kinds \cup {"other"}, confidence : Confidences \cup {"other"},
                      cites : SUBSET Nat, flaws : SUBSET Flaws]

ASSUME MaxClaimsAssumption == MaxClaims \in Nat

VARIABLES yaml,      \* claims.yaml
          md,        \* claims.md: the claims it lists, and whether it was edited by hand
          tracked,   \* is claims.md under version control, and so in what is pushed?
          vouched,   \* the tool, run with no flag, had nothing to say of these files
          verdict    \* of the workflow on these files, "none" if they are not pushed

vars == <<yaml, md, tracked, vouched, verdict>>

Elements(s) == {s[i] : i \in DOMAIN s}
Ids(claims) == {c.id : c \in Elements(claims)}

--------------------------------------------------------------------------------
(* check and render. *)

(* Mutant: the provenance is not resolved. *)
ValidButRefs(claims) ==
    /\ \A i, j \in DOMAIN claims : claims[i].id = claims[j].id => i = j
    /\ \A c \in Elements(claims) :
          /\ c.kind \in Kinds /\ c.confidence \in Confidences
          /\ c.flaws \cap {"fields", "boundary"} = {}

Valid(claims) ==
    /\ \A i, j \in DOMAIN claims : claims[i].id = claims[j].id => i = j
    /\ \A c \in Elements(claims) :
          /\ c.kind \in Kinds /\ c.confidence \in Confidences
          /\ c.flaws \cap {"fields", "boundary"} = {}
          /\ c.kind = "negative" => "effort" \notin c.flaws
          /\ c.kind = "non-finding" => "why" \notin c.flaws
          /\ c.cites \subseteq Ids(claims)

(* Mutants of the sections: one is forgotten, one is there twice. *)
OrderForgets == <<"finding", "non-finding", "negative", "audit", "method">>
OrderRepeats == <<"finding", "correction", "non-finding", "negative", "audit", "method", "finding">>

Order == <<"finding", "correction", "non-finding", "negative", "audit", "method">>

(* render reads every required field of a claim it lists; sorted by id,    *)
(* claims of one id in the order of the file.                              *)
Listed(claims) == {i \in DOMAIN claims : claims[i].kind \in Elements(Order)}
Renderable(claims) == \A i \in DOMAIN claims : "fields" \notin claims[i].flaws

Section(claims, kind) ==
    LET mine == {i \in Listed(claims) : claims[i].kind = kind}
        before(i, j) == \/ claims[i].id < claims[j].id
                        \/ claims[i].id = claims[j].id /\ i < j
    IN  [n \in 1..Cardinality(mine) |->
            claims[CHOOSE i \in mine : Cardinality({j \in mine : before(j, i)}) = n - 1]]

(* What is written when the first n sections are. *)
Written(claims) ==
    LET written[n \in 0..Len(Order)] ==
            IF n = 0 THEN <<>> ELSE written[n - 1] \o Section(claims, Order[n])
    IN  written

Render(claims) == Written(claims)[Len(Order)]

--------------------------------------------------------------------------------
Init == /\ yaml = <<>>
        /\ md = [lists |-> <<>>, byHand |-> FALSE]
        /\ tracked = FALSE
        /\ vouched = FALSE
        /\ verdict = "none"

(* The researcher. *)
Edited == vouched' = FALSE /\ verdict' = "none"

Add(c) == /\ Len(yaml) < MaxClaims
          /\ yaml' = Append(yaml, c)
          /\ Edited /\ UNCHANGED <<md, tracked>>

Revise(i, c) == /\ i \in DOMAIN yaml
                /\ yaml' = [yaml EXCEPT ![i] = c]
                /\ Edited /\ UNCHANGED <<md, tracked>>

Delete(i) == /\ i \in DOMAIN yaml
             /\ yaml' = RemoveAt(yaml, i)
             /\ Edited /\ UNCHANGED <<md, tracked>>

(* claims.md is written by hand, and may then say anything. *)
EditByHand == /\ md' = [lists |-> <<>>, byHand |-> TRUE]
              /\ Edited /\ UNCHANGED <<yaml, tracked>>

(* git add and git rm --cached; a claims.md that is deleted counts as the  *)
(* latter, for what is pushed.                                             *)
Track == /\ ~tracked /\ tracked' = TRUE
         /\ verdict' = "none"
         /\ UNCHANGED <<yaml, md, vouched>>

Untrack == /\ tracked /\ tracked' = FALSE
           /\ verdict' = "none"
           /\ UNCHANGED <<yaml, md, vouched>>

Rendered(claims) == [lists |-> Render(claims), byHand |-> FALSE]

(* tool.py --render, which does not look whether the base is valid. *)
RunRender == /\ Renderable(yaml)
             /\ md' = Rendered(yaml)
             /\ vouched' = (vouched /\ md' = md)
             /\ verdict' = (IF md' = md THEN verdict ELSE "none")
             /\ UNCHANGED <<yaml, tracked>>

(* Mutant: errors are printed, and the rendering and the exit code are as  *)
(* if there were none.                                                     *)
RunToolAnyway == /\ Renderable(yaml)
                 /\ md' = Rendered(yaml)
                 /\ vouched' = TRUE
                 /\ verdict' = (IF md' = md THEN verdict ELSE "none")
                 /\ UNCHANGED <<yaml, tracked>>

(* tool.py with no flag: check, exit 1 on errors, render. *)
RunTool == /\ Valid(yaml)
           /\ md' = Rendered(yaml)
           /\ vouched' = TRUE
           /\ verdict' = (IF md' = md THEN verdict ELSE "none")
           /\ UNCHANGED <<yaml, tracked>>

(* A push, and the workflow on it: --check, --render, and git diff, which  *)
(* has nothing to say of a file that was not pushed and that --render has  *)
(* only now created.                                                       *)
InSync == tracked => md = Rendered(yaml)

Push == /\ verdict = "none"
        /\ verdict' = IF Valid(yaml) /\ InSync THEN "green" ELSE "red"
        /\ UNCHANGED <<yaml, md, tracked, vouched>>

Next == \/ \E c \in Claims : Add(c) \/ \E i \in DOMAIN yaml : Revise(i, c)
        \/ \E i \in DOMAIN yaml : Delete(i)
        \/ EditByHand \/ Track \/ Untrack \/ RunRender \/ RunTool \/ Push

Spec == Init /\ [][Next]_vars

--------------------------------------------------------------------------------
(* Properties. *)

TypeOK == /\ yaml \in Seq(Claims) /\ Len(yaml) <= MaxClaims
          /\ md.lists \in Seq(Claims) /\ Len(md.lists) <= MaxClaims
          /\ md.byHand \in BOOLEAN
          /\ tracked \in BOOLEAN /\ vouched \in BOOLEAN
          /\ verdict \in {"none", "green", "red"}

(* A claims.md that is in a green push is the record, all of it and        *)
(* nothing else: each claim of claims.yaml once, whatever its kind, and    *)
(* nothing that was written by hand or left from an earlier rendering.  A  *)
(* push without claims.md may be green and publish nothing: the git diff   *)
(* of line 24 sees no file that is not tracked.                            *)
GreenIsComplete ==
    verdict = "green" /\ tracked =>
        /\ ~md.byHand
        /\ Elements(md.lists) = Elements(yaml)
        /\ Len(md.lists) = Len(yaml)

(* ... and a reader of it can follow every citation, to one claim.         *)
GreenResolves ==
    verdict = "green" /\ tracked =>
        \A c \in Elements(md.lists) : \A id \in c.cites :
            Cardinality({i \in DOMAIN md.lists : md.lists[i].id = id}) = 1

(* Files on which the tool, run with no flag, succeeded, and that were not *)
(* edited since, pass the workflow.                                        *)
VouchedPasses == vouched => verdict # "red"
================================================================================
