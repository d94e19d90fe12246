----------------------------- MODULE Bootstrap -----------------------------
(***************************************************************************)
(* GitHubBootstrapService: an operator plans and applies the settings the  *)
(* repository needs, another one may turn on required reviews, and an      *)
(* administrator may change any setting between two of their calls. Any    *)
(* call may fail. What is compared and written of a setting is one value:  *)
(* "absent", "drifted" or "desired".                                       *)
(***************************************************************************)
EXTENDS Naturals, Sequences

CONSTANTS NoProtection, MaxDrifts, MaxFailures, MaxApplies

ASSUME BootstrapAssumption ==
  /\ {MaxDrifts, MaxFailures, MaxApplies} \subseteq Nat
  /\ NoProtection \notin [strict : BOOLEAN, enforced : BOOLEAN, reviews : 0..2]

VARIABLES
  settings,     \* what GitHub holds of the labels, permissions, environments, secret
  protection,   \* the protection of main, or NoProtection
  apply,        \* the locals of plan and apply
  reviews,      \* the locals of enable_review_protection
  sealed,       \* ghost: an apply succeeded and nobody changed a setting since it checked
  drifts, failures
settingsVars == <<settings, protection, apply, reviews, sealed, drifts, failures>>

Environments == {"environment:ard-llm", "environment:production-linkage"}
Settings == {"labels", "actions", "variables", "secret"} \cup Environments

\* Mutant: a head that is behind main can be merged.
Contract_NotStrict(count) == [strict |-> FALSE, enforced |-> TRUE, reviews |-> count]

\* strict and enforce_admins with the two required statuses, and everything else that
\* does not depend on what is there.
Contract(count) == [strict |-> TRUE, enforced |-> TRUE, reviews |-> count]

\* _bootstrap_protection: a review count of 0 or 1 stays; any other one becomes 0.
BootstrapProtection(current) ==
  Contract(IF current # NoProtection /\ current.reviews \in {0, 1} THEN current.reviews ELSE 0)

\* The order in which plan looks at the settings and apply writes them.
PlanOrder  == <<"labels", "actions", "environment:ard-llm", "variables", "secret",
                "environment:production-linkage", "branch:main">>
ApplyOrder == <<"labels", "actions", "environment:ard-llm", "variables",
                "environment:production-linkage", "secret", "branch:main">>

\* plan marks the item of a target as noop.
Satisfied(target) ==
  IF target = "branch:main"
    THEN protection # NoProtection /\ protection = BootstrapProtection(protection)
    ELSE settings[target] = "desired"

Ended(a, code) == [a EXCEPT !.at = "ended", !.answer = code]
\* BOOTSTRAP_PARTIAL once something was written, the error itself before.
Raised(a, code) == Ended(a, IF a.mutated THEN "BOOTSTRAP_PARTIAL" ELSE code)

CallFails(a, code) ==
  /\ failures < MaxFailures
  /\ failures' = failures + 1
  /\ apply' = Raised(a, code)

\* plan is called; a second one by apply itself, a third one as its postcondition.
StartPlan(count) ==
  /\ apply.at \in {"none", "ended"} /\ apply.runs < count
  /\ apply' = [apply EXCEPT !.at = "plan", !.step = 1, !.found = {}, !.mutated = FALSE,
                            !.answer = "none", !.runs = @ + 1]
  /\ UNCHANGED <<settings, protection, reviews, sealed, drifts, failures>>

Planning == {"plan", "replan", "postcondition"}

\* Mutant: apply trusts its own writes and has no postcondition.
Planned_NoPostcondition(a, found) ==
  LET next == [a EXCEPT !.found = found, !.step = 1] IN
  CASE a.at = "plan" -> [next EXCEPT !.at = "confirm"]
    [] a.at = "replan" -> [next EXCEPT !.at = "apply", !.needsSecret = "secret" \in found]
    [] a.at = "postcondition" -> Ended(next, "success")

\* What follows a plan: the operator confirms; apply asks for the secret it needs and
\* raises when the operator was not asked for one; the postcondition decides the answer.
Planned(a, found) ==
  LET next == [a EXCEPT !.found = found, !.step = 1] IN
  CASE a.at = "plan" -> [next EXCEPT !.at = "confirm"]
    [] a.at = "replan" ->
         IF "secret" \in found /\ ~a.asked THEN Raised(next, "LLM_API_KEY_REQUIRED")
         ELSE [next EXCEPT !.at = "apply", !.needsSecret = "secret" \in found \/ a.replaces]
    [] a.at = "postcondition" ->
         Ended(next, IF found # {} THEN "BOOTSTRAP_POSTCONDITION_FAILED"
                     ELSE IF a.mutated THEN "success" ELSE "noop")

\* plan compares the next target.
PlanStep ==
  /\ apply.at \in Planning
  /\ \/ /\ LET target == PlanOrder[apply.step]
               found  == apply.found \cup (IF Satisfied(target) THEN {} ELSE {target}) IN
           apply' = IF apply.step < Len(PlanOrder)
                      THEN [apply EXCEPT !.found = found, !.step = @ + 1]
                      ELSE Planned(apply, found)
        /\ sealed' = (sealed \/ (apply'.answer \in {"success", "noop"} /\ drifts = apply.checked))
        /\ UNCHANGED failures
     \/ CallFails(apply, "GITHUB_API_FAILED") /\ UNCHANGED sealed
  /\ UNCHANGED <<settings, protection, reviews, drifts>>

\* The operator confirms or not; a secret that is there is replaced on request only.
Confirm ==
  /\ apply.at = "confirm"
  /\ \/ apply' = Ended(apply, "not confirmed")
     \/ \E replaces \in BOOLEAN :
          /\ replaces => "secret" \notin apply.found
          /\ apply' = [apply EXCEPT !.at = "replan", !.found = {}, !.replaces = replaces,
                                    !.asked = replaces \/ "secret" \in apply.found]
  /\ UNCHANGED <<settings, protection, reviews, sealed, drifts, failures>>

NextTarget(a) ==
  IF a.step < Len(ApplyOrder) THEN [a EXCEPT !.step = @ + 1]
  ELSE [a EXCEPT !.at = "postcondition", !.step = 1, !.found = {}, !.checked = drifts]

\* A setting that differs is written; an environment whose second request fails has been
\* written in part. The secret is written when it was missing or is to be replaced.
Reconcile ==
  /\ apply.at = "apply" /\ ApplyOrder[apply.step] # "branch:main"
  /\ LET target == ApplyOrder[apply.step]
         writes == IF target = "secret" THEN apply.needsSecret ELSE ~Satisfied(target) IN
     \/ /\ settings' = IF writes THEN [settings EXCEPT ![target] = "desired"] ELSE settings
        /\ apply' = NextTarget([apply EXCEPT !.mutated = @ \/ writes])
        /\ UNCHANGED failures
     \/ /\ CallFails(apply, "GITHUB_API_FAILED")
        /\ \/ UNCHANGED settings
           \/ /\ target \in Environments /\ writes
              /\ settings' = [settings EXCEPT ![target] = "drifted"]
  /\ UNCHANGED <<protection, reviews, sealed, drifts>>

\* The hidden prompt is answered with nothing.
EmptySecret ==
  /\ apply.at = "apply" /\ ApplyOrder[apply.step] = "secret" /\ apply.needsSecret
  /\ apply' = Raised(apply, "LLM_API_KEY_REQUIRED")
  /\ UNCHANGED <<settings, protection, reviews, sealed, drifts, failures>>

ReadProtection ==
  /\ apply.at = "apply" /\ ApplyOrder[apply.step] = "branch:main"
  /\ \/ /\ apply' = [apply EXCEPT !.at = "protect", !.seen = protection]
        /\ UNCHANGED failures
     \/ CallFails(apply, "BRANCH_PROTECTION_LOOKUP_FAILED")
  /\ UNCHANGED <<settings, protection, reviews, sealed, drifts>>

\* The whole protection is written, with the review count that was read.
WriteProtection ==
  /\ apply.at = "protect"
  /\ LET desired == BootstrapProtection(apply.seen)
         writes == apply.seen # desired IN
     \/ /\ protection' = IF writes THEN desired ELSE protection
        /\ apply' = NextTarget([apply EXCEPT !.at = "apply", !.mutated = @ \/ writes])
        /\ UNCHANGED failures
     \/ writes /\ CallFails(apply, "GITHUB_API_FAILED") /\ UNCHANGED protection
  /\ UNCHANGED <<settings, reviews, sealed, drifts>>

\* enable_review_protection up to its read of the protection.
ReadForReviews ==
  /\ reviews.at = "none"
  /\ reviews' =
       IF protection = NoProtection THEN [reviews EXCEPT !.at = "BRANCH_PROTECTION_REQUIRED"]
       ELSE IF protection.reviews \notin {0, 1} \/ [protection EXCEPT !.reviews = 0] # Contract(0)
         THEN [reviews EXCEPT !.at = "BRANCH_PROTECTION_DRIFT"]
       ELSE IF protection.reviews = 1 THEN [reviews EXCEPT !.at = "noop"]
       ELSE [at |-> "enable", seen |-> protection]
  /\ UNCHANGED <<settings, protection, apply, sealed, drifts, failures>>

EnableReviews ==
  /\ reviews.at = "enable"
  /\ protection' = [reviews.seen EXCEPT !.reviews = 1]
  /\ reviews' = [reviews EXCEPT !.at = "success"]
  /\ UNCHANGED <<settings, apply, sealed, drifts, failures>>

\* An administrator, or another tool, changes or removes a setting.
Drift ==
  /\ drifts < MaxDrifts
  /\ \/ \E s \in Settings, v \in {"absent", "drifted"} :
          /\ settings[s] # v /\ settings' = [settings EXCEPT ![s] = v]
          /\ UNCHANGED protection
     \/ /\ protection' \in {NoProtection, [Contract(0) EXCEPT !.strict = FALSE],
                            [Contract(1) EXCEPT !.enforced = FALSE], Contract(2)}
        /\ protection' # protection
        /\ UNCHANGED settings
  /\ drifts' = drifts + 1 /\ sealed' = FALSE
  /\ UNCHANGED <<apply, reviews, failures>>

SettingsInit ==
  /\ settings \in [Settings -> {"absent", "desired"}]
  /\ protection \in {NoProtection, Contract(0), Contract(1)}
  /\ apply = [at |-> "none", step |-> 1, found |-> {}, mutated |-> FALSE, asked |-> FALSE,
              replaces |-> FALSE, needsSecret |-> FALSE, seen |-> NoProtection,
              checked |-> 0, runs |-> 0, answer |-> "none"]
  /\ reviews = [at |-> "none", seen |-> NoProtection]
  /\ sealed = FALSE /\ drifts = 0 /\ failures = 0

SettingsNext ==
  \/ StartPlan(MaxApplies) \/ PlanStep \/ Confirm \/ Reconcile \/ EmptySecret
  \/ ReadProtection \/ WriteProtection \/ ReadForReviews \/ EnableReviews \/ Drift

(***************************************************************************)
(* Properties                                                              *)
(***************************************************************************)
\* An apply that reports success, or that nothing was to be done, found every setting
\* as desired after its last write: as long as nobody outside changes a setting each of
\* them stays in place, whatever later bootstraps and reviews do and whatever fails.
SuccessIsConverged ==
  sealed => \A i \in DOMAIN PlanOrder : Satisfied(PlanOrder[i])
==============================================================================
