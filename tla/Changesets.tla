----------------------------- MODULE Changesets -----------------------------
(***************************************************************************)
(* One shared-table changeset from its definition to its release: the      *)
(* coordination branch and its pull request, one tracking pull request per *)
(* product, exact-head readiness, commit statuses, branch protection, and  *)
(* what release detection and publication make of every push to the        *)
(* default branch (ChangesetService, ProcessingService,                    *)
(* ReleaseDetectionService, ReleasePublicationService).                    *)
(*                                                                         *)
(* Heads are not numbered.  Only the live head of a pull request matters:  *)
(* whether it is the recorded one, whether its readiness was dispatched,   *)
(* and its statuses.  A head never comes back.                             *)
(***************************************************************************)
EXTENDS Naturals, FiniteSets

CONSTANTS
  Products,      \* required_product_ids
  MaxVersion,    \* bound on the versions of a product
  Strict,        \* branch protection: a branch must contain its base to be merged
  MaxMishaps     \* bound on failed runs, lost dispatches, and what people do unasked

ASSUME ChangesetsAssumption ==
  /\ MaxVersion \in Nat \ {0, 1} /\ Strict \in BOOLEAN /\ MaxMishaps \in Nat

NotReady == 0

Versions == 1..MaxVersion

Readiness == [Products -> Versions \cup {NotReady}]

VARIABLES
  main,      \* default branch: the changeset record, product versions and bindings
  coord,     \* coordination branch and its pull request
  pr,        \* tracking pull requests
  job,       \* the changeset workflow run that holds the concurrency group
  released,  \* publications: product, version, and whether for the changeset
  mishaps

vars == <<main, coord, pr, job, released, mishaps>>

Complete(ready) == \A p \in Products : ready[p] # NotReady

Mishap == mishaps < MaxMishaps /\ mishaps' = mishaps + 1

NoJob == [stage |-> "idle", todo |-> {}, complete |-> FALSE]

Idle == job = NoJob

\* The run is done with one product, and after the last one done.
Done(p) == IF job.todo = {p} THEN NoJob ELSE [job EXCEPT !.todo = @ \ {p}]

\* The statuses of a head nobody has reported on.
NewHead(branch) ==
  [branch EXCEPT !.recorded = FALSE, !.dispatched = FALSE, !.changeset = "none", !.quality = FALSE]

(***************************************************************************)
(* Release of one push to the default branch                               *)
(***************************************************************************)

\* Mutant: a product whose version is still to come does not hold the others back.
Detected_FutureIsCurrent(m) ==
  IF m.defined /\ Complete(m.ready) THEN {p \in Products : m.ready[p] = m.version[p]} ELSE {}

\* ReleaseDetectionService: a changeset expands to all its products, when none is still
\* to come (deferred) and none has moved on (CHANGESET_VERSION_NOT_CURRENT).
Detected(m) ==
  IF m.defined /\ Complete(m.ready) /\ \A p \in Products : m.ready[p] = m.version[p]
    THEN Products ELSE {}

\* _verify_changeset_readiness, for a product that is bound to the changeset.
ReadinessVerified(branches) ==
  \A p \in Products : branches[p].state = "merged" /\ branches[p].recorded

PublishedBy(m, branches) ==
  {p \in Detected(m) : m.bound[p] => ReadinessVerified(branches)}

\* A push: other branches no longer contain their base, and the release workflow runs.
Push(m, coordination, branches, direct) ==
  /\ main' = m
  /\ coord' = [coordination EXCEPT !.current = FALSE]
  /\ pr' = [p \in Products |-> [branches[p] EXCEPT !.current = FALSE]]
  /\ released' = released \cup direct \cup
       (IF direct # {} THEN {}
        ELSE {[product |-> p, version |-> m.version[p], bound |-> m.bound[p]] : p \in PublishedBy(m, branches)})

(***************************************************************************)
(* ChangesetService, create mode                                           *)
(***************************************************************************)

\* _ensure_pr: GitHub opens no pull request for a branch without changes.
CanEnsurePR == coord.open \/ ~main.defined \/ coord.ready # main.ready

\* The definition is committed and its pull request opened, with both statuses.
Create ==
  /\ Idle /\ CanEnsurePR
  /\ IF coord.exists THEN Mishap ELSE UNCHANGED mishaps
  /\ coord' = [coord EXCEPT !.exists = TRUE, !.open = TRUE, !.green = TRUE,
                            !.current = @ \/ ~coord.exists]
  /\ job' = [job EXCEPT !.stage = "track", !.todo = Products]
  /\ UNCHANGED <<main, pr, released>>

\* The tracking branch of one product, with only its marker, and its pull request.
Track(p) ==
  /\ job.stage = "track" /\ p \in job.todo
  /\ IF pr[p].state = "none" \/ (pr[p].state = "open" /\ pr[p].stage = "marker")
       THEN /\ pr' = [pr EXCEPT ![p].state = "open", ![p].changeset = "pending",
                                ![p].current = @ \/ pr[p].state = "none"]
            /\ job' = Done(p)
       ELSE job' = NoJob /\ UNCHANGED pr   \* CHANGESET_TRACKING_PATH_MISMATCH
  /\ UNCHANGED <<main, coord, released, mishaps>>

(***************************************************************************)
(* Tracking pull requests                                                  *)
(***************************************************************************)

\* Base sync of an approved issue: merge the base, reset the outputs, a new head.  The
\* request asks for the version after the one it finds.  It is outside of the
\* concurrency group.
Sync(p) ==
  /\ main.defined /\ pr[p].state = "open"
  /\ pr[p].stage # "marker" => ~pr[p].current
  /\ IF pr[p].stage = "marker" \/ Strict THEN UNCHANGED mishaps ELSE Mishap
  /\ main.version[p] < MaxVersion
  /\ pr' = [pr EXCEPT ![p] =
              [NewHead(pr[p]) EXCEPT !.stage = "prepared", !.current = TRUE,
                                     !.version = main.version[p] + 1]]
  /\ UNCHANGED <<main, coord, job, released>>

\* What a run leaves that did the first steps of: commit, the two statuses in this order,
\* and the dispatch of readiness.  A head that is processed already is not committed again.
Processed(p, steps) ==
  LET head == IF pr[p].stage = "processed" THEN pr[p]
                                           ELSE [NewHead(pr[p]) EXCEPT !.stage = "processed"]
  IN  [head EXCEPT !.changeset = IF steps >= 1 THEN "pending" ELSE @,
                   !.quality = @ \/ steps >= 2,
                   !.dispatched = @ \/ steps = 3]

\* Mutant: the run is not in the concurrency group of the changeset workflow.
Process_AnyTime(p) ==
  /\ pr[p].state = "open" /\ pr[p].stage = "prepared"
  /\ pr' = [pr EXCEPT ![p] = Processed(p, 3)]
  /\ UNCHANGED <<main, coord, job, released, mishaps>>

\* ProcessingService.run with write-back, once for a head that is prepared and again when
\* somebody asks for it.  A run that fails after the commit has done a prefix.
Process(p) ==
  /\ Idle /\ pr[p].state = "open" /\ pr[p].stage # "marker"
  /\ \E steps \in 0..3 :
       /\ IF steps < 3 \/ pr[p].stage = "processed" THEN Mishap ELSE UNCHANGED mishaps
       /\ pr' = [pr EXCEPT ![p] = Processed(p, steps)]
  /\ UNCHANGED <<main, coord, job, released>>

\* Somebody pushes a commit that leaves the evidence of the product alone.
HumanPush(p) ==
  /\ pr[p].state = "open" /\ Mishap
  /\ pr' = [pr EXCEPT ![p] = NewHead(pr[p])]
  /\ UNCHANGED <<main, coord, job, released>>

\* A dispatch that was cancelled in the queue or never sent, and one sent by hand.
Lose(p) ==
  /\ pr[p].dispatched /\ Mishap
  /\ pr' = [pr EXCEPT ![p].dispatched = FALSE]
  /\ UNCHANGED <<main, coord, job, released>>

Redispatch(p) ==
  /\ pr[p].state # "none" /\ ~pr[p].dispatched /\ Mishap
  /\ pr' = [pr EXCEPT ![p].dispatched = TRUE]
  /\ UNCHANGED <<main, coord, job, released>>

(***************************************************************************)
(* ChangesetService, ready mode                                            *)
(***************************************************************************)

\* _ready up to the push of the coordination branch.  A product is ready at one head for
\* ever (CHANGESET_READINESS_CONFLICT); the head must hold its evidence.
RecordReady(p) ==
  /\ Idle /\ pr[p].dispatched
  /\ IF coord.exists /\ pr[p].stage = "processed" /\ (coord.ready[p] = NotReady \/ pr[p].recorded)
       THEN /\ coord' = [coord EXCEPT !.ready[p] = pr[p].version, !.green = @ /\ pr[p].recorded]
            /\ pr' = [pr EXCEPT ![p].dispatched = FALSE, ![p].recorded = TRUE]
            /\ job' = [job EXCEPT !.stage = "ensure"]
       ELSE pr' = [pr EXCEPT ![p].dispatched = FALSE] /\ UNCHANGED <<coord, job>>
  /\ UNCHANGED <<main, released, mishaps>>

\* _ensure_pr and _central_statuses.
EnsurePR ==
  /\ job.stage = "ensure"
  /\ IF CanEnsurePR
       THEN /\ coord' = [coord EXCEPT !.open = TRUE, !.green = TRUE]
            /\ job' = [job EXCEPT !.stage = "count"]
       ELSE job' = NoJob /\ UNCHANGED coord
  /\ UNCHANGED <<main, pr, released, mishaps>>

\* _verified_ready_count: the recorded heads that are still the live ones.
Count ==
  /\ job.stage = "count"
  /\ job' = [stage |-> "set", todo |-> Products,
             complete |-> Complete(coord.ready) /\ \A p \in Products : pr[p].recorded]
  /\ UNCHANGED <<main, coord, pr, released, mishaps>>

\* The status of one open tracking pull request, at the head it has by now.
SetTracking(p) ==
  /\ job.stage = "set" /\ p \in job.todo
  /\ pr' = IF pr[p].state = "open"
             THEN [pr EXCEPT ![p].changeset = IF job.complete THEN "success" ELSE "pending"]
             ELSE pr
  /\ job' = Done(p)
  /\ UNCHANGED <<main, coord, released, mishaps>>

\* A run fails between two calls, or cannot go on.
JobFails ==
  /\ ~Idle /\ Mishap
  /\ job' = NoJob
  /\ UNCHANGED <<main, coord, pr, released>>

(***************************************************************************)
(* Merges                                                                  *)
(***************************************************************************)
CoordinationAllowed == coord.open /\ coord.green /\ (Strict => coord.current)

\* Mutant: a change of the changeset record is not looked at by release detection.
MergeCoordination_Unwatched ==
  /\ CoordinationAllowed
  /\ main' = [main EXCEPT !.defined = TRUE, !.ready = coord.ready]
  /\ coord' = [coord EXCEPT !.open = FALSE, !.current = FALSE]
  /\ pr' = [p \in Products |-> [pr[p] EXCEPT !.current = FALSE]]
  /\ UNCHANGED <<job, released, mishaps>>

MergeCoordination ==
  /\ CoordinationAllowed
  /\ Push([main EXCEPT !.defined = TRUE, !.ready = coord.ready],
          [coord EXCEPT !.open = FALSE], pr, {})
  /\ UNCHANGED <<job, mishaps>>

\* Update branch: a new head, without statuses.
UpdateCoordination ==
  /\ coord.open /\ ~coord.current
  /\ IF Strict THEN UNCHANGED mishaps ELSE Mishap
  /\ coord' = [coord EXCEPT !.current = TRUE, !.green = FALSE]
  /\ UNCHANGED <<main, pr, job, released>>

\* Both required statuses on the live head; a record that changed on both sides since
\* the branch was synchronised is a conflict.
MergeAllowed(p) ==
  /\ pr[p].state = "open" /\ pr[p].quality /\ pr[p].changeset = "success"
  /\ Strict => pr[p].current
  /\ main.version[p] + 1 = pr[p].version

Merge(p) ==
  /\ MergeAllowed(p)
  /\ Push([main EXCEPT !.version[p] = pr[p].version, !.bound[p] = TRUE],
          coord, [pr EXCEPT ![p].state = "merged"], {})
  /\ UNCHANGED <<job, mishaps>>

\* A pull request that updates one product without a changeset.
IndependentUpdate(p) ==
  /\ main.version[p] < MaxVersion /\ Mishap
  /\ Push([main EXCEPT !.version[p] = @ + 1, !.bound[p] = FALSE], coord, pr,
          {[product |-> p, version |-> main.version[p] + 1, bound |-> FALSE]})
  /\ UNCHANGED job

Init ==
  /\ main = [defined |-> FALSE, ready |-> [p \in Products |-> NotReady],
             version |-> [p \in Products |-> 1], bound |-> [p \in Products |-> FALSE]]
  /\ coord = [exists |-> FALSE, open |-> FALSE, green |-> FALSE, current |-> FALSE,
              ready |-> [p \in Products |-> NotReady]]
  /\ pr = [p \in Products |->
             [state |-> "none", stage |-> "marker", version |-> 1, current |-> FALSE,
              recorded |-> FALSE, dispatched |-> FALSE, changeset |-> "none", quality |-> FALSE]]
  /\ job = NoJob
  /\ released = {}
  /\ mishaps = 0

Next ==
  \/ Create \/ EnsurePR \/ Count \/ JobFails
  \/ MergeCoordination \/ UpdateCoordination
  \/ \E p \in Products :
       \/ Track(p) \/ Sync(p) \/ Process(p) \/ HumanPush(p) \/ Lose(p) \/ Redispatch(p)
       \/ RecordReady(p) \/ SetTracking(p) \/ Merge(p) \/ IndependentUpdate(p)

Spec == Init /\ [][Next]_vars

\* Workflow runs go on, queued runs start, and people sync and merge what they may.
Fairness ==
  /\ WF_vars(Create) /\ WF_vars(EnsurePR) /\ WF_vars(Count)
  /\ WF_vars(MergeCoordination) /\ WF_vars(UpdateCoordination)
  /\ \A p \in Products :
       /\ WF_vars(Track(p)) /\ WF_vars(Sync(p)) /\ SF_vars(Process(p))
       /\ SF_vars(RecordReady(p)) /\ WF_vars(SetTracking(p)) /\ SF_vars(Merge(p))

FairSpec == Spec /\ Fairness

(***************************************************************************)
(* Properties                                                              *)
(***************************************************************************)
TypeOK ==
  /\ main \in [defined : BOOLEAN, ready : Readiness,
               version : [Products -> Versions], bound : [Products -> BOOLEAN]]
  /\ coord \in [exists : BOOLEAN, open : BOOLEAN, green : BOOLEAN, current : BOOLEAN,
                ready : Readiness]
  /\ pr \in [Products ->
              [state : {"none", "open", "merged"}, stage : {"marker", "prepared", "processed"},
               version : Versions, current : BOOLEAN, recorded : BOOLEAN, dispatched : BOOLEAN,
               changeset : {"none", "pending", "success"}, quality : BOOLEAN]]
  /\ job \in [stage : {"idle", "track", "ensure", "count", "set"},
              todo : SUBSET Products, complete : BOOLEAN]
  /\ released \subseteq [product : Products, version : Versions, bound : BOOLEAN]
  /\ mishaps \in 0..MaxMishaps

\* A tracking pull request is merged only at the very head its readiness records, when
\* every product of the changeset was ready: whatever is pushed while a run reads heads
\* and sets statuses, and wherever a run fails.
MergedAtRecordedHeads ==
  \A p \in Products : pr[p].state = "merged" =>
    Complete(coord.ready) /\ pr[p].recorded /\ coord.ready[p] = pr[p].version

BoundRelease(p) == [product |-> p, version |-> coord.ready[p], bound |-> TRUE]

\* What is published for the changeset is all of it, at the recorded versions, and only
\* when every product of it has reached the default branch.
ReleasesAreWhole ==
  (\E r \in released : r.bound) =>
    \A p \in Products : pr[p].state = "merged" /\ BoundRelease(p) \in released

\* In whatever order the readiness and the products are merged, the last merge releases.
LastMergeReleases ==
  /\ main.defined /\ Complete(main.ready)
  /\ \A p \in Products : pr[p].state = "merged" /\ main.bound[p]
  => \A p \in Products : BoundRelease(p) \in released

\* The default branch never has readiness that the coordination branch has not, and
\* recorded readiness is never taken back or moved.
ReadinessIsFinal ==
  [][\A p \in Products :
       /\ main'.ready[p] \in {NotReady, coord'.ready[p]}
       /\ pr[p].recorded /\ pr'[p].recorded => pr'[p].version = pr[p].version
       /\ coord.ready[p] # NotReady =>
            /\ coord'.ready[p] = coord.ready[p]
            /\ ~pr[p].recorded => ~pr'[p].recorded]_vars

\* A changeset in which nothing is lost, killed or pushed out of turn is released: the
\* plan merges the readiness record, then the first product, then the second, whose merge
\* releases both.  Without strict protection this is so.  With it, as the bootstrap
\* configures main, the first of these merges puts the heads of the others behind, and
\* a head that takes in main is no longer the one the readiness recorded.
ChangesetIsReleased ==
  [](mishaps = 0) => <>(\A p \in Products : BoundRelease(p) \in released)

(***************************************************************************)
(* The inductive invariant behind them                                     *)
(***************************************************************************)
\* Only a processed head is recorded, and only the recorded one gets both statuses.
HeadInv(p) ==
  /\ pr[p].recorded => pr[p].stage = "processed" /\ coord.ready[p] = pr[p].version
  /\ pr[p].state = "open" /\ pr[p].changeset = "success" /\ pr[p].quality =>
       pr[p].recorded /\ Complete(coord.ready)
  /\ pr[p].state = "merged" => pr[p].recorded /\ Complete(coord.ready)

\* What the default branch has of a product.
BranchInv(p) ==
  /\ main.ready[p] \in {NotReady, coord.ready[p]}
  /\ main.bound[p] => pr[p].state = "merged" /\ main.version[p] = pr[p].version
  /\ pr[p].state = "merged" =>
       /\ pr[p].version <= main.version[p]
       /\ pr[p].version = main.version[p] => main.bound[p]

\* While a run sets success, a head that lost its record has no quality status, for
\* processing waits for the concurrency group.
JobInv ==
  job.stage = "set" /\ job.complete =>
    /\ Complete(coord.ready)
    /\ \A p \in Products : pr[p].state = "open" /\ pr[p].quality => pr[p].recorded

\* Success reaches recorded heads only, from the run that counts to the merges, and the
\* merges, in every order, leave the default branch with the recorded versions bound.
ChangesetsInv ==
  /\ \A p \in Products : HeadInv(p) /\ BranchInv(p)
  /\ JobInv
  /\ ReleasesAreWhole
  /\ LastMergeReleases
=============================================================================
