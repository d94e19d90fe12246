------------------------------ MODULE Processing ------------------------------
(***************************************************************************)
(* The way of one product branch to a green pull request: a push of        *)
(* sources starts the direct workflow, which ensures a draft pull request  *)
(* and calls the reusable processor; that one validates, generates,        *)
(* commits, pushes, sets the exact-head statuses, asks for readiness,      *)
(* reconciles a partial publication and finalizes (EnsureProductPrService, *)
(* SourceCheckService, ProcessingService, ProcessingReconcileService,      *)
(* FinalizeService).                                                       *)
(*                                                                         *)
(* One run holds the concurrency group.  People push, review and merge     *)
(* meanwhile, a newer push cancels the run anywhere, and every remote call *)
(* may take effect and still be reported as failed.                        *)
(***************************************************************************)
EXTENDS Naturals

CONSTANTS
  Sources,     \* contents the sources of the product can have
  Accepted,    \* the ones every check of the pipeline accepts
  Bound,       \* the ones that carry a changeset marker
  MaxCommits,  \* bound on commits, of people and of runs
  MaxFaults    \* bound on failed calls, killed runs, and runs somebody asks for again

ASSUME ProcessingAssumption ==
  /\ Accepted \subseteq Sources /\ Bound \subseteq Sources
  /\ MaxCommits \in Nat \ {0} /\ MaxFaults \in Nat

VARIABLES
  commits,    \* parent, sources, and whether the outputs are those of the sources
  made,       \* number of commits that exist
  published,  \* the ones that are on the remote
  remote,     \* head of the branch on the remote
  status,     \* commit statuses ard/changeset and ard/quality-gate
  pr,         \* pull request: state, the head GitHub shows, the head merged
  wanted,     \* head whose push asks for a run, 0 if none
  run,        \* the run in the concurrency group ard-registry-write
  sent,       \* heads whose readiness was dispatched
  faults

branch == <<commits, made, published, remote>>
vars == <<branch, status, pr, wanted, run, sent, faults>>

Heads == 1..MaxCommits

Root(s, exact) == [parent |-> 0, src |-> s, exact |-> exact]

NoStatus == [changeset |-> "none", quality |-> "none"]

Fault == faults < MaxFaults /\ faults' = faults + 1

\* A commit on top of a head.
NewCommit(parent, s, exact) ==
  /\ made < MaxCommits /\ made' = made + 1
  /\ commits' = [commits EXCEPT ![made'] = [parent |-> parent, src |-> s, exact |-> exact]]

(***************************************************************************)
(* People                                                                  *)
(***************************************************************************)

\* A push on top of the remote head.  Only changed sources raise the signal.  One commit is
\* left to the run.
HumanPush ==
  /\ pr.state # "merged" /\ made + 2 <= MaxCommits
  /\ \E s \in Sources, exact \in BOOLEAN :
       /\ NewCommit(remote, s, exact)
       /\ wanted' = IF s # commits[remote].src THEN made' ELSE wanted
  /\ published' = published \cup {made'} /\ remote' = made'
  /\ UNCHANGED <<status, pr, run, sent, faults>>

\* The pull request shows a pushed head a little later.
PrCatchesUp ==
  /\ pr.state \in {"draft", "ready"} /\ pr.head # remote
  /\ pr' = [pr EXCEPT !.head = remote]
  /\ UNCHANGED <<branch, status, wanted, run, sent, faults>>

\* Ready for review, and back to draft.
Review ==
  /\ pr.state \in {"draft", "ready"}
  /\ pr' = [pr EXCEPT !.state = IF @ = "draft" THEN "ready" ELSE "draft"]
  /\ UNCHANGED <<branch, status, wanted, run, sent, faults>>

\* Branch protection asks for both statuses at the head.
Merge ==
  /\ pr.state = "ready" /\ pr.head = remote
  /\ status[remote].changeset = "success" /\ status[remote].quality = "success"
  /\ pr' = [pr EXCEPT !.state = "merged", !.merged = remote]
  /\ UNCHANGED <<branch, status, wanted, run, sent, faults>>

(***************************************************************************)
(* A run                                                                   *)
(***************************************************************************)
NoRun == [stage |-> "idle", expected |-> 0, commit |-> 0, partial |-> FALSE,
          ok |-> FALSE, broken |-> FALSE]

Running == run.stage # "idle"

NewRun(head) == [NoRun EXCEPT !.stage = "queued", !.expected = head]

At(stage) == [run EXCEPT !.stage = stage]

\* Without a result envelope that names a commit there is nothing to reconcile, and what
\* failed in the reconciliation is not reconciled again.
Failed(r) ==
  IF r.commit # 0 /\ ~r.partial THEN [r EXCEPT !.stage = "reconcile", !.partial = TRUE]
                                ELSE [r EXCEPT !.stage = "finalize"]

\* Jobs validate and pull_request of the direct workflow, for the push of a head: the pull
\* request is found or created as a draft.  They count from when the group is free.
EnsureProductPr ==
  /\ ~Running /\ wanted # 0 /\ wanted' = 0
  /\ IF commits[wanted].src \in Accepted /\ remote = wanted
       THEN LET found == IF pr.state = "none" THEN [pr EXCEPT !.state = "draft", !.head = remote]
                                              ELSE pr
            IN  /\ pr' = found
                /\ IF found.state = "draft" /\ found.head = wanted
                     THEN \/ run' = NewRun(wanted) /\ UNCHANGED faults
                          \/ run' = NoRun /\ Fault
                     ELSE run' = NoRun /\ UNCHANGED faults
       ELSE run' = NoRun /\ UNCHANGED <<pr, faults>>
  /\ UNCHANGED <<branch, status, sent>>

\* A run that is asked for again, or by another workflow, for any head.
Rerun ==
  /\ ~Running /\ made < MaxCommits /\ pr.state # "none" /\ Fault
  /\ \E head \in published : run' = NewRun(head)
  /\ UNCHANGED <<branch, status, pr, wanted, sent>>

\* Job validate: SourceCheckService at the exact head.
SourceCheck ==
  /\ run.stage = "queued"
  /\ \/ /\ commits[run.expected].src \in Accepted
        /\ run' = At("check") /\ UNCHANGED faults
     \/ /\ commits[run.expected].src \notin Accepted
        /\ run' = Failed(run) /\ UNCHANGED faults
     \/ run' = Failed(run) /\ Fault
  /\ UNCHANGED <<branch, status, pr, wanted, sent>>

\* _require_expected_head: remote, pull request and checkout are at the head, in draft.
AtHead(head) == remote = head /\ pr.head = head /\ pr.state = "draft"

RequireExpectedHead ==
  /\ run.stage = "check"
  /\ \/ run' = (IF AtHead(run.expected) THEN At("pipeline") ELSE Failed(run)) /\ UNCHANGED faults
     \/ run' = Failed(run) /\ Fault
  /\ UNCHANGED <<branch, status, pr, wanted, sent>>

\* process_product, the head check after it, and commit_allowed_paths.  Another answer of
\* the provider may change outputs that were exact.
ProcessAndCommit ==
  /\ run.stage = "pipeline"
  /\ LET source == commits[run.expected]
         pass   == source.src \in Accepted /\ AtHead(run.expected)
     IN  \/ ~pass /\ run' = Failed(run) /\ UNCHANGED <<commits, made, faults>>
         \/ run' = Failed(run) /\ Fault /\ UNCHANGED <<commits, made>>
         \/ /\ pass /\ source.exact
            /\ run' = [At("verify") EXCEPT !.commit = run.expected]
            /\ UNCHANGED <<commits, made, faults>>
         \/ /\ pass /\ NewCommit(run.expected, source.src, TRUE)
            /\ run' = [At("push") EXCEPT !.commit = made']
            /\ UNCHANGED faults
  /\ UNCHANGED <<published, remote, status, pr, wanted, sent>>

\* Mutant: push --force.
FastForward_Forced == TRUE

FastForward == remote = commits[run.commit].parent

\* git push of the commit: fast-forward only.
Push ==
  /\ run.stage = "push"
  /\ \/ /\ FastForward /\ remote' = run.commit /\ published' = published \cup {run.commit}
        /\ \/ run' = At("verify") /\ UNCHANGED faults
           \/ run' = Failed(run) /\ Fault
     \/ ~FastForward /\ run' = Failed(run) /\ UNCHANGED <<remote, published, faults>>
     \/ run' = Failed(run) /\ Fault /\ UNCHANGED <<remote, published>>
  /\ UNCHANGED <<commits, made, status, pr, wanted, sent>>

VerifyRemoteHead ==
  /\ run.stage = "verify"
  /\ \/ run' = (IF remote = run.commit THEN At("changeset") ELSE Failed(run)) /\ UNCHANGED faults
     \/ run' = Failed(run) /\ Fault
  /\ UNCHANGED <<branch, status, pr, wanted, sent>>

\* A remote call with the effect done, which may fail with or without it.
Call(done, undone, next) ==
  \/ done /\ run' = At(next) /\ UNCHANGED faults
  \/ (done \/ undone) /\ run' = Failed(run) /\ Fault

IsBound(head) == commits[head].src \in Bound

\* Mutant: the statuses go to the head the run was asked for.
StatusHead_Expected == run.expected

StatusHead == run.commit

ChangesetStatus == [status EXCEPT ![StatusHead].changeset =
                      IF IsBound(run.commit) THEN "pending" ELSE "success"]

\* Mutant: a reconciliation that finds the first status as it should be has nothing to do.
SetChangeset_NoopEnds ==
  /\ run.stage = "changeset"
  /\ Call(status' = ChangesetStatus, UNCHANGED status,
          IF run.partial /\ status = ChangesetStatus THEN "report" ELSE "quality")
  /\ UNCHANGED <<branch, pr, wanted, sent>>

SetChangeset ==
  /\ run.stage = "changeset"
  /\ Call(status' = ChangesetStatus, UNCHANGED status, "quality")
  /\ UNCHANGED <<branch, pr, wanted, sent>>

SetQuality ==
  /\ run.stage = "quality"
  /\ Call(status' = [status EXCEPT ![StatusHead].quality = "success"],
          UNCHANGED status, IF IsBound(run.commit) THEN "dispatch" ELSE "report")
  /\ UNCHANGED <<branch, pr, wanted, sent>>

DispatchReady ==
  /\ run.stage = "dispatch"
  /\ Call(sent' = sent \cup {run.commit}, UNCHANGED sent, "report")
  /\ UNCHANGED <<branch, status, pr, wanted>>

\* The result envelope and the outputs of the step are written.
Report ==
  /\ run.stage = "report"
  /\ run' = [At("finalize") EXCEPT !.ok = TRUE]
  /\ UNCHANGED <<branch, status, pr, wanted, sent, faults>>

\* ProcessingReconcileService: only at the current head, the statuses that differ and the
\* dispatch are done again.
Reconcile ==
  /\ run.stage = "reconcile"
  /\ \/ run' = (IF AtHead(run.commit) THEN At("changeset") ELSE Failed(run)) /\ UNCHANGED faults
     \/ run' = Failed(run) /\ Fault
  /\ UNCHANGED <<branch, status, pr, wanted, sent>>

\* The run is cancelled by a newer push, times out or loses its runner.  Outputs are there
\* once the step has written them, and may be lost with the runner.
Killed ==
  /\ Running
  /\ IF wanted # 0 THEN UNCHANGED faults ELSE Fault
  /\ IF run.stage = "finalize" THEN run' = [At("idle") EXCEPT !.broken = TRUE]
     ELSE \E commit \in {0} \cup IF run.partial \/ run.stage = "report" THEN {run.commit} ELSE {} :
            run' = [At("finalize") EXCEPT !.commit = commit, !.broken = TRUE]
  /\ UNCHANGED <<branch, status, pr, wanted, sent>>

\* FinalizeService: what has been decided is left alone.
FinalState(state) == IF state \in {"success", "failure"} THEN state ELSE "failure"

\* EXPECTED_HEAD of the job finalize.
FinalHead == IF run.commit # 0 THEN run.commit ELSE run.expected

\* ard/changeset, then ard/quality-gate, of a run that failed.  GitHub refuses a status of a
\* commit it does not have.
Finalize ==
  /\ run.stage = "finalize"
  /\ IF run.ok \/ FinalHead \notin published
       THEN run' = At("idle") /\ UNCHANGED <<status, faults>>
       ELSE \E contexts \in 0..2 :
              /\ status' = [status EXCEPT ![FinalHead] =
                   [changeset |-> IF contexts >= 1 THEN FinalState(@.changeset) ELSE @.changeset,
                    quality |-> IF contexts = 2 THEN FinalState(@.quality) ELSE @.quality]]
              /\ IF contexts = 2 THEN run' = At("idle") /\ UNCHANGED faults
                                 ELSE run' = [At("idle") EXCEPT !.broken = TRUE] /\ Fault
  /\ UNCHANGED <<branch, pr, wanted, sent>>

\* ChangesetService, in the same concurrency group: every product of the changeset is ready.
ChangesetReady ==
  /\ ~Running /\ remote \in sent /\ pr.head = remote /\ pr.state = "draft"
  /\ status[remote].changeset # "success"
  /\ status' = [status EXCEPT ![remote].changeset = "success"]
  /\ UNCHANGED <<branch, pr, wanted, run, sent, faults>>

(***************************************************************************)
(* Specification                                                           *)
(***************************************************************************)
Init ==
  /\ \E s \in Sources, exact \in BOOLEAN : commits = [h \in Heads |-> Root(s, exact)]
  /\ made = 1 /\ published = {1} /\ remote = 1
  /\ status = [h \in Heads |-> NoStatus]
  /\ pr = [state |-> "none", head |-> 0, merged |-> 0]
  /\ wanted = 1
  /\ run = NoRun
  /\ sent = {}
  /\ faults = 0

People == HumanPush \/ PrCatchesUp \/ Review \/ Merge

Process ==
  \/ SourceCheck \/ RequireExpectedHead \/ ProcessAndCommit \/ Push \/ VerifyRemoteHead
  \/ SetChangeset \/ SetQuality \/ DispatchReady \/ Report \/ Reconcile \/ Finalize

Next == People \/ EnsureProductPr \/ Rerun \/ Process \/ Killed \/ ChangesetReady

Spec == Init /\ [][Next]_vars

(***************************************************************************)
(* Properties                                                              *)
(***************************************************************************)
States == {"none", "pending", "success", "failure"}

Commit == [parent : 0..MaxCommits, src : Sources, exact : BOOLEAN]

Status == [changeset : States, quality : States]

PullRequest ==
  [state : {"none", "draft", "ready", "merged"}, head : 0..MaxCommits, merged : 0..MaxCommits]

Publishing == {"changeset", "quality", "dispatch", "report"}

\* There is a commit, or a head that needed none.
Committed == Publishing \cup {"push", "verify", "reconcile"}

Stages == Committed \cup {"idle", "queued", "check", "pipeline", "finalize"}

Run == [stage : Stages, expected : 0..MaxCommits, commit : 0..MaxCommits, partial : BOOLEAN,
        ok : BOOLEAN, broken : BOOLEAN]

\* Every commit, status and run is well formed, and only commits that exist are named.
TypeOK ==
  /\ commits \in [Heads -> Commit] /\ made \in Heads
  /\ published \subseteq 1..made /\ remote \in published
  /\ status \in [Heads -> Status]
  /\ pr \in PullRequest
  /\ wanted \in 0..made
  /\ run \in Run /\ run.commit \in 0..made
  /\ run.stage \in Committed => run.commit # 0
  /\ sent \subseteq 1..made
  /\ faults \in 0..MaxFaults

Valid(head) == commits[head].src \in Accepted /\ commits[head].exact

\* ard/quality-gate is green only at heads whose outputs are what the pipeline made of the
\* sources of the same head, and only such a head is merged, whatever was pushed, killed
\* or reconciled meanwhile.
QualityIsEarned ==
  /\ \A head \in published : status[head].quality = "success" => Valid(head)
  /\ pr.merged # 0 => Valid(pr.merged) /\ status[pr.merged].quality = "success"

\* Readiness is asked for only at heads that are published, bound and green.
ReadinessIsGreen ==
  \A head \in sent : head \in published /\ IsBound(head) /\ status[head].quality = "success"

\* A run moves the branch only forward: what people pushed is never lost.
PushedIsKept == [][remote' # remote => commits'[remote'].parent = remote]_vars

\* No later run, cancelled or failed, takes back the quality gate of a head.
QualityIsFinal ==
  [][\A head \in published : status[head].quality = "success" => status'[head].quality = "success"]_vars

\* What a run reports is true.  After a success both statuses are set and the readiness of
\* a bound product was dispatched, whatever failed before the reconciliation; a run that
\* ended by itself decided the quality gate of the head it reports on.
ReportsAreTrue ==
  ~Running /\ run.expected # 0 =>
    /\ run.ok => /\ status[FinalHead].quality = "success"
                 /\ status[FinalHead].changeset \in {"pending", "success"}
                 /\ IsBound(FinalHead) => FinalHead \in sent
    /\ ~run.broken /\ FinalHead \in published
         => status[FinalHead].quality \in {"success", "failure"}

(***************************************************************************)
(* The inductive invariant behind the safety properties                    *)
(***************************************************************************)
\* Only published heads whose outputs are exact are green, and runs start at published heads.
HeadsInv ==
  /\ \A head \in Heads :
       status[head].quality = "success" => head \in published /\ Valid(head)
  /\ wanted # 0 => wanted \in published
  /\ run.expected # 0 => run.expected \in published
  /\ pr.merged # 0 => pr.merged \in published /\ status[pr.merged].quality = "success"

\* The commit of a run is exact from the moment it exists, is published before the first
\* status, and has what the stages before have done.
CommitInv ==
  /\ run.commit # 0 => Valid(run.commit)
  /\ run.stage \in Publishing => run.commit \in published
  /\ run.stage \in {"quality", "dispatch", "report"} =>
       status[run.commit].changeset \in {"pending", "success"}
  /\ run.stage \in {"dispatch", "report"} => status[run.commit].quality = "success"
  /\ run.stage = "dispatch" => IsBound(run.commit)
  /\ run.stage = "report" /\ IsBound(run.commit) => run.commit \in sent

\* What a run that succeeded has done, and what one that ended by itself has decided.
ReportInv ==
  /\ run.ok => /\ run.stage \in {"finalize", "idle"} /\ run.commit # 0
               /\ run.commit \in published
               /\ status[run.commit].changeset \in {"pending", "success"}
               /\ status[run.commit].quality = "success"
               /\ IsBound(run.commit) => run.commit \in sent
  /\ ~Running /\ ~run.broken /\ run.expected # 0 /\ FinalHead \in published
       => status[FinalHead].quality \in {"success", "failure"}

ProcessingInv == HeadsInv /\ ReadinessIsGreen /\ CommitInv /\ ReportInv
==============================================================================
