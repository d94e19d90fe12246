------------------------------- MODULE Intake -------------------------------
(***************************************************************************)
(* Approved issues become the managed draft pull request of a product:     *)
(* IssueRouteService, IssueIntakeService, IssueBaseSyncService, the        *)
(* preparation of an issue event, the git and path policies they rest on,  *)
(* and the jobs of the intake workflow.                                    *)
(*                                                                         *)
(* All issues of the instance are for one product and one changeset, so    *)
(* they share a branch; the workflow serialises the runs of one issue and  *)
(* nothing serialises two issues.  The default branch and people move      *)
(* between any two steps, and a call to the remote may take effect and     *)
(* still be reported as failed.                                            *)
(***************************************************************************)
EXTENDS Integers, FiniteSets, Sequences

CONSTANTS
  Issues,
  Requests,      \* what an issue can ask: issue, op, pid, version, description, sources
  Sources,       \* the attachments of a product, as one value
  Descriptions,
  Ids,           \* product ids, ExistingId the one of the default branch's product
  ExistingId,
  None,
  MaxApprovals,  \* bound on approvals and reruns
  MaxMishaps     \* bound on failed calls and on what people do meanwhile

ASSUME IntakeAssumption ==
  /\ \A r \in Requests : r.issue \in Issues /\ r.op \in {"create", "update"}
                         /\ (r.op = "create" <=> r.pid = None)
  /\ ExistingId \in Ids /\ None \notin Ids \cup Sources \cup Descriptions
  /\ None \notin [op : {"create", "update"}, pid : Ids, version : Nat, description : Descriptions, base : Nat]
  /\ "processor" \notin Issues \cup {None}
  /\ MaxApprovals \in Nat /\ MaxMishaps \in Nat

IntakeFields == {"config", "manifest", "sources"}

\* The classes of other paths a branch can change: outputs and registry records
\* the product owns, registry records it does not own, and anything else.
OtherPaths == {"own", "foreign", "outside"}

VARIABLES
  main,       \* the product at every commit of the default branch
  branch,     \* head of the managed branch
  pr,         \* its open pull request
  run,        \* the workflow run of each issue
  labels,     \* labels of each issue
  approvals, mishaps

intakeVars == <<main, branch, pr, run, labels, approvals, mishaps>>

NoRun == [pc |-> "idle", job |-> "none", ok |-> TRUE, req |-> None, base |-> 0,
          expected |-> None, pr |-> 0, head |-> None, local |-> None]

Absent == [config |-> None, manifest |-> None, sources |-> None]

MergedVersion(base) == IF main[base].config = None THEN 0 ELSE main[base].config.version

\* The branch a fresh clone creates at a commit of the default branch; over is
\* the version its intake was prepared over, for the properties only.
Fresh(base) == [config |-> main[base].config, manifest |-> main[base].manifest,
                sources |-> main[base].sources, marker |-> "none", touched |-> {},
                base |-> base, over |-> 0, n |-> 0, by |-> None]

\* changed_paths: what a head changes since it left the default branch.
ChangedPaths(c) ==
  {f \in IntakeFields : c[f] # main[c.base][f]} \cup c.touched
  \cup (IF c.marker = "none" THEN {} ELSE {"marker"})

MarkerOnly(c) == ChangedPaths(c) = {"marker"}

Committed(c, by) == [c EXCEPT !.n = @ + 1, !.by = by]

Mishap == mishaps < MaxMishaps /\ mishaps' = mishaps + 1

Run(i) == run[i]
At(i, pc) == run[i].pc = pc
Step(i, changes) == run' = [run EXCEPT ![i] = [f \in DOMAIN @ |-> IF f \in DOMAIN changes THEN changes[f] ELSE @[f]]]

Go(i, pc) == Step(i, [pc |-> pc])
Fail(i) == Step(i, [pc |-> "finalize", ok |-> FALSE])

Labelled(i, add, remove) == labels' = [labels EXCEPT ![i] = (@ \ remove) \cup add]

(***************************************************************************)
(* Preparing an issue event                                                *)
(***************************************************************************)

\* An update needs the product's own config; a create looks at nothing.
CanPrepare(req, c) == req.op = "update" => c.config # None /\ c.config.pid = req.pid

KeptDescription(req, c) ==
  IF req.description # None \/ req.op = "create" THEN req.description ELSE c.config.description

\* The version an update starts from: the one of the config it replaces.
BaseVersion(req, c) == IF req.op = "update" THEN c.config.version ELSE 0

\* prepare_issue_event, for the id of the request or a new one.
Prepared(req, c, id) ==
  [c EXCEPT !.config = [op |-> req.op, pid |-> id, version |-> req.version,
                        description |-> KeptDescription(req, c), base |-> BaseVersion(req, c)],
            !.manifest = [issue |-> req.issue, pid |-> id, version |-> req.version,
                          sources |-> req.sources],
            !.sources = req.sources, !.over = MergedVersion(c.base)]

UsedIds == {c.config.pid : c \in {m \in {main[k] : k \in DOMAIN main} : m.config # None}}
           \cup (IF branch = None \/ branch.config = None THEN {} ELSE {branch.config.pid})

\* new_id never returns an id that is in use.
PreparedIds(req) == IF req.pid # None THEN {req.pid} ELSE Ids \ (UsedIds \cup {ExistingId})

\* Mutant: only the metadata of the recorded intake is compared, not its bytes.
MatchesRecord(req, c) ==
  /\ CanPrepare(req, c) /\ c.config # None /\ c.manifest # None
  /\ c.config.op = req.op /\ c.config.version = req.version
  /\ c.config.pid = IF req.pid # None THEN req.pid ELSE c.manifest.pid
  /\ c.manifest.issue = req.issue /\ c.manifest.version = req.version
  /\ c.manifest.sources = req.sources

\* prepare_existing_intake: what the branch holds is what the issue asks for.
MatchesIssue(req, c) ==
  /\ CanPrepare(req, c) /\ c.config # None /\ c.manifest # None
  /\ c.config.op = req.op /\ c.config.version = req.version
  /\ c.config.description = req.description
  /\ c.config.pid = IF req.pid # None THEN req.pid ELSE c.manifest.pid
  /\ c.manifest.issue = req.issue /\ c.manifest.version = req.version
  /\ req.pid # None => c.manifest.pid = req.pid
  /\ c.manifest.sources = req.sources /\ c.sources = req.sources

(***************************************************************************)
(* Approval and routing                                                    *)
(***************************************************************************)

\* Someone with write permission puts ard:approved on the issue.  The event
\* pins the body and the head of the default branch.
Approve(i, req) ==
  /\ At(i, "idle") /\ approvals < MaxApprovals
  /\ approvals' = approvals + 1
  /\ Step(i, [NoRun EXCEPT !.pc = "route", !.job = "route", !.req = req, !.base = Len(main)])
  /\ UNCHANGED <<main, branch, pr, labels, mishaps>>

\* "Re-run failed jobs": the job that failed starts again from the same event
\* and the same outputs of the jobs before it.
Rerun(i) ==
  /\ At(i, "idle") /\ ~Run(i).ok /\ approvals < MaxApprovals
  /\ approvals' = approvals + 1
  /\ Step(i, [pc |-> Run(i).job, ok |-> TRUE, head |-> None,
              local |-> IF Run(i).job = "process" THEN Run(i).local ELSE None])
  /\ UNCHANGED <<main, branch, pr, labels, mishaps>>

Route(i) ==
  /\ At(i, "route")
  /\ IF Run(i).base # Len(main) \/ (pr.open /\ ~pr.draft) THEN Fail(i)
     ELSE IF pr.open THEN Step(i, [pc |-> "sync", job |-> "sync", expected |-> branch])
     ELSE Step(i, [pc |-> "intake", job |-> "intake"])
  /\ UNCHANGED <<main, branch, pr, labels, approvals, mishaps>>

(***************************************************************************)
(* IssueIntakeService                                                      *)
(***************************************************************************)

\* A populated pull request is only accepted as it is; one that holds nothing
\* but its changeset marker is populated.
IntakeExisting(i) ==
  /\ At(i, "intake") /\ pr.open
  /\ IF ~pr.draft THEN Fail(i) /\ UNCHANGED labels
     ELSE IF MarkerOnly(branch)
       THEN Step(i, [pc |-> "prepare", head |-> branch]) /\ Labelled(i, {"processing"}, {"failed"})
     ELSE IF ChangedPaths(branch) # {} /\ ChangedPaths(branch) \subseteq IntakeFields
             /\ MatchesIssue(Run(i).req, branch)
       THEN /\ Step(i, [pc |-> "process", job |-> "process", local |-> branch])
            /\ Labelled(i, {"processing", "pr-created"}, {})
     ELSE Fail(i) /\ UNCHANGED labels
  /\ UNCHANGED <<main, branch, pr, approvals, mishaps>>

IntakeNew(i) ==
  /\ At(i, "intake") /\ ~pr.open
  /\ Go(i, "prepare") /\ Labelled(i, {"processing"}, {"failed"})
  /\ UNCHANGED <<main, branch, pr, approvals, mishaps>>

\* switch_or_create: the remote branch if there is one, else a new one at the
\* default branch of the clone.
Switched(i) ==
  IF Run(i).head # None THEN Run(i).head
  ELSE IF branch # None THEN branch ELSE Fresh(Run(i).base)

Prepare(i) ==
  /\ At(i, "prepare")
  /\ LET from == Switched(i) IN
     IF CanPrepare(Run(i).req, from)
     THEN \E id \in PreparedIds(Run(i).req) :
            LET made == Prepared(Run(i).req, from, id) IN
            Step(i, [pc |-> "push", head |-> from,
                     local |-> IF made = from THEN from ELSE Committed(made, i)])
     ELSE Fail(i)
  /\ UNCHANGED <<main, branch, pr, labels, approvals, mishaps>>

\* Mutant: the push replaces whatever the branch has become.
Forced(i) == TRUE

\* git refuses a push that is no fast-forward.
FastForward(i) ==
  branch = Run(i).head \/ branch = Run(i).local \/ branch = None

Pushes(i) ==
  IF FastForward(i) THEN branch' = Run(i).local ELSE UNCHANGED branch

Push(i) ==
  /\ At(i, "push")
  /\ Pushes(i)
  /\ IF FastForward(i) THEN Go(i, "open") ELSE Fail(i)
  /\ UNCHANGED <<main, pr, labels, approvals, mishaps>>

NewPullRequest == [open |-> TRUE, draft |-> TRUE, number |-> pr.number + 1]

OpenPullRequest(i) ==
  /\ At(i, "open")
  /\ pr' = IF pr.open THEN pr ELSE NewPullRequest
  /\ IF pr'.draft /\ branch = Run(i).local
     THEN Step(i, [pc |-> "process", job |-> "process"]) /\ Labelled(i, {"pr-created"}, {})
     ELSE Fail(i) /\ UNCHANGED labels
  /\ UNCHANGED <<main, branch, approvals, mishaps>>

(***************************************************************************)
(* IssueBaseSyncService                                                    *)
(***************************************************************************)

\* The pull request, its branch and the default branch are where this run saw
\* them; the first check also fixes the pull request it will insist on.
Unmoved(i, number, head) ==
  /\ pr.open /\ pr.draft /\ pr.number = number
  /\ branch = head /\ Run(i).base = Len(main)

\* Every path that is not intake is an output the registry says the product
\* owns.  A marker is none: a populated tracking branch is never synchronised.
OnlyOwnOutputs(c) == c.marker = "none" /\ c.touched \subseteq {"own"}

Sync(i) ==
  /\ At(i, "sync")
  /\ IF /\ Unmoved(i, pr.number, Run(i).expected)
        /\ IF MarkerOnly(branch)
           THEN branch.marker = "required" /\ Run(i).req.pid # None
           ELSE MatchesIssue(Run(i).req, branch) /\ OnlyOwnOutputs(branch)
     THEN Step(i, [pc |-> "merge", pr |-> pr.number, head |-> branch])
     ELSE Fail(i)
  /\ UNCHANGED <<main, branch, pr, labels, approvals, mishaps>>

\* Both sides changed the same file since the branch left the default branch.
Conflicts(c, base) ==
  \E f \in IntakeFields :
    /\ c[f] # main[c.base][f] /\ main[base][f] # main[c.base][f] /\ c[f] # main[base][f]

\* merge_revision: a file only one side changed is taken from that side.
Merged(c, base) ==
  LET Side(f) == IF c[f] = main[c.base][f] THEN main[base][f] ELSE c[f] IN
  IF c.base = base THEN c
  ELSE [Committed(c, "merge") EXCEPT !.base = base, !.config = Side("config"),
                                     !.manifest = Side("manifest"), !.sources = Side("sources")]

\* Mutant: the outputs of the last processing stay on the branch.
KeptOutputs(c) == c

\* The intake of the verified head is restored over the merge, and the outputs
\* are restored from the base.
ResetOutputs(c) == [c EXCEPT !.touched = {}]

Synchronised(i) ==
  LET head == Run(i).head
      merged == Merged(head, Run(i).base)
      kept == [merged EXCEPT !.config = head.config, !.manifest = head.manifest, !.sources = head.sources]
      preserved == IF kept = merged THEN merged ELSE Committed(kept, i)
      reset == ResetOutputs(preserved)
  IN IF reset = preserved THEN preserved ELSE Committed(reset, i)

Populated(i) ==
  LET merged == Merged(Run(i).head, Run(i).base)
      made == Prepared(Run(i).req, merged, Run(i).req.pid)
  IN IF made = merged THEN merged ELSE Committed(made, i)

\* What the merged tree becomes: a marker is populated, an intake is kept.
Result(i) == IF MarkerOnly(Run(i).head) THEN Populated(i) ELSE Synchronised(i)

CanMerge(i) ==
  /\ Unmoved(i, Run(i).pr, Run(i).head)
  /\ ~Conflicts(Run(i).head, Run(i).base)
  /\ MarkerOnly(Run(i).head) => CanPrepare(Run(i).req, Merged(Run(i).head, Run(i).base))
  /\ MatchesIssue(Run(i).req, Result(i))

\* Outputs both sides changed may conflict as well.
Merge(i) ==
  /\ At(i, "merge")
  /\ \/ CanMerge(i) /\ Step(i, [pc |-> "recheck", local |-> Result(i)])
     \/ ~CanMerge(i) /\ Fail(i)
     \/ Run(i).head.touched # {} /\ Run(i).head.base # Run(i).base /\ Fail(i)
  /\ UNCHANGED <<main, branch, pr, labels, approvals, mishaps>>

Recheck(i) ==
  /\ At(i, "recheck")
  /\ IF Unmoved(i, Run(i).pr, Run(i).head) THEN Go(i, "syncpush") ELSE Fail(i)
  /\ UNCHANGED <<main, branch, pr, labels, approvals, mishaps>>

SyncPush(i) ==
  /\ At(i, "syncpush")
  /\ Pushes(i)
  /\ IF FastForward(i) THEN Go(i, "verify") ELSE Fail(i)
  /\ UNCHANGED <<main, pr, labels, approvals, mishaps>>

Verify(i) ==
  /\ At(i, "verify")
  /\ IF branch = Run(i).local THEN Step(i, [pc |-> "process", job |-> "process"]) ELSE Fail(i)
  /\ UNCHANGED <<main, branch, pr, labels, approvals, mishaps>>

(***************************************************************************)
(* Processing, the finalizer, failed calls, and everybody else             *)
(***************************************************************************)

\* Mutant: the base version of an update is not compared.
NeverStale(c) == c.config.version \in {MergedVersion(c.base), MergedVersion(c.base) + 1}

\* plan_version for the product (module Versioning), against the registry of
\* the branch: the default branch's, or the one an earlier processing left.
PassesVersions(c) ==
  \E current \in {MergedVersion(c.base)} \cup (IF "own" \in c.touched THEN {c.config.version} ELSE {}) :
    /\ c.config.op = "update" => c.config.base = current
    /\ IF current = 0 THEN c.config.version = 1 ELSE c.config.version \in {current, current + 1}

\* The processor accepts only the exact head it was handed and writes its
\* outputs back, or fails (module Processing).
Process(i) ==
  /\ At(i, "process")
  /\ \/ /\ pr.open /\ pr.draft /\ branch = Run(i).local /\ PassesVersions(branch)
        /\ branch' = IF "own" \in branch.touched THEN branch
                     ELSE Committed([branch EXCEPT !.touched = @ \cup {"own"}], "processor")
        /\ Go(i, "finalize")
     \/ Fail(i) /\ UNCHANGED branch
  /\ UNCHANGED <<main, pr, labels, approvals, mishaps>>

Finalize(i) ==
  /\ At(i, "finalize")
  /\ Go(i, "idle")
  /\ IF Run(i).ok THEN Labelled(i, {}, {"processing", "failed"})
     ELSE Labelled(i, {"failed"}, {"processing"})
  /\ UNCHANGED <<main, branch, pr, approvals, mishaps>>

\* A call fails, or takes effect and is reported as failed.
CallFails(i) ==
  /\ Mishap
  /\ run[i].pc \in {"route", "intake", "prepare", "push", "open", "sync", "merge", "recheck", "syncpush", "verify"}
  /\ Fail(i)
  /\ \/ UNCHANGED <<branch, pr>>
     \/ run[i].pc \in {"push", "syncpush"} /\ Pushes(i) /\ UNCHANGED pr
     \/ At(i, "open") /\ ~pr.open /\ pr' = NewPullRequest /\ UNCHANGED branch
  /\ UNCHANGED <<main, labels, approvals>>

\* The changeset service opens the tracking pull request of the product.
Track ==
  /\ ~pr.open /\ Mishap
  /\ \/ branch = None /\ branch' = [Fresh(Len(main)) EXCEPT !.marker = "required", !.n = 1]
     \/ branch # None /\ MarkerOnly(branch) /\ branch.marker = "required" /\ UNCHANGED branch
  /\ pr' = NewPullRequest
  /\ UNCHANGED <<main, run, labels, approvals>>

\* Someone pushes to the branch: to the sources, to a description, to the
\* marker, or to any other path.
PersonPushes ==
  /\ branch # None /\ Mishap
  /\ \/ \E s \in Sources \ {branch.sources} : branch' = Committed([branch EXCEPT !.sources = s], "person")
     \/ /\ branch.config # None
        /\ \E d \in Descriptions \ {branch.config.description} :
             branch' = Committed([branch EXCEPT !.config.description = d], "person")
     \/ branch.marker = "required" /\ branch' = Committed([branch EXCEPT !.marker = "other"], "person")
     \/ \E t \in OtherPaths \ branch.touched :
          branch' = Committed([branch EXCEPT !.touched = @ \cup {t}], "person")
  /\ UNCHANGED <<main, pr, run, labels, approvals>>

PersonClosesOrReadies ==
  /\ pr.open /\ Mishap
  /\ \/ pr' = [pr EXCEPT !.open = FALSE]
     \/ pr.draft /\ pr' = [pr EXCEPT !.draft = FALSE]
  /\ UNCHANGED <<main, branch, run, labels, approvals>>

\* Another pull request is merged: of another product, or of this one, by an
\* issue or by a direct change of its sources.
MainMoves ==
  /\ Mishap
  /\ LET now == main[Len(main)]
         Next(c) == [c EXCEPT !.op = "update", !.version = @ + 1, !.base = c.version]
     IN
     \/ main' = Append(main, now)
     \/ /\ now.config # None
        /\ \E s \in Sources :
             \/ main' = Append(main, [now EXCEPT !.sources = s, !.config = Next(now.config)])
             \/ main' = Append(main, [now EXCEPT !.sources = s, !.config = Next(now.config),
                                                 !.manifest = [issue |-> "another", pid |-> now.config.pid,
                                                               version |-> now.config.version + 1, sources |-> s]])
  /\ UNCHANGED <<branch, pr, run, labels, approvals>>

(***************************************************************************)
(* Specification                                                           *)
(***************************************************************************)

MergedProduct(s, d) ==
  [config |-> [op |-> "create", pid |-> ExistingId, version |-> 1, description |-> d, base |-> 0],
   manifest |-> [issue |-> "first", pid |-> ExistingId, version |-> 1, sources |-> s],
   sources |-> s]

\* The product is on the default branch, or new.
IntakeInit ==
  /\ \E first \in {Absent} \cup {MergedProduct(s, d) : s \in Sources, d \in Descriptions} : main = <<first>>
  /\ branch = None
  /\ pr = [open |-> FALSE, draft |-> TRUE, number |-> 0]
  /\ run = [i \in Issues |-> NoRun]
  /\ labels = [i \in Issues |-> {}]
  /\ approvals = 0 /\ mishaps = 0

RunStep(i) ==
  \/ Route(i) \/ IntakeExisting(i) \/ IntakeNew(i) \/ Prepare(i) \/ Push(i) \/ OpenPullRequest(i)
  \/ Sync(i) \/ Merge(i) \/ Recheck(i) \/ SyncPush(i) \/ Verify(i) \/ Process(i) \/ Finalize(i)

IntakeNext ==
  \/ \E i \in Issues :
       \/ \E req \in {r \in Requests : r.issue = i} : Approve(i, req)
       \/ Rerun(i) \/ RunStep(i) \/ CallFails(i)
  \/ Track \/ PersonPushes \/ PersonClosesOrReadies \/ MainMoves

IntakeSpec == IntakeInit /\ [][IntakeNext]_intakeVars

(***************************************************************************)
(* Correctness                                                             *)
(***************************************************************************)

HandedOver(i) == run[i].pc = "process"

\* What a run hands to processing is what its issue asked for, byte for byte,
\* whatever the branch held before, whoever pushed to it and however often the
\* run was repeated (IssueIntakeService, IssueBaseSyncService).
HandoverIsApproved ==
  \A i \in Issues : HandedOver(i) =>
    LET req == run[i].req
        c == run[i].local
    IN /\ c.sources = req.sources
       /\ c.manifest.issue = i /\ c.manifest.sources = req.sources /\ c.manifest.version = req.version
       /\ c.config.op = req.op /\ c.config.version = req.version /\ c.config.pid = c.manifest.pid
       /\ req.pid # None => c.config.pid = req.pid
       /\ req.description # None => c.config.description = req.description

\* A synchronised head contains the default branch its run was approved on, and
\* differs from it by the approved intake and the changeset marker alone: no
\* output of an earlier processing is left (IssueBaseSyncService.run).
SynchronisedIsClean ==
  \A i \in Issues : HandedOver(i) /\ run[i].pr # 0 =>
    /\ run[i].local.base = run[i].base
    /\ ChangedPaths(run[i].local) \subseteq IntakeFields \cup {"marker"}

\* A processed update was prepared over the version of the product its base
\* holds: a change merged in between is never overwritten unseen, although the
\* intake is restored over every merge of the base (restore_paths, plan_version).
UpdatesReplaceWhatTheySaw ==
  branch # None /\ branch.by = "processor" /\ branch.config.op = "update"
  => MergedVersion(branch.base) = branch.over

\* No run takes from the branch what is neither intake nor an output the
\* product owns, nor the marker of the changeset (OnlyOwnOutputs, no force).
OthersWorkSurvives ==
  [][branch # None =>
       /\ branch.touched \ {"own"} \subseteq branch'.touched
       /\ branch.marker # "none" => branch'.marker # "none"]_intakeVars

\* Recovery from a failed call is to run the same command again: an update
\* nobody else interfered with is then handed over with the base version the
\* processor will find on the default branch.
RetriedUpdatesConverge ==
  \A i \in Issues :
    HandedOver(i) /\ run[i].req.op = "update" /\ Len(main) = 1 /\ pr.number = 1
    => run[i].local.config.base = MergedVersion(1)
=============================================================================
