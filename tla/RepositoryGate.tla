--------------------------- MODULE RepositoryGate ---------------------------
(***************************************************************************)
(* The gate of repository changes: ard-repository-change.yml,              *)
(* RepositoryCheckService and FinalizeService around one pull request that *)
(* is pushed to, reopened and rerun while main moves, and the merge button *)
(* of GitHub, which asks the protection that Bootstrap puts on main.       *)
(* A job fetches the head the pull request has when it starts, not the one *)
(* of its event; code of the pull request runs inside the tree that is     *)
(* verified. The clean clones and tools of one job are that job's alone.   *)
(***************************************************************************)
EXTENDS Bootstrap, Integers, FiniteSets

CONSTANTS
  Heads, NoHead,
  Change,        \* [Heads -> kinds of the paths changed since the merge base]
  Matrix,        \* the verification groups of the executable job
  MaxRuns, MaxMain

ASSUME GateAssumption ==
  /\ NoHead \notin Heads /\ "static" \notin Matrix
  /\ Change \in [Heads -> SUBSET {"code", "data"}] /\ Matrix # {}
  /\ MaxRuns \in Nat /\ MaxMain \in Nat

VARIABLES
  main,       \* version counts the commits, tree is the head whose tree main has, merged
              \* is that of the pull request
  head,       \* of the pull request
  contains,   \* per head, the version of main it was made on
  waiting,    \* the head of an event that waits for the concurrency group, or NoHead
  gate,       \* the workflow run in progress, or the last one
  status,     \* per head and context, the commit status
  passed,     \* ghost: per head, the groups whose verifiers all passed on its tree
  redAfter    \* ghost: per head, the last run that wrote a status for it had failed
prVars == <<main, head, contains, waiting, gate, status, passed, redAfter>>

Groups   == {"static"} \cup Matrix
Contexts == {"ard/changeset", "ard/quality-gate"}
Unverified == "a merge nobody verified"

Job(g) == gate.jobs[g]

\* paths-ignore: a pull request that changes data only starts no run.
Triggers(h) == Change[h] # {"data"}

\* A push makes a new head on the present main or on an older one; rebasing included.
Push ==
  /\ ~main.merged
  /\ \E h \in Heads : \E version \in 0..main.version :
       /\ contains[h] = -1
       /\ head' = h
       /\ contains' = [contains EXCEPT ![h] = version]
       /\ waiting' = IF Triggers(h) THEN h ELSE waiting
  /\ UNCHANGED <<main, gate, status, passed, redAfter>>

\* The pull request is closed and reopened, or a run of this or an earlier head is rerun.
Reopen ==
  /\ waiting = NoHead /\ ~main.merged
  /\ \E h \in Heads : contains[h] # -1 /\ Triggers(h) /\ waiting' = h
  /\ UNCHANGED <<main, head, contains, gate, status, passed, redAfter>>

\* cancel-in-progress: the jobs of the run end as cancelled; finalize has always().
Cancel ==
  /\ waiting # NoHead /\ gate.at = "jobs"
  /\ gate' = [gate EXCEPT !.at = "finalize", !.write = Contexts,
                !.jobs = [g \in Groups |-> IF Job(g) \in {"success", "failure", "skipped"}
                                             THEN Job(g) ELSE "cancelled"]]
  /\ UNCHANGED <<main, head, contains, waiting, status, passed, redAfter>>

\* A run takes the head and base of its event.
StartRun ==
  /\ waiting # NoHead /\ gate.at = "ended" /\ gate.runs < MaxRuns
  /\ waiting' = NoHead
  /\ gate' = [at |-> "jobs", head |-> waiting,
              jobs |-> [g \in Groups |-> IF g = "static" THEN "queued" ELSE "needs check"],
              write |-> {}, runs |-> gate.runs + 1]
  /\ UNCHANGED <<main, head, contains, status, passed, redAfter>>

\* needs: check, if: code_only == 'true'.
ReleaseMatrix(jobs, codeOnly) ==
  [g \in Groups |-> IF g = "static" THEN jobs[g]
                    ELSE IF jobs["static"] = "success" /\ codeOnly THEN "queued" ELSE "skipped"]

JobEnds(g, result, codeOnly) ==
  LET jobs == [gate.jobs EXCEPT ![g] = result] IN
  gate' = [gate EXCEPT !.jobs = IF g = "static" THEN ReleaseMatrix(jobs, codeOnly) ELSE jobs]

\* Mutant: the check runs on whatever head was fetched.
Refused_AnyHead(tree) == Change[tree] = {"code", "data"}

\* RepositoryCheckService.run up to the verifiers: the tree is the exact head of the
\* event, and code and data do not change together.
Refused(tree) == tree # gate.head \/ Change[tree] = {"code", "data"}

\* A job fetches refs/pull/<n>/head, and then works on its own clone. Without a change
\* of the repository the check is a NOOP that verifies nothing. Else every verifier of
\* the group passes and the tree is still the exact, clean head after each of them; or
\* one fails, or candidate code that it ran changed the tree.
RunJob(g) ==
  /\ gate.at = "jobs" /\ Job(g) = "queued"
  /\ \/ Refused(head) /\ JobEnds(g, "failure", FALSE) /\ UNCHANGED passed
     \/ ~Refused(head) /\ "code" \notin Change[head] /\ JobEnds(g, "success", FALSE) /\ UNCHANGED passed
     \/ /\ ~Refused(head) /\ "code" \in Change[head]
        /\ \/ JobEnds(g, "success", TRUE) /\ passed' = [passed EXCEPT ![head] = @ \cup {g}]
           \/ JobEnds(g, "failure", FALSE) /\ UNCHANGED passed
  /\ UNCHANGED <<main, head, contains, waiting, status, redAfter>>

Succeeded == \A g \in Groups : Job(g) = "success"

\* The finalize job: needs [check, executable], if: always().
StartFinalize ==
  /\ gate.at = "jobs"
  /\ \A g \in Groups : Job(g) \in {"success", "failure", "skipped", "cancelled"}
  /\ gate' = [gate EXCEPT !.at = "finalize", !.write = Contexts]
  /\ UNCHANGED <<main, head, contains, waiting, status, passed, redAfter>>

\* Mutant: a failure does not overwrite a status that is there.
Writes_NotAuthoritative(existing, state) == existing # state /\ (state = "failure" => existing = "none")

\* get_status: the same state is not written again; --authoritative-statuses.
Writes(existing, state) == existing # state

\* FinalizeService.run writes the two contexts in order; the head is that of the event.
Finalize ==
  /\ gate.at = "finalize" /\ gate.write # {}
  /\ \E c \in gate.write :
       LET state == IF Succeeded THEN "success" ELSE "failure" IN
       /\ c = "ard/quality-gate" => gate.write = {c}
       /\ status' = IF Writes(status[gate.head][c], state)
                      THEN [status EXCEPT ![gate.head][c] = state] ELSE status
       /\ redAfter' = [redAfter EXCEPT ![gate.head] = ~Succeeded]
       /\ gate' = [gate EXCEPT !.write = @ \ {c}, !.at = IF gate.write = {c} THEN "ended" ELSE @]
  /\ UNCHANGED <<main, head, contains, waiting, passed>>

\* A request of the finalizer, or its whole job, fails.
FinalizeFails ==
  /\ gate.at = "finalize" /\ failures < MaxFailures
  /\ failures' = failures + 1
  /\ gate' = [gate EXCEPT !.at = "ended", !.write = {}]
  /\ UNCHANGED <<main, head, contains, waiting, status, passed, redAfter>>

Green(h) == \A c \in Contexts : status[h][c] = "success"

\* What GitHub asks before it merges.
Mergeable ==
  protection # NoProtection /\ protection.enforced =>
    Green(head) /\ (protection.strict => contains[head] = main.version)

\* main gets the tree of the head if the head contains main; else a combination.
Merge ==
  /\ head # NoHead /\ "code" \in Change[head] /\ Mergeable /\ ~main.merged
  /\ main' = [version |-> main.version + 1, merged |-> TRUE,
              tree |-> IF contains[head] = main.version THEN head ELSE Unverified]
  /\ UNCHANGED <<head, contains, waiting, gate, status, passed, redAfter>>

\* Another pull request is merged.
MainAdvances ==
  /\ main.version < MaxMain
  /\ main' = [main EXCEPT !.version = @ + 1, !.tree = "another pull request"]
  /\ UNCHANGED <<head, contains, waiting, gate, status, passed, redAfter>>

GateInit ==
  /\ main = [version |-> 0, merged |-> FALSE, tree |-> "another pull request"]
  /\ head = NoHead /\ contains = [h \in Heads |-> -1] /\ waiting = NoHead
  /\ gate = [at |-> "ended", head |-> NoHead,
             jobs |-> [g \in Groups |-> "skipped"], write |-> {}, runs |-> 0]
  /\ status = [h \in Heads |-> [c \in Contexts |-> "none"]]
  /\ passed = [h \in Heads |-> {}]
  /\ redAfter = [h \in Heads |-> FALSE]

GateSteps ==
  \/ Push \/ Reopen \/ Cancel \/ StartRun \/ StartFinalize \/ Finalize \/ Merge \/ MainAdvances
  \/ \E g \in Groups : RunJob(g)

GateNext ==
  \/ GateSteps /\ UNCHANGED settingsVars
  \/ FinalizeFails /\ UNCHANGED <<settings, protection, apply, reviews, sealed, drifts>>

GateSpec ==
  /\ SettingsInit /\ GateInit
  /\ [][GateNext \/ (SettingsNext /\ UNCHANGED prVars)]_<<settingsVars, prVars>>

(***************************************************************************)
(* Properties                                                              *)
(***************************************************************************)
\* A head that is green in both contexts changes repository code only, and the verifiers
\* of every group passed on exactly its tree.
GreenIsVerified ==
  \A h \in Heads : Green(h) => Change[h] = {"code"} /\ passed[h] = Groups

\* Once a run for a head has failed and its finalizer wrote anything at all, the head is
\* not green, whatever an earlier run had written.
RedIsShown == \A h \in Heads : redAfter[h] => ~Green(h)

\* The statuses of a head tell what came of the runs for it, green and red.
StatusesAreTrue == GreenIsVerified /\ RedIsShown

\* From the success of a bootstrap to the next change of a setting, merging the pull
\* request makes main a tree that passed every verifier: the strict protection, the two
\* contexts and the head they are written for fit together.
MainIsVerified ==
  [][sealed /\ Merge => main'.tree \in Heads /\ passed[main'.tree] = Groups]_<<settingsVars, prVars>>
==============================================================================
