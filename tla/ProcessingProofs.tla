--------------------------- MODULE ProcessingProofs ---------------------------
(***************************************************************************)
(* Proofs about Processing for any sources and any bounds: types, the      *)
(* inductive invariant, and the safety and action properties that follow   *)
(* from it.                                                                *)
(***************************************************************************)
EXTENDS Processing, TLAPS

(***************************************************************************)
(* What a step makes of the record of the run                              *)
(***************************************************************************)
LEMMA AtFacts ==
  ASSUME run \in Run, NEW s \in Stages
  PROVE  /\ At(s) \in Run /\ At(s).stage = s
         /\ At(s).expected = run.expected /\ At(s).commit = run.commit
         /\ At(s).partial = run.partial /\ At(s).ok = run.ok /\ At(s).broken = run.broken
  BY DEF At, Run

LEMMA AtCommitFacts ==
  ASSUME run \in Run, NEW s \in Stages, NEW c \in 0..MaxCommits
  PROVE  LET r == [At(s) EXCEPT !.commit = c]
         IN  /\ r \in Run /\ r.stage = s /\ r.commit = c
             /\ r.expected = run.expected /\ r.ok = run.ok /\ r.broken = run.broken
  BY DEF At, Run

LEMMA FailedFacts ==
  ASSUME run \in Run
  PROVE  /\ Failed(run) \in Run
         /\ Failed(run).stage \in {"reconcile", "finalize"}
         /\ Failed(run).stage \in Committed => run.commit # 0
         /\ Failed(run).expected = run.expected /\ Failed(run).commit = run.commit
         /\ Failed(run).ok = run.ok /\ Failed(run).broken = run.broken
  BY DEF Failed, Run, Stages, Committed, Publishing

LEMMA NewRunFacts ==
  ASSUME NEW head \in 0..MaxCommits
  PROVE  /\ NoRun \in Run /\ NoRun.stage = "idle" /\ NoRun.commit = 0 /\ NoRun.expected = 0
         /\ ~NoRun.ok /\ NoRun.stage \notin Committed /\ NewRun(head).stage \notin Committed
         /\ NewRun(head) \in Run /\ NewRun(head).stage = "queued" /\ NewRun(head).commit = 0
         /\ NewRun(head).expected = head /\ ~NewRun(head).ok /\ ~NewRun(head).broken
  <1>1. 0 \in 0..MaxCommits
    BY ProcessingAssumption
  <1>2. QED
    BY <1>1 DEF NewRun, NoRun, Run, Stages, Committed, Publishing

LEMMA ReportFacts ==
  ASSUME run \in Run
  PROVE  LET r == [At("finalize") EXCEPT !.ok = TRUE]
         IN  /\ r \in Run /\ r.stage = "finalize" /\ r.expected = run.expected
             /\ r.commit = run.commit /\ r.ok /\ r.broken = run.broken
  BY DEF At, Run, Stages

LEMMA BrokenFacts ==
  ASSUME run \in Run
  PROVE  LET r == [At("idle") EXCEPT !.broken = TRUE]
         IN  /\ r \in Run /\ r.stage = "idle" /\ r.expected = run.expected
             /\ r.commit = run.commit /\ r.ok = run.ok /\ r.broken
  BY DEF At, Run, Stages

LEMMA KilledFacts ==
  ASSUME run \in Run, NEW c \in 0..MaxCommits
  PROVE  LET r == [At("finalize") EXCEPT !.commit = c, !.broken = TRUE]
         IN  /\ r \in Run /\ r.stage = "finalize" /\ r.expected = run.expected
             /\ r.commit = c /\ r.ok = run.ok /\ r.broken
  BY DEF At, Run, Stages

(***************************************************************************)
(* Types                                                                   *)
(***************************************************************************)
LEMMA FaultType == ASSUME faults \in 0..MaxFaults, Fault PROVE faults' \in 0..MaxFaults
  BY ProcessingAssumption DEF Fault

LEMMA NewCommitType ==
  ASSUME TypeOK, NEW parent \in 0..MaxCommits, NEW s \in Sources, NEW exact \in BOOLEAN,
         NewCommit(parent, s, exact)
  PROVE  /\ made' = made + 1 /\ made' \in Heads /\ made' \notin published /\ 1..made \subseteq 1..made'
         /\ commits' \in [Heads -> Commit]
         /\ commits'[made'] = [parent |-> parent, src |-> s, exact |-> exact]
         /\ \A head \in 1..made : commits'[head] = commits[head]
  <1>1. made' = made + 1 /\ made' \in Heads /\ made \in Heads
    BY ProcessingAssumption DEF NewCommit, TypeOK, Heads
  <1>2. made' \notin published /\ 1..made \subseteq 1..made'
    BY <1>1 DEF TypeOK, Heads
  <1>3. [parent |-> parent, src |-> s, exact |-> exact] \in Commit
    BY DEF Commit
  <1>4. commits' = [commits EXCEPT ![made'] = [parent |-> parent, src |-> s, exact |-> exact]]
    BY DEF NewCommit
  <1>5. \A head \in 1..made : head # made' /\ head \in Heads
    BY <1>1, ProcessingAssumption DEF Heads
  <1>6. commits \in [Heads -> Commit]
    BY DEF TypeOK
  <1>7. /\ commits' \in [Heads -> Commit]
        /\ commits'[made'] = [parent |-> parent, src |-> s, exact |-> exact]
        /\ \A head \in 1..made : commits'[head] = commits[head]
    BY <1>1, <1>3, <1>4, <1>5, <1>6
  <1>8. QED
    BY <1>1, <1>2, <1>7

\* The steps that only move the run.
LEMMA RunStepType ==
  ASSUME TypeOK, UNCHANGED <<branch, status, pr, wanted, sent>>,
         run' \in Run, run'.commit \in 0..made, run'.stage \in Committed => run'.commit # 0,
         faults' \in 0..MaxFaults
  PROVE  TypeOK'
  BY DEF TypeOK, branch

\* The steps that move the branch, the statuses or the dispatches.
LEMMA StepType ==
  ASSUME TypeOK, UNCHANGED <<commits, made, pr, wanted>>,
         run' \in Run, run'.commit \in 0..made, run'.stage \in Committed => run'.commit # 0,
         faults' \in 0..MaxFaults, published' \subseteq 1..made, remote' \in published',
         status' \in [Heads -> Status], sent' \subseteq 1..made
  PROVE  TypeOK'
  BY DEF TypeOK

\* Every reachable state is well formed.
THEOREM TypeCorrect == Spec => []TypeOK
<1>1. Init => TypeOK
  <2> SUFFICES ASSUME Init PROVE TypeOK
    OBVIOUS
  <2>1. 0 \in 0..MaxCommits /\ 1 \in Heads /\ 0 \in 0..MaxFaults /\ 1 \in 1..1
    BY ProcessingAssumption DEF Heads
  <2>2. commits \in [Heads -> Commit]
    BY <2>1 DEF Init, Root, Commit
  <2>3. status \in [Heads -> Status]
    BY DEF Init, NoStatus, Status, States
  <2>4. pr \in PullRequest
    BY <2>1 DEF Init, PullRequest
  <2>5. run \in Run /\ run.commit = 0 /\ run.stage \notin Committed
    BY <2>1, NewRunFacts DEF Init
  <2>6. made \in Heads /\ published \subseteq 1..made /\ remote \in published /\ wanted \in 0..made
        /\ 0 \in 0..made
    BY <2>1 DEF Init
  <2>7. QED
    BY <2>1, <2>2, <2>3, <2>4, <2>5, <2>6 DEF TypeOK, Init
<1>2. ASSUME TypeOK, [Next]_vars PROVE TypeOK'
  <2>a. /\ run \in Run /\ run.commit \in 0..made /\ faults \in 0..MaxFaults
        /\ made \in Nat /\ made <= MaxCommits /\ MaxCommits \in Nat /\ 0..made \subseteq 0..MaxCommits
    BY <1>2, ProcessingAssumption DEF TypeOK, Heads
  <2>b. /\ published \subseteq 0..MaxCommits /\ published \subseteq Heads /\ published \subseteq 0..made
        /\ remote \in published /\ wanted \in 0..MaxCommits /\ 0 \in 0..MaxCommits /\ 0 \in 0..made
    BY <1>2, <2>a DEF TypeOK, Heads
  <2>c. Fault => faults' \in 0..MaxFaults
    BY <2>a, FaultType
  <2>d. \A s \in Stages : At(s) \in Run /\ At(s).commit = run.commit /\ At(s).stage = s
    BY <2>a, AtFacts
  <2>e. Failed(run) \in Run /\ Failed(run).commit = run.commit /\ (Failed(run).stage \in Committed => run.commit # 0)
    BY <2>a, FailedFacts
  <2>f. run.stage \in Committed => run.commit # 0
    BY <1>2 DEF TypeOK
  <2>1. CASE HumanPush
    <3>1. PICK s \in Sources, exact \in BOOLEAN :
            NewCommit(remote, s, exact) /\ wanted' = IF s # commits[remote].src THEN made' ELSE wanted
      BY <2>1 DEF HumanPush
    <3>2. /\ made' = made + 1 /\ made' \in Heads /\ commits' \in [Heads -> Commit]
          /\ 1..made \subseteq 1..made'
      BY <1>2, <2>b, <3>1, NewCommitType
    <3>3. 0..made \subseteq 0..made' /\ made' \in 0..made' /\ made' \in 1..made'
      BY <2>a, <3>2
    <3>4. published' \subseteq 1..made' /\ remote' \in published' /\ sent \subseteq 1..made'
      BY <1>2, <2>1, <3>2, <3>3 DEF HumanPush, TypeOK
    <3>5. wanted' \in 0..made'
      BY <1>2, <3>1, <3>3 DEF TypeOK
    <3>6. QED
      BY <1>2, <2>1, <3>2, <3>3, <3>4, <3>5 DEF HumanPush, TypeOK
  <2>2. CASE PrCatchesUp
    <3>1. pr' \in PullRequest
      BY <1>2, <2>2, <2>b DEF PrCatchesUp, TypeOK, PullRequest
    <3>2. QED
      BY <1>2, <2>2, <3>1 DEF PrCatchesUp, TypeOK, branch
  <2>3. CASE Review
    <3>1. pr' \in PullRequest
      BY <1>2, <2>3 DEF Review, TypeOK, PullRequest
    <3>2. QED
      BY <1>2, <2>3, <3>1 DEF Review, TypeOK, branch
  <2>4. CASE Merge
    <3>1. pr' \in PullRequest
      BY <1>2, <2>4, <2>b DEF Merge, TypeOK, PullRequest
    <3>2. QED
      BY <1>2, <2>4, <3>1 DEF Merge, TypeOK, branch
  <2>5. CASE EnsureProductPr
    <3>1. pr' \in PullRequest
      <4> DEFINE found == IF pr.state = "none" THEN [pr EXCEPT !.state = "draft", !.head = remote] ELSE pr
      <4>1. found \in PullRequest
        BY <1>2, <2>b DEF TypeOK, PullRequest
      <4>2. pr' = found \/ pr' = pr
        BY <2>5 DEF EnsureProductPr
      <4>3. QED
        BY <1>2, <4>1, <4>2 DEF TypeOK
    <3>2. (run' = NewRun(wanted) \/ run' = NoRun) /\ (Fault \/ UNCHANGED faults)
      BY <2>5 DEF EnsureProductPr
    <3>3. run' \in Run /\ run'.commit = 0 /\ run'.stage \notin Committed
      BY <2>b, <3>2, NewRunFacts
    <3>4. wanted' = 0 /\ UNCHANGED <<branch, status, sent>>
      BY <2>5 DEF EnsureProductPr
    <3>5. QED
      BY <1>2, <2>a, <2>b, <2>c, <3>1, <3>2, <3>3, <3>4 DEF TypeOK, branch
  <2>6. CASE Rerun
    <3>1. PICK head \in published : run' = NewRun(head)
      BY <2>6 DEF Rerun
    <3>2. run' \in Run /\ run'.commit = 0 /\ run'.stage \notin Committed
      BY <2>b, <3>1, NewRunFacts
    <3>3. QED
      BY <1>2, <2>6, <2>b, <2>c, <3>2, RunStepType DEF Rerun
  <2>7. CASE SourceCheck
    <3>1. run' \in Run /\ run'.commit = run.commit /\ (run'.stage \in Committed => run.commit # 0)
      BY <2>7, <2>d, <2>e, <2>f DEF SourceCheck, Stages, Committed, Publishing
    <3>2. QED
      BY <1>2, <2>7, <2>a, <2>c, <3>1, RunStepType DEF SourceCheck
  <2>8. CASE RequireExpectedHead
    <3>1. run' \in Run /\ run'.commit = run.commit /\ (run'.stage \in Committed => run.commit # 0)
      BY <2>8, <2>d, <2>e, <2>f DEF RequireExpectedHead, Stages, Committed, Publishing
    <3>2. QED
      BY <1>2, <2>8, <2>a, <2>c, <3>1, RunStepType DEF RequireExpectedHead
  <2>9. CASE ProcessAndCommit
    <3> DEFINE source == commits[run.expected]
    <3>1. CASE run' = Failed(run) /\ UNCHANGED <<commits, made>> /\ (UNCHANGED faults \/ Fault)
      BY <1>2, <2>9, <2>a, <2>c, <2>e, <3>1, RunStepType DEF ProcessAndCommit, branch
    <3>2. CASE /\ AtHead(run.expected) /\ UNCHANGED <<commits, made, faults>>
               /\ run' = [At("verify") EXCEPT !.commit = run.expected]
      <4>1. run.expected \in published
        BY <2>b, <3>2 DEF AtHead
      <4>2. run' \in Run /\ run'.commit = run.expected /\ run'.stage = "verify"
        BY <2>a, <2>b, <3>2, <4>1, AtCommitFacts DEF Stages, Committed, Publishing
      <4>a. run.expected \in 1..made
        BY <1>2, <4>1 DEF TypeOK
      <4>3. run.expected \in 0..made /\ run.expected # 0
        BY <2>a, <4>a
      <4>4. UNCHANGED <<branch, status, pr, wanted, sent>> /\ faults' \in 0..MaxFaults
        BY <2>9, <2>a, <3>2 DEF ProcessAndCommit, branch
      <4>5. QED
        BY <1>2, <4>2, <4>3, <4>4, RunStepType
    <3>3. CASE /\ AtHead(run.expected) /\ NewCommit(run.expected, source.src, TRUE)
               /\ run' = [At("push") EXCEPT !.commit = made'] /\ UNCHANGED faults
      <4>1. run.expected \in published /\ source.src \in Sources /\ run.expected \in 0..MaxCommits
        BY <1>2, <2>b, <3>3 DEF AtHead, TypeOK, Commit
      <4>2. /\ made' = made + 1 /\ made' \in Heads /\ commits' \in [Heads -> Commit]
            /\ 1..made \subseteq 1..made'
        BY <1>2, <3>3, <4>1, NewCommitType
      <4>3. 0..made \subseteq 0..made' /\ made' \in 0..made' /\ made' \in 0..MaxCommits
        BY <2>a, <4>2 DEF Heads
      <4>4. "push" \in Stages
        BY DEF Stages, Committed
      <4>a. run' \in Run /\ run'.commit = made' /\ made' # 0
        BY <2>a, <3>3, <4>2, <4>3, <4>4, AtCommitFacts
      <4>5. UNCHANGED <<published, remote, status, pr, wanted, sent>>
        BY <2>9 DEF ProcessAndCommit
      <4>6. QED
        BY <1>2, <3>3, <4>2, <4>3, <4>a, <4>5 DEF TypeOK
    <3>4. QED
      BY <2>9, <3>1, <3>2, <3>3 DEF ProcessAndCommit
  <2>10. CASE Push
    <3>1. run' \in Run /\ run'.commit = run.commit /\ (run'.stage \in Committed => run.commit # 0)
      BY <2>10, <2>d, <2>e, <2>f DEF Push, Stages, Committed, Publishing
    <3>2. faults' \in 0..MaxFaults /\ run.commit # 0
      BY <2>10, <2>a, <2>c, <2>f DEF Push, Committed
    <3>3. UNCHANGED <<commits, made, status, pr, wanted, sent>>
      BY <2>10 DEF Push
    <3>4. CASE UNCHANGED <<remote, published>>
      BY <1>2, <2>a, <3>1, <3>2, <3>3, <3>4, RunStepType DEF branch
    <3>5. CASE remote' = run.commit /\ published' = published \cup {run.commit}
      <4>a. run.commit \in 1..made
        BY <2>a, <3>2
      <4>1. published' \subseteq 1..made /\ remote' \in published'
        BY <1>2, <3>5, <4>a DEF TypeOK
      <4>2. status' \in [Heads -> Status] /\ sent' \subseteq 1..made
        BY <1>2, <3>3 DEF TypeOK
      <4>3. QED
        BY <1>2, <2>a, <3>1, <3>2, <3>3, <4>1, <4>2, StepType
    <3>6. QED
      BY <2>10, <3>4, <3>5 DEF Push
  <2>11. CASE VerifyRemoteHead
    <3>1. run' \in Run /\ run'.commit = run.commit /\ (run'.stage \in Committed => run.commit # 0)
      BY <2>11, <2>d, <2>e, <2>f DEF VerifyRemoteHead, Stages, Committed, Publishing
    <3>2. QED
      BY <1>2, <2>11, <2>a, <2>c, <3>1, RunStepType DEF VerifyRemoteHead
  <2>12. CASE SetChangeset
    <3>1. run' \in Run /\ run'.commit = run.commit /\ (run'.stage \in Committed => run.commit # 0)
      BY <2>12, <2>d, <2>e, <2>f DEF SetChangeset, Call, Stages, Committed, Publishing
    <3>2. status' = status \/ status' = ChangesetStatus
      BY <2>12 DEF SetChangeset, Call
    <3>3. status' \in [Heads -> Status]
      BY <1>2, <3>2 DEF ChangesetStatus, TypeOK, Status, States
    <3>4. UNCHANGED <<branch, pr, wanted, sent>> /\ faults' \in 0..MaxFaults
      BY <2>12, <2>a, <2>c DEF SetChangeset, Call
    <3>5. QED
      BY <1>2, <2>a, <3>1, <3>3, <3>4 DEF TypeOK, branch
  <2>13. CASE SetQuality
    <3>1. run' \in Run /\ run'.commit = run.commit /\ (run'.stage \in Committed => run.commit # 0)
      BY <2>13, <2>d, <2>e, <2>f DEF SetQuality, Call, Stages, Committed, Publishing
    <3>2. status' = status \/ status' = [status EXCEPT ![StatusHead].quality = "success"]
      BY <2>13 DEF SetQuality, Call
    <3>3. status' \in [Heads -> Status]
      BY <1>2, <3>2 DEF TypeOK, Status, States
    <3>4. UNCHANGED <<branch, pr, wanted, sent>> /\ faults' \in 0..MaxFaults
      BY <2>13, <2>a, <2>c DEF SetQuality, Call
    <3>5. QED
      BY <1>2, <2>a, <3>1, <3>3, <3>4 DEF TypeOK, branch
  <2>14. CASE DispatchReady
    <3>1. run' \in Run /\ run'.commit = run.commit /\ (run'.stage \in Committed => run.commit # 0)
      BY <2>14, <2>d, <2>e, <2>f DEF DispatchReady, Call, Stages, Committed, Publishing
    <3>2. sent' = sent \/ sent' = sent \cup {run.commit}
      BY <2>14 DEF DispatchReady, Call
    <3>3. run.commit \in 1..made
      BY <2>14, <2>a, <2>f DEF DispatchReady, Committed, Publishing
    <3>4. UNCHANGED <<branch, status, pr, wanted>> /\ faults' \in 0..MaxFaults
      BY <2>14, <2>a, <2>c DEF DispatchReady, Call
    <3>5. QED
      BY <1>2, <2>a, <3>1, <3>2, <3>3, <3>4 DEF TypeOK, branch
  <2>15. CASE Report
    <3>1. run' \in Run /\ run'.commit = run.commit /\ run'.stage \notin Committed
      BY <2>15, <2>a, ReportFacts DEF Report, Committed, Publishing
    <3>2. QED
      BY <1>2, <2>15, <2>a, <2>c, <3>1, RunStepType DEF Report
  <2>16. CASE Reconcile
    <3>1. run' \in Run /\ run'.commit = run.commit /\ (run'.stage \in Committed => run.commit # 0)
      BY <2>16, <2>d, <2>e, <2>f DEF Reconcile, Stages, Committed, Publishing
    <3>2. QED
      BY <1>2, <2>16, <2>a, <2>c, <3>1, RunStepType DEF Reconcile
  <2>17. CASE Finalize
    <3>1. run' = At("idle") \/ run' = [At("idle") EXCEPT !.broken = TRUE]
      BY <2>17 DEF Finalize
    <3>2. run' \in Run /\ run'.commit = run.commit /\ run'.stage \notin Committed
      <4>1. "idle" \in Stages /\ "idle" \notin Committed
        BY DEF Stages, Committed, Publishing
      <4>2. QED
        BY <2>a, <2>d, <3>1, <4>1, BrokenFacts
    <3>3. status' \in [Heads -> Status]
      <4>1. CASE status' = status
        BY <1>2, <4>1 DEF TypeOK
      <4>2. CASE status' # status
        <5>1. PICK contexts \in 0..2 :
                status' = [status EXCEPT ![FinalHead] =
                   [changeset |-> IF contexts >= 1 THEN FinalState(@.changeset) ELSE @.changeset,
                    quality |-> IF contexts = 2 THEN FinalState(@.quality) ELSE @.quality]]
          BY <2>17, <4>2 DEF Finalize
        <5>2. QED
          BY <1>2, <5>1 DEF FinalState, TypeOK, Status, States
      <4>3. QED
        BY <4>1, <4>2
    <3>4. UNCHANGED <<branch, pr, wanted, sent>> /\ faults' \in 0..MaxFaults
      BY <2>17, <2>a, <2>c DEF Finalize
    <3>5. published' \subseteq 1..made /\ remote' \in published' /\ sent' \subseteq 1..made
      BY <1>2, <3>4 DEF TypeOK, branch
    <3>6. QED
      BY <1>2, <2>a, <3>2, <3>3, <3>4, <3>5, StepType DEF branch
  <2>18. CASE Killed
    <3>1. \/ run' = [At("idle") EXCEPT !.broken = TRUE]
          \/ \E c \in {0, run.commit} : run' = [At("finalize") EXCEPT !.commit = c, !.broken = TRUE]
      BY <2>18 DEF Killed
    <3>2. run' \in Run /\ run'.commit \in {0, run.commit} /\ run'.stage \notin Committed
      <4>1. "idle" \notin Committed /\ "finalize" \notin Committed
        BY DEF Committed, Publishing
      <4>2. {0, run.commit} \subseteq 0..MaxCommits
        BY <2>a, <2>b DEF Run
      <4>3. CASE run' = [At("idle") EXCEPT !.broken = TRUE]
        BY <2>a, <4>1, <4>3, BrokenFacts
      <4>4. CASE \E c \in {0, run.commit} : run' = [At("finalize") EXCEPT !.commit = c, !.broken = TRUE]
        <5>1. PICK c \in {0, run.commit} : run' = [At("finalize") EXCEPT !.commit = c, !.broken = TRUE]
          BY <4>4
        <5>2. c \in 0..MaxCommits
          BY <4>2
        <5>3. QED
          BY <2>a, <4>1, <5>1, <5>2, KilledFacts
      <4>5. QED
        BY <3>1, <4>3, <4>4
    <3>3. QED
      BY <1>2, <2>18, <2>a, <2>b, <2>c, <3>2, RunStepType DEF Killed
  <2>19. CASE ChangesetReady
    <3>1. status' \in [Heads -> Status]
      BY <1>2, <2>19 DEF ChangesetReady, TypeOK, Status, States
    <3>2. QED
      BY <1>2, <2>19, <3>1 DEF ChangesetReady, TypeOK, branch
  <2>20. CASE UNCHANGED vars
    BY <1>2, <2>20 DEF vars, branch, TypeOK
  <2>21. QED
    BY <1>2, <2>1, <2>2, <2>3, <2>4, <2>5, <2>6, <2>7, <2>8, <2>9, <2>10, <2>11, <2>12, <2>13, <2>14,
       <2>15, <2>16, <2>17, <2>18, <2>19, <2>20 DEF Next, People, Process
<1>3. QED
  BY <1>1, <1>2, PTL DEF Spec

(***************************************************************************)
(* The inductive invariant                                                 *)
(***************************************************************************)
\* What no step takes back: the content of a commit, its publication, its quality gate.
Kept ==
  /\ \A head \in 1..made : commits'[head] = commits[head]
  /\ published \subseteq published'
  /\ \A head \in published :
       status[head].quality = "success" => status'[head].quality = "success"

LEMMA KeptStep == ASSUME TypeOK, [Next]_vars PROVE Kept
<1>a. run.expected \in 0..MaxCommits /\ remote \in published /\ published \subseteq 1..made
      /\ remote \in 0..MaxCommits /\ published \subseteq Heads
  BY ProcessingAssumption DEF TypeOK, Run, Heads
<1>1. CASE UNCHANGED <<commits, published, status>>
  BY <1>1 DEF Kept
<1>2. CASE HumanPush
  <2>1. PICK s \in Sources, exact \in BOOLEAN : NewCommit(remote, s, exact)
    BY <1>2 DEF HumanPush
  <2>2. \A head \in 1..made : commits'[head] = commits[head]
    BY <1>a, <2>1, NewCommitType
  <2>3. QED
    BY <1>2, <2>2 DEF HumanPush, Kept
<1>3. CASE ProcessAndCommit
  <2>1. UNCHANGED <<published, status>>
    BY <1>3 DEF ProcessAndCommit
  <2>2. CASE UNCHANGED commits
    BY <2>1, <2>2 DEF Kept
  <2>3. CASE AtHead(run.expected) /\ NewCommit(run.expected, commits[run.expected].src, TRUE)
    <3>1. commits[run.expected].src \in Sources
      BY <1>a, <2>3 DEF AtHead, TypeOK, Commit
    <3>2. \A head \in 1..made : commits'[head] = commits[head]
      BY <1>a, <2>3, <3>1, NewCommitType
    <3>3. QED
      BY <2>1, <3>2 DEF Kept
  <2>4. QED
    BY <1>3, <2>2, <2>3 DEF ProcessAndCommit
<1>4. CASE Push
  BY <1>4 DEF Push, Kept
<1>5. CASE SetChangeset
  <2>1. \A head \in Heads : status'[head].quality = status[head].quality
    BY <1>5 DEF SetChangeset, Call, ChangesetStatus, TypeOK, Status
  <2>2. QED
    BY <1>5, <1>a, <2>1 DEF SetChangeset, branch, Kept
<1>6. CASE SetQuality
  <2>1. \A head \in Heads : status[head].quality = "success" => status'[head].quality = "success"
    BY <1>6 DEF SetQuality, Call, TypeOK, Status
  <2>2. QED
    BY <1>6, <1>a, <2>1 DEF SetQuality, branch, Kept
<1>7. CASE Finalize
  <2>1. CASE UNCHANGED status
    BY <1>7, <2>1 DEF Finalize, branch, Kept
  <2>2. CASE status' # status
    <3>1. PICK contexts \in 0..2 :
            status' = [status EXCEPT ![FinalHead] =
               [changeset |-> IF contexts >= 1 THEN FinalState(@.changeset) ELSE @.changeset,
                quality |-> IF contexts = 2 THEN FinalState(@.quality) ELSE @.quality]]
      BY <1>7, <2>2 DEF Finalize
    <3>2. \A head \in Heads : status[head].quality = "success" => status'[head].quality = "success"
      BY <3>1 DEF FinalState, TypeOK, Status
    <3>3. QED
      BY <1>7, <1>a, <3>2 DEF Finalize, branch, Kept
  <2>3. QED
    BY <2>1, <2>2
<1>8. CASE ChangesetReady
  <2>1. \A head \in Heads : status'[head].quality = status[head].quality
    BY <1>8 DEF ChangesetReady, TypeOK, Status
  <2>2. QED
    BY <1>8, <1>a, <2>1 DEF ChangesetReady, branch, Kept
<1>9. ASSUME \/ PrCatchesUp \/ Review \/ Merge \/ EnsureProductPr \/ Rerun
             \/ SourceCheck \/ RequireExpectedHead \/ VerifyRemoteHead
             \/ DispatchReady \/ Report \/ Reconcile \/ Killed \/ UNCHANGED vars
      PROVE  UNCHANGED <<commits, published, status>>
  BY <1>9 DEF PrCatchesUp, Review, Merge, EnsureProductPr, Rerun, SourceCheck, RequireExpectedHead,
              VerifyRemoteHead, DispatchReady, Report, Reconcile, Killed, vars, branch
<1>10. QED
  BY <1>1, <1>2, <1>3, <1>4, <1>5, <1>6, <1>7, <1>8, <1>9 DEF Next, People, Process

\* What is known of a commit stays known.
LEMMA ContentKept ==
  ASSUME TypeOK, Kept, NEW head \in 1..made
  PROVE  /\ Valid(head)' <=> Valid(head)
         /\ IsBound(head)' <=> IsBound(head)
  BY DEF Kept, Valid, IsBound

\* New green heads are published and valid, and runs start at published heads.
LEMMA HeadsStep ==
  ASSUME TypeOK, TypeOK', Kept, HeadsInv,
         \A head \in Heads : status'[head].quality = "success" =>
           \/ status[head].quality = "success"
           \/ head \in published' /\ Valid(head)',
         wanted' \in {0, wanted} \cup published',
         run'.expected \in {0, run.expected} \cup published',
         pr'.merged = pr.merged
  PROVE  HeadsInv'
<1>1. published \subseteq 1..made /\ published \subseteq published' /\ published \subseteq Heads
  BY ProcessingAssumption DEF TypeOK, Kept, Heads
<1>2. ASSUME NEW head \in Heads, status'[head].quality = "success"
      PROVE  head \in published' /\ Valid(head)'
  <2>1. CASE status[head].quality = "success"
    <3>1. head \in published /\ Valid(head)
      BY <2>1 DEF HeadsInv
    <3>2. QED
      BY <1>1, <3>1, ContentKept
  <2>2. QED
    BY <1>2, <2>1
<1>3. wanted' # 0 => wanted' \in published'
  BY <1>1 DEF HeadsInv
<1>4. run'.expected # 0 => run'.expected \in published'
  BY <1>1 DEF HeadsInv
<1>5. pr'.merged # 0 => pr'.merged \in published' /\ status'[pr'.merged].quality = "success"
  BY <1>1 DEF HeadsInv, Kept
<1>6. QED
  BY <1>2, <1>3, <1>4, <1>5 DEF HeadsInv

LEMMA SentStep ==
  ASSUME TypeOK, Kept, ReadinessIsGreen, sent' = sent
  PROVE  ReadinessIsGreen'
<1>1. \A head \in sent : head \in published /\ head \in 1..made /\ head \in published'
  BY DEF ReadinessIsGreen, TypeOK, Kept
<1>2. \A head \in sent : IsBound(head)' /\ status'[head].quality = "success"
  BY <1>1, ContentKept DEF ReadinessIsGreen, Kept
<1>3. QED
  BY <1>1, <1>2 DEF ReadinessIsGreen

\* A run that fails has no more than its commit.
LEMMA FailedStep ==
  ASSUME TypeOK, Kept, CommitInv, ReportInv, run' = Failed(run), run.stage \notin {"idle", "finalize"}
  PROVE  CommitInv' /\ ReportInv'
<1>1. /\ run'.commit = run.commit /\ run'.stage \in {"reconcile", "finalize"}
      /\ ~run'.ok /\ run.commit \in 0..made
  BY FailedFacts DEF TypeOK, ReportInv
<1>2. run'.commit # 0 => Valid(run.commit)'
  <2>1. made \in Nat
    BY ProcessingAssumption DEF TypeOK, Heads
  <2>2. run.commit # 0 => run.commit \in 1..made
    BY <1>1, <2>1
  <2>3. QED
    BY <1>1, <2>2 DEF CommitInv, Valid, Kept
<1>3. CommitInv'
  BY <1>1, <1>2 DEF CommitInv, Publishing
<1>4. QED
  BY <1>1, <1>3 DEF ReportInv, Running

LEMMA CommitContent ==
  ASSUME TypeOK, Kept, CommitInv, run'.commit \in {0, run.commit}
  PROVE  run'.commit # 0 => Valid(run.commit)'
<1>1. made \in Nat /\ run.commit \in 0..made
  BY ProcessingAssumption DEF TypeOK, Heads
<1>2. run.commit # 0 => run.commit \in 1..made
  BY <1>1
<1>3. QED
  BY <1>1, <1>2 DEF CommitInv, Valid, Kept

\* A run that does not end and reports nothing yet.
LEMMA RunningStep ==
  ASSUME run'.stage # "idle", ~run'.ok
  PROVE  ReportInv'
  BY DEF ReportInv, Running

\* The stages before there is a commit, and the end of a run that was killed.
LEMMA EarlyStep ==
  ASSUME TypeOK, Kept, CommitInv, run'.commit \in {0, run.commit},
         run'.stage \in {"idle", "queued", "check", "pipeline", "push", "verify", "reconcile", "finalize"}
  PROVE  CommitInv'
<1>1. run'.commit # 0 => Valid(run.commit)'
  BY CommitContent
<1>2. QED
  BY <1>1 DEF CommitInv, Publishing

\* What people do leaves a run as it is.
LEMMA SameRunStep ==
  ASSUME TypeOK, Kept, HeadsInv, CommitInv, ReportInv, UNCHANGED <<run, sent, status>>,
         published' \subseteq published \cup {made + 1}
  PROVE  CommitInv' /\ ReportInv'
<1>1. made \in Nat /\ run.commit \in 0..made /\ published \subseteq 1..made
  BY ProcessingAssumption DEF TypeOK, Heads
<1>2. run.commit # 0 => run.commit \in 1..made /\ Valid(run.commit)'
  BY <1>1, CommitContent
<1>3. FinalHead' = FinalHead /\ (run.expected # 0 => FinalHead # made + 1)
  BY <1>1 DEF FinalHead, HeadsInv
<1>4. CommitInv'
  BY <1>1, <1>2 DEF CommitInv, Publishing, Kept, IsBound
<1>5. run.ok => run'.commit \in 1..made
  BY <1>2 DEF ReportInv
<1>6. ReportInv'
  BY <1>1, <1>3, <1>5 DEF ReportInv, Running, Kept, IsBound
<1>7. QED
  BY <1>4, <1>6

LEMMA InvariantInit == Init => ProcessingInv
<1> SUFFICES ASSUME Init PROVE ProcessingInv
  OBVIOUS
<1>1. \A head \in Heads : status[head].quality = "none" /\ status[head].changeset = "none"
  BY DEF Init, NoStatus
<1>2. run.stage = "idle" /\ run.commit = 0 /\ run.expected = 0 /\ ~run.ok
  BY DEF Init, NoRun
<1>3. HeadsInv
  BY <1>1, <1>2 DEF Init, HeadsInv
<1>4. ReadinessIsGreen
  BY DEF Init, ReadinessIsGreen
<1>5. CommitInv /\ ReportInv
  BY <1>2 DEF CommitInv, ReportInv, Publishing
<1>6. QED
  BY <1>3, <1>4, <1>5 DEF ProcessingInv

\* One step per action of the workflow and of the people.
LEMMA InvariantStep ==
  ASSUME TypeOK, TypeOK', ProcessingInv, [Next]_vars PROVE ProcessingInv'
<1>a. HeadsInv /\ ReadinessIsGreen /\ CommitInv /\ ReportInv /\ Kept
  BY KeptStep DEF ProcessingInv
<1>b. SUFFICES HeadsInv' /\ ReadinessIsGreen' /\ CommitInv' /\ ReportInv'
  BY DEF ProcessingInv
<1>c. /\ run \in Run /\ run' \in Run /\ made \in Nat /\ run.commit \in 0..made
      /\ published \subseteq 1..made /\ published \subseteq published' /\ remote \in published
      /\ 0..made \subseteq 0..MaxCommits /\ wanted \in 0..MaxCommits
  BY <1>a, ProcessingAssumption DEF TypeOK, Heads, Kept
<1>d. run.stage \in Committed => run.commit # 0
  BY DEF TypeOK
<1>e. run.stage \notin {"idle", "finalize"} => ~run.ok
  BY <1>a DEF ReportInv
<1>f. \A s \in Stages : /\ At(s).stage = s /\ At(s).commit = run.commit /\ At(s).ok = run.ok
                       /\ At(s).expected = run.expected /\ At(s).broken = run.broken
  BY <1>c, AtFacts
<1>g. Failed(run).expected = run.expected
  BY <1>c, FailedFacts
<1>h. published \subseteq Heads
  BY <1>c DEF TypeOK, Heads
<1>s. {"quality", "dispatch", "report", "finalize", "idle"} \subseteq Stages
  BY DEF Stages, Committed, Publishing
<1>p. run.stage \in Publishing => run.commit # 0 /\ run.commit \in published /\ run.commit \in Heads
  BY <1>a, <1>d, <1>h DEF CommitInv, Committed
<1>1. CASE HumanPush
  <2>1. PICK s \in Sources, exact \in BOOLEAN : NewCommit(remote, s, exact)
    BY <1>1 DEF HumanPush
  <2>2. made' = made + 1
    BY <2>1 DEF NewCommit
  <2>3. /\ published' = published \cup {made + 1} /\ wanted' \in {wanted, made + 1}
        /\ UNCHANGED <<status, pr, run, sent>>
    BY <1>1, <2>2 DEF HumanPush
  <2>4. HeadsInv'
    BY <1>a, <2>3, HeadsStep
  <2>5. ReadinessIsGreen'
    BY <1>a, <2>3, SentStep
  <2>6. QED
    BY <1>a, <2>3, <2>4, <2>5, SameRunStep
<1>2. CASE PrCatchesUp \/ Review \/ UNCHANGED vars
  <2>1. UNCHANGED <<published, status, wanted, run, sent>> /\ pr'.merged = pr.merged
    BY <1>2 DEF PrCatchesUp, Review, vars, branch, TypeOK, PullRequest
  <2>2. HeadsInv'
    BY <1>a, <2>1, HeadsStep
  <2>3. ReadinessIsGreen'
    BY <1>a, <2>1, SentStep
  <2>4. QED
    BY <1>a, <2>1, <2>2, <2>3, SameRunStep
<1>3. CASE Merge
  <2>1. UNCHANGED <<commits, published, status, wanted, run, sent>>
    BY <1>3 DEF Merge, branch
  <2>2. pr'.merged \in published /\ status[pr'.merged].quality = "success"
    BY <1>c, <1>3 DEF Merge, TypeOK, PullRequest
  <2>3. HeadsInv'
    BY <1>a, <2>1, <2>2 DEF HeadsInv, Valid
  <2>4. ReadinessIsGreen'
    BY <1>a, <2>1, SentStep
  <2>5. QED
    BY <1>a, <2>1, <2>3, <2>4, SameRunStep
<1>4. CASE EnsureProductPr \/ Rerun
  <2>1. /\ UNCHANGED <<commits, published, status, sent>> /\ wanted' \in {0, wanted}
        /\ \E head \in published : run' = NewRun(head) \/ run' = NoRun
    <3>1. CASE Rerun
      BY <3>1 DEF Rerun, branch
    <3>2. CASE EnsureProductPr
      <4>1. wanted \in published
        BY <1>a, <3>2 DEF EnsureProductPr, HeadsInv
      <4>2. QED
        BY <3>2, <4>1 DEF EnsureProductPr, branch
    <3>3. QED
      BY <1>4, <3>1, <3>2
  <2>2. pr'.merged = pr.merged
    <3>1. CASE Rerun
      BY <3>1 DEF Rerun
    <3>2. CASE EnsureProductPr
      BY <3>2 DEF EnsureProductPr, TypeOK, PullRequest
    <3>3. QED
      BY <1>4, <3>1, <3>2
  <2>3. /\ run'.commit = 0 /\ run'.expected \in {0} \cup published /\ ~run'.ok
        /\ run'.stage \in {"idle", "queued"} /\ (run'.stage = "idle" => run'.expected = 0)
    BY <1>c, <2>1, NewRunFacts
  <2>4. HeadsInv'
    BY <1>a, <2>1, <2>2, <2>3, HeadsStep
  <2>5. ReadinessIsGreen'
    BY <1>a, <2>1, SentStep
  <2>6. CommitInv'
    BY <1>a, <2>3, EarlyStep
  <2>7. ReportInv'
    BY <2>3 DEF ReportInv, Running
  <2>8. QED
    BY <2>4, <2>5, <2>6, <2>7
<1>5. CASE SourceCheck \/ RequireExpectedHead \/ VerifyRemoteHead \/ Reconcile
  <2>1. UNCHANGED <<commits, published, remote, status, pr, wanted, sent>>
    BY <1>5 DEF SourceCheck, RequireExpectedHead, VerifyRemoteHead, Reconcile, branch
  <2>2. run.stage \in {"queued", "check", "verify", "reconcile"}
    BY <1>5 DEF SourceCheck, RequireExpectedHead, VerifyRemoteHead, Reconcile
  <2>3. \/ run' = Failed(run) \/ run' = At("check") \/ run' = At("pipeline")
        \/ run' = At("changeset") /\ remote = run.commit
    BY <1>5 DEF SourceCheck, RequireExpectedHead, VerifyRemoteHead, Reconcile, AtHead
  <2>4. {"check", "pipeline", "changeset"} \subseteq Stages
    BY DEF Stages, Committed, Publishing
  <2>5. HeadsInv'
    BY <1>a, <1>f, <1>g, <2>1, <2>3, <2>4, HeadsStep
  <2>6. ReadinessIsGreen'
    BY <1>a, <2>1, SentStep
  <2>7. CASE run' = Failed(run)
    BY <1>a, <2>2, <2>5, <2>6, <2>7, FailedStep
  <2>8. CASE run' = At("check") \/ run' = At("pipeline")
    <3>1. run'.stage \in {"check", "pipeline"} /\ run'.commit = run.commit /\ ~run'.ok
      BY <1>e, <1>f, <2>2, <2>4, <2>8
    <3>2. QED
      BY <1>a, <2>5, <2>6, <3>1, EarlyStep, RunningStep
  <2>9. CASE run' = At("changeset") /\ remote = run.commit
    <3>1. run'.stage = "changeset" /\ run'.commit = run.commit /\ ~run'.ok
      BY <1>e, <1>f, <2>2, <2>4, <2>9
    <3>2. CommitInv'
      BY <1>a, <1>c, <2>9, <3>1, CommitContent DEF CommitInv, Publishing
    <3>3. QED
      BY <2>5, <2>6, <3>1, <3>2, RunningStep
  <2>10. QED
    BY <2>3, <2>7, <2>8, <2>9
<1>6. CASE ProcessAndCommit
  <2>1. UNCHANGED <<published, remote, status, pr, wanted, sent>> /\ run.stage = "pipeline"
    BY <1>6 DEF ProcessAndCommit
  <2>2. ReadinessIsGreen'
    BY <1>a, <2>1, SentStep
  <2>3. CASE run' = Failed(run)
    <3>1. HeadsInv'
      BY <1>a, <1>g, <2>1, <2>3, HeadsStep
    <3>2. QED
      BY <1>a, <2>1, <2>2, <2>3, <3>1, FailedStep
  <2>4. CASE /\ commits[run.expected].src \in Accepted /\ AtHead(run.expected)
             /\ commits[run.expected].exact /\ UNCHANGED commits
             /\ run' = [At("verify") EXCEPT !.commit = run.expected]
    <3>1. "verify" \in Stages /\ run.expected \in published /\ run.expected \in 0..MaxCommits
      BY <1>c, <2>4 DEF Stages, Committed, AtHead, Run
    <3>2. /\ run'.commit = run.expected /\ run'.stage = "verify"
          /\ run'.expected = run.expected /\ ~run'.ok
      BY <1>c, <1>e, <2>1, <2>4, <3>1, AtCommitFacts
    <3>3. HeadsInv'
      BY <1>a, <2>1, <3>2, HeadsStep
    <3>4. CommitInv'
      BY <2>4, <3>2 DEF CommitInv, Valid, Publishing
    <3>5. QED
      BY <2>2, <3>2, <3>3, <3>4, RunningStep
  <2>5. CASE /\ commits[run.expected].src \in Accepted /\ AtHead(run.expected)
             /\ NewCommit(run.expected, commits[run.expected].src, TRUE)
             /\ run' = [At("push") EXCEPT !.commit = made']
    <3>1. "push" \in Stages /\ run.expected \in published /\ run.expected \in 0..MaxCommits
      BY <1>c, <2>5 DEF Stages, Committed, AtHead, Run
    <3>2. commits[run.expected].src \in Sources
      BY <2>5, ProcessingAssumption
    <3>3. /\ made' \in Heads
          /\ commits'[made'] = [parent |-> run.expected, src |-> commits[run.expected].src, exact |-> TRUE]
      BY <2>5, <3>1, <3>2, NewCommitType
    <3>4. made' \in 0..MaxCommits
      BY <3>3, ProcessingAssumption DEF Heads
    <3>5. /\ run'.commit = made' /\ run'.stage = "push"
          /\ run'.expected = run.expected /\ ~run'.ok
      BY <1>c, <1>e, <2>1, <2>5, <3>1, <3>4, AtCommitFacts
    <3>6. HeadsInv'
      BY <1>a, <2>1, <3>5, HeadsStep
    <3>7. CommitInv'
      BY <2>5, <3>3, <3>5 DEF CommitInv, Valid, Publishing
    <3>8. QED
      BY <2>2, <3>5, <3>6, <3>7, RunningStep
  <2>6. QED
    BY <1>6, <2>3, <2>4, <2>5 DEF ProcessAndCommit
<1>7. CASE Push
  <2>1. UNCHANGED <<commits, status, pr, wanted, sent>> /\ run.stage = "push"
    BY <1>7 DEF Push
  <2>2. run' = Failed(run) \/ run' = At("verify")
    BY <1>7 DEF Push
  <2>3. "verify" \in Stages
    BY DEF Stages, Committed
  <2>4. HeadsInv'
    BY <1>a, <1>f, <1>g, <2>1, <2>2, <2>3, HeadsStep
  <2>5. ReadinessIsGreen'
    BY <1>a, <2>1, SentStep
  <2>6. CASE run' = Failed(run)
    BY <1>a, <2>1, <2>4, <2>5, <2>6, FailedStep
  <2>7. CASE run' = At("verify")
    <3>1. run'.stage = "verify" /\ run'.commit = run.commit /\ ~run'.ok
      BY <1>e, <1>f, <2>1, <2>3, <2>7
    <3>2. QED
      BY <1>a, <2>4, <2>5, <3>1, EarlyStep, RunningStep
  <2>8. QED
    BY <2>2, <2>6, <2>7
<1>8. CASE SetChangeset
  <2>1. UNCHANGED <<commits, published, pr, wanted, sent>> /\ run.stage = "changeset"
    BY <1>8 DEF SetChangeset, branch
  <2>2. run.commit # 0 /\ run.commit \in published /\ run.commit \in Heads /\ "quality" \in Stages
    BY <1>p, <1>s, <2>1 DEF Publishing
  <2>3. \A head \in Heads : status'[head].quality = status[head].quality
    BY <1>8 DEF SetChangeset, Call, ChangesetStatus, TypeOK, Status
  <2>4. run' = Failed(run) \/ (run' = At("quality") /\ status' = ChangesetStatus)
    BY <1>8 DEF SetChangeset, Call
  <2>5. HeadsInv'
    BY <1>a, <1>f, <1>g, <2>1, <2>2, <2>3, <2>4, HeadsStep
  <2>6. ReadinessIsGreen'
    BY <1>a, <2>1, SentStep
  <2>7. CASE run' = Failed(run)
    BY <1>a, <2>1, <2>5, <2>6, <2>7, FailedStep
  <2>8. CASE run' = At("quality") /\ status' = ChangesetStatus
    <3>1. run'.stage = "quality" /\ run'.commit = run.commit /\ ~run'.ok
      BY <1>e, <1>f, <2>1, <2>2, <2>8
    <3>2. status'[run.commit].changeset \in {"pending", "success"}
      BY <2>2, <2>8 DEF ChangesetStatus, StatusHead, TypeOK, Status
    <3>3. run'.commit # 0 => Valid(run.commit)'
      BY <1>a, <3>1, CommitContent
    <3>4. CommitInv'
      BY <2>1, <2>2, <3>1, <3>2, <3>3 DEF CommitInv
    <3>5. QED
      BY <2>5, <2>6, <3>1, <3>4, RunningStep
  <2>9. QED
    BY <2>4, <2>7, <2>8
<1>9. CASE SetQuality
  <2>1. UNCHANGED <<commits, published, pr, wanted, sent>> /\ run.stage = "quality"
    BY <1>9 DEF SetQuality, branch
  <2>2. run.commit # 0 /\ run.commit \in published /\ run.commit \in Heads
    BY <1>p, <2>1 DEF Publishing
  <2>3. status' = status \/ status' = [status EXCEPT ![run.commit].quality = "success"]
    BY <1>9 DEF SetQuality, Call, StatusHead
  <2>4. \A head \in Heads : /\ head # run.commit => status'[head].quality = status[head].quality
                           /\ status'[head].changeset = status[head].changeset
    BY <2>3 DEF TypeOK, Status
  <2>5. \/ run' = Failed(run)
        \/ /\ run' = At(IF IsBound(run.commit) THEN "dispatch" ELSE "report")
           /\ status' = [status EXCEPT ![run.commit].quality = "success"]
    BY <1>9 DEF SetQuality, Call, StatusHead
  <2>6. run'.expected = run.expected /\ run'.commit = run.commit
    BY <1>c, <1>f, <1>s, <2>5, FailedFacts
  <2>7. run.commit \in published' /\ Valid(run.commit)'
    BY <1>a, <2>1, <2>2, <2>6 DEF CommitInv, Valid
  <2>8. HeadsInv'
    BY <1>a, <2>1, <2>4, <2>6, <2>7, HeadsStep DEF Valid
  <2>9. ReadinessIsGreen'
    BY <1>a, <2>1, SentStep
  <2>10. CASE run' = Failed(run)
    BY <1>a, <2>1, <2>8, <2>9, <2>10, FailedStep
  <2>11. CASE /\ run' = At(IF IsBound(run.commit) THEN "dispatch" ELSE "report")
              /\ status' = [status EXCEPT ![run.commit].quality = "success"]
    <3>1. /\ run'.stage = IF IsBound(run.commit) THEN "dispatch" ELSE "report"
          /\ run'.commit = run.commit /\ ~run'.ok
      BY <1>e, <1>f, <1>s, <2>1, <2>11
    <3>2. status'[run.commit].quality = "success"
      BY <2>2, <2>11 DEF TypeOK, Status
    <3>3. status'[run.commit].changeset \in {"pending", "success"}
      BY <1>a, <2>1, <2>2, <2>4 DEF CommitInv
    <3>4. IsBound(run.commit)' <=> IsBound(run.commit)
      BY <2>1, <2>6 DEF IsBound
    <3>5. run'.commit # 0 => Valid(run.commit)'
      BY <2>7
    <3>a. run'.stage = "dispatch" => IsBound(run.commit)'
      BY <3>1, <3>4
    <3>b. run'.stage # "report" \/ ~IsBound(run.commit)'
      BY <3>1, <3>4
    <3>6. CommitInv'
      BY <2>1, <2>2, <3>1, <3>2, <3>3, <3>5, <3>a, <3>b DEF CommitInv
    <3>7. QED
      BY <2>8, <2>9, <3>1, <3>6, RunningStep
  <2>12. QED
    BY <2>5, <2>10, <2>11
<1>10. CASE DispatchReady
  <2>1. UNCHANGED <<commits, published, status, pr, wanted>> /\ run.stage = "dispatch"
    BY <1>10 DEF DispatchReady, branch
  <2>2. run.commit # 0 /\ run.commit \in published
    BY <1>p, <2>1 DEF Publishing
  <2>3. IsBound(run.commit) /\ status[run.commit].quality = "success"
    BY <1>a, <2>1 DEF CommitInv
  <2>4. sent' \subseteq sent \cup {run.commit}
    BY <1>10 DEF DispatchReady, Call
  <2>5. run' = Failed(run) \/ (run' = At("report") /\ sent' = sent \cup {run.commit})
    BY <1>10 DEF DispatchReady, Call
  <2>6. HeadsInv'
    BY <1>a, <1>f, <1>g, <1>s, <2>1, <2>5, HeadsStep
  <2>7. ReadinessIsGreen'
    BY <1>a, <2>1, <2>2, <2>3, <2>4 DEF ReadinessIsGreen, IsBound
  <2>8. CASE run' = Failed(run)
    BY <1>a, <2>1, <2>6, <2>7, <2>8, FailedStep
  <2>9. CASE run' = At("report") /\ sent' = sent \cup {run.commit}
    <3>1. run'.stage = "report" /\ run'.commit = run.commit /\ ~run'.ok
      BY <1>e, <1>f, <1>s, <2>1, <2>9
    <3>2. run'.commit # 0 => Valid(run.commit)'
      BY <1>a, <3>1, CommitContent
    <3>3. status[run.commit].changeset \in {"pending", "success"}
      BY <1>a, <2>1 DEF CommitInv
    <3>4. CommitInv'
      BY <2>1, <2>2, <2>3, <2>9, <3>1, <3>2, <3>3 DEF CommitInv
    <3>5. QED
      BY <2>6, <2>7, <3>1, <3>4, RunningStep
  <2>10. QED
    BY <2>5, <2>8, <2>9
<1>11. CASE Report
  <2>1. UNCHANGED <<commits, published, status, pr, wanted, sent>> /\ run.stage = "report"
    BY <1>11 DEF Report, branch
  <2>2. /\ run'.stage = "finalize" /\ run'.commit = run.commit /\ run'.ok
        /\ run'.expected = run.expected
    BY <1>c, <1>11, ReportFacts DEF Report
  <2>3. run.commit # 0 /\ run.commit \in published
    BY <1>p, <2>1 DEF Publishing
  <2>4. HeadsInv'
    BY <1>a, <2>1, <2>2, HeadsStep
  <2>5. ReadinessIsGreen'
    BY <1>a, <2>1, SentStep
  <2>6. CommitInv'
    BY <1>a, <2>2, EarlyStep
  <2>7. /\ status[run.commit].changeset \in {"pending", "success"}
        /\ status[run.commit].quality = "success"
        /\ IsBound(run.commit) => run.commit \in sent
    BY <1>a, <2>1 DEF CommitInv
  <2>8. ReportInv'
    BY <2>1, <2>2, <2>3, <2>7 DEF ReportInv, Running, IsBound
  <2>9. QED
    BY <2>4, <2>5, <2>6, <2>8
<1>12. CASE Killed
  <2>1. UNCHANGED <<commits, published, status, pr, wanted, sent>> /\ run.stage # "idle"
    BY <1>12 DEF Killed, branch, Running
  <2>2. ReadinessIsGreen'
    BY <1>a, <2>1, SentStep
  <2>3. CASE run.stage = "finalize"
    <3>1. /\ run'.stage = "idle" /\ run'.expected = run.expected /\ run'.commit = run.commit
          /\ run'.ok = run.ok /\ run'.broken
      BY <1>c, <1>12, <2>3, BrokenFacts DEF Killed
    <3>2. HeadsInv'
      BY <1>a, <2>1, <3>1, HeadsStep
    <3>3. CommitInv'
      BY <1>a, <3>1, EarlyStep
    <3>4. ReportInv'
      BY <1>a, <2>1, <3>1 DEF ReportInv, Running, IsBound
    <3>5. QED
      BY <2>2, <3>2, <3>3, <3>4
  <2>4. CASE run.stage # "finalize"
    <3>1. PICK c \in {0, run.commit} : run' = [At("finalize") EXCEPT !.commit = c, !.broken = TRUE]
      BY <1>12, <2>4 DEF Killed
    <3>2. c \in 0..MaxCommits
      BY <1>c
    <3>3. /\ run'.stage = "finalize" /\ run'.expected = run.expected /\ run'.commit = c
          /\ run'.ok = run.ok
      BY <1>c, <3>1, <3>2, KilledFacts
    <3>4. ~run'.ok
      BY <1>e, <2>1, <2>4, <3>3
    <3>5. HeadsInv'
      BY <1>a, <2>1, <3>3, HeadsStep
    <3>6. CommitInv'
      BY <1>a, <3>3, EarlyStep
    <3>7. QED
      BY <2>2, <3>3, <3>4, <3>5, <3>6, RunningStep
  <2>5. QED
    BY <2>3, <2>4
<1>13. CASE Finalize
  <2>1. UNCHANGED <<commits, published, pr, wanted, sent>> /\ run.stage = "finalize"
    BY <1>13 DEF Finalize, branch
  <2>2. /\ run'.stage = "idle" /\ run'.expected = run.expected /\ run'.commit = run.commit
        /\ run'.ok = run.ok
    <3>1. run' = At("idle") \/ run' = [At("idle") EXCEPT !.broken = TRUE]
      BY <1>13 DEF Finalize
    <3>2. QED
      BY <1>c, <1>f, <1>s, <3>1, BrokenFacts
  <2>3. FinalHead' = FinalHead
    BY <2>2 DEF FinalHead
  <2>4. ReadinessIsGreen'
    BY <1>a, <2>1, SentStep
  <2>5. CommitInv'
    BY <1>a, <2>2, EarlyStep
  <2>6. CASE run.ok \/ FinalHead \notin published
    <3>1. UNCHANGED status
      BY <1>13, <2>6 DEF Finalize
    <3>2. HeadsInv'
      BY <1>a, <2>1, <2>2, <3>1, HeadsStep
    <3>3. CASE run.ok
      <4>1. run.commit # 0 /\ status[run.commit].quality = "success"
        BY <1>a, <3>3 DEF ReportInv
      <4>2. ReportInv'
        BY <1>a, <2>1, <2>2, <2>3, <3>1, <3>3, <4>1 DEF ReportInv, FinalHead, IsBound
      <4>3. QED
        BY <2>4, <2>5, <3>2, <4>2
    <3>4. CASE ~run.ok /\ FinalHead \notin published
      <4>1. ReportInv'
        BY <2>1, <2>2, <2>3, <3>4 DEF ReportInv
      <4>2. QED
        BY <2>4, <2>5, <3>2, <4>1
    <3>5. QED
      BY <2>6, <3>3, <3>4
  <2>7. CASE ~run.ok /\ FinalHead \in published
    <3>1. PICK contexts \in 0..2 :
            /\ status' = [status EXCEPT ![FinalHead] =
                 [changeset |-> IF contexts >= 1 THEN FinalState(@.changeset) ELSE @.changeset,
                  quality |-> IF contexts = 2 THEN FinalState(@.quality) ELSE @.quality]]
            /\ contexts # 2 => run' = [At("idle") EXCEPT !.broken = TRUE]
      BY <1>13, <2>7 DEF Finalize
    <3>2. FinalHead \in Heads
      BY <1>h, <2>7
    <3>3. \A head \in Heads : status'[head].quality \in
            {status[head].quality, FinalState(status[head].quality)}
      BY <3>1 DEF TypeOK, Status
    <3>4. \A head \in Heads : status'[head].quality = "success" => status[head].quality = "success"
      BY <3>3 DEF FinalState
    <3>5. HeadsInv'
      BY <1>a, <2>1, <2>2, <3>4, HeadsStep
    <3>6. CASE contexts = 2
      <4>1. status'[FinalHead].quality = FinalState(status[FinalHead].quality)
        BY <3>1, <3>2, <3>6 DEF TypeOK, Status
      <4>2. status'[FinalHead].quality \in {"success", "failure"}
        BY <4>1 DEF FinalState
      <4>3. ReportInv'
        BY <2>2, <2>3, <2>7, <4>2 DEF ReportInv
      <4>4. QED
        BY <2>4, <2>5, <3>5, <4>3
    <3>7. CASE contexts # 2
      <4>1. run'.broken
        BY <1>c, <3>1, <3>7, BrokenFacts
      <4>2. ReportInv'
        BY <2>2, <2>7, <4>1 DEF ReportInv
      <4>3. QED
        BY <2>4, <2>5, <3>5, <4>2
    <3>8. QED
      BY <3>6, <3>7
  <2>8. QED
    BY <2>6, <2>7
<1>14. CASE ChangesetReady
  <2>1. UNCHANGED <<commits, published, pr, wanted, run, sent>> /\ run.stage = "idle"
    BY <1>14 DEF ChangesetReady, branch, Running
  <2>2. status' = [status EXCEPT ![remote].changeset = "success"]
    BY <1>14 DEF ChangesetReady
  <2>3. \A head \in Heads : /\ status'[head].quality = status[head].quality
                           /\ status'[head].changeset \in {status[head].changeset, "success"}
    BY <2>2 DEF TypeOK, Status
  <2>4. HeadsInv'
    BY <1>a, <2>1, <2>3, HeadsStep
  <2>5. ReadinessIsGreen'
    BY <1>a, <2>1, SentStep
  <2>6. CommitInv'
    BY <1>a, <2>1, EarlyStep
  <2>7. FinalHead' = FinalHead /\ (IsBound(run.commit)' <=> IsBound(run.commit))
    BY <2>1 DEF FinalHead, IsBound
  <2>8. ReportInv'
    BY <1>a, <1>h, <2>1, <2>3, <2>7 DEF ReportInv, Running, IsBound
  <2>9. QED
    BY <2>4, <2>5, <2>6, <2>8
<1>15. QED
  BY <1>1, <1>2, <1>3, <1>4, <1>5, <1>6, <1>7, <1>8, <1>9, <1>10, <1>11, <1>12, <1>13, <1>14
  DEF Next, People, Process

(***************************************************************************)
(* The properties                                                          *)
(***************************************************************************)
\* Heads, dispatches, the commit of a run and its report stay consistent in every state.
THEOREM ProcessingInvariant == Spec => []ProcessingInv
<1>1. TypeOK /\ TypeOK' /\ ProcessingInv /\ [Next]_vars => ProcessingInv'
  BY InvariantStep
<1>2. QED
  BY <1>1, InvariantInit, TypeCorrect, PTL DEF Spec

\* The quality gate is green, and a head merged, only when its outputs are exact.
THEOREM QualityEarned == Spec => []QualityIsEarned
<1>1. TypeOK /\ ProcessingInv => QualityIsEarned
  <2> SUFFICES ASSUME TypeOK, HeadsInv PROVE QualityIsEarned
    BY DEF ProcessingInv
  <2>1. published \subseteq Heads
    BY ProcessingAssumption DEF TypeOK, Heads
  <2>2. QED
    BY <2>1 DEF HeadsInv, QualityIsEarned
<1>2. QED
  BY <1>1, TypeCorrect, ProcessingInvariant, PTL

\* Readiness is dispatched only for heads that are published, bound and green.
THEOREM ReadinessGreen == Spec => []ReadinessIsGreen
<1>1. ProcessingInv => ReadinessIsGreen
  BY DEF ProcessingInv
<1>2. QED
  BY <1>1, ProcessingInvariant, PTL

\* A run that reports success has done all of it, and one that ended by itself decided.
THEOREM ReportsTrue == Spec => []ReportsAreTrue
<1>1. ProcessingInv => ReportsAreTrue
  <2> SUFFICES ASSUME ReportInv PROVE ReportsAreTrue
    BY DEF ProcessingInv
  <2>1. run.ok => FinalHead = run.commit
    BY DEF ReportInv, FinalHead
  <2>2. QED
    BY <2>1 DEF ReportInv, ReportsAreTrue
<1>2. QED
  BY <1>1, ProcessingInvariant, PTL

\* No run, killed or failed, takes back the quality gate of a published head.
THEOREM QualityFinal == Spec => QualityIsFinal
<1>1. TypeOK /\ [Next]_vars =>
        [\A head \in published : status[head].quality = "success" => status'[head].quality = "success"]_vars
  <2> SUFFICES ASSUME TypeOK, [Next]_vars
               PROVE  \A head \in published :
                        status[head].quality = "success" => status'[head].quality = "success"
    OBVIOUS
  <2>1. published \subseteq Heads
    BY ProcessingAssumption DEF TypeOK, Heads
  <2>2. QED
    BY <2>1, KeptStep DEF Kept
<1>2. QED
  BY <1>1, TypeCorrect, PTL DEF Spec, QualityIsFinal
\* A run moves the branch only forward, on top of what people pushed.
THEOREM PushesKept == Spec => PushedIsKept
<1>1. TypeOK /\ [Next]_vars => [remote' # remote => commits'[remote'].parent = remote]_vars
  <2> SUFFICES ASSUME TypeOK, [Next]_vars, remote' # remote
               PROVE  commits'[remote'].parent = remote
    OBVIOUS
  <2>1. HumanPush \/ Push
    BY DEF Next, People, Process, PrCatchesUp, Review, Merge, EnsureProductPr, Rerun, SourceCheck,
           RequireExpectedHead, ProcessAndCommit, VerifyRemoteHead, SetChangeset, SetQuality,
           DispatchReady, Report, Reconcile, Killed, Finalize, ChangesetReady, vars, branch
  <2>2. CASE HumanPush
    <3>1. PICK s \in Sources, exact \in BOOLEAN : NewCommit(remote, s, exact)
      BY <2>2 DEF HumanPush
    <3>2. remote \in 0..MaxCommits /\ remote' = made'
      BY <2>2, ProcessingAssumption DEF HumanPush, TypeOK, Heads
    <3>3. commits'[made'] = [parent |-> remote, src |-> s, exact |-> exact]
      BY <3>1, <3>2, NewCommitType
    <3>4. QED
      BY <3>2, <3>3
  <2>3. CASE Push
    BY <2>3 DEF Push, FastForward
  <2>4. QED
    BY <2>1, <2>2, <2>3
<1>2. QED
  BY <1>1, TypeCorrect, PTL DEF Spec, PushedIsKept
================================================================================
