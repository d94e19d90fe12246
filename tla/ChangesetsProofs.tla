-------------------------- MODULE ChangesetsProofs --------------------------
(***************************************************************************)
(* Proofs about Changesets, for any products, with and without strict      *)
(* branch protection, and any number of mishaps.                           *)
(***************************************************************************)
EXTENDS Changesets, TLAPS

(***************************************************************************)
(* Types                                                                   *)
(***************************************************************************)
MainType ==
  [defined : BOOLEAN, ready : Readiness, version : [Products -> Versions],
   bound : [Products -> BOOLEAN]]

CoordType ==
  [exists : BOOLEAN, open : BOOLEAN, green : BOOLEAN, current : BOOLEAN, ready : Readiness]

BranchType ==
  [state : {"none", "open", "merged"}, stage : {"marker", "prepared", "processed"},
   version : Versions, current : BOOLEAN, recorded : BOOLEAN, dispatched : BOOLEAN,
   changeset : {"none", "pending", "success"}, quality : BOOLEAN]

JobType ==
  [stage : {"idle", "track", "ensure", "count", "set"},
   todo : SUBSET Products, complete : BOOLEAN]

ReleaseType == [product : Products, version : Versions, bound : BOOLEAN]

LEMMA TypeOKUnfolds ==
  TypeOK <=>
    /\ main \in MainType /\ coord \in CoordType
    /\ pr \in [Products -> BranchType] /\ job \in JobType
    /\ released \subseteq ReleaseType /\ mishaps \in 0..MaxMishaps
BY DEF TypeOK, MainType, CoordType, BranchType, JobType, ReleaseType

LEMMA MishapType ==
  ASSUME mishaps \in 0..MaxMishaps, Mishap \/ UNCHANGED mishaps
  PROVE  mishaps' \in 0..MaxMishaps
BY ChangesetsAssumption DEF Mishap

LEMMA NewHeadType ==
  ASSUME NEW branch \in BranchType
  PROVE  NewHead(branch) \in BranchType
BY DEF NewHead, BranchType

LEMMA ProcessedType ==
  ASSUME pr \in [Products -> BranchType], NEW p \in Products, NEW steps \in 0..3
  PROVE  Processed(p, steps) \in BranchType
<1> DEFINE head == IF pr[p].stage = "processed" THEN pr[p]
                   ELSE [NewHead(pr[p]) EXCEPT !.stage = "processed"]
<1>1. head \in BranchType
  BY NewHeadType DEF BranchType
<1> HIDE DEF head
<1>2. [head EXCEPT !.changeset = IF steps >= 1 THEN "pending" ELSE @,
                   !.quality = @ \/ steps >= 2,
                   !.dispatched = @ \/ steps = 3] \in BranchType
  BY <1>1 DEF BranchType
<1> QED BY <1>2 DEF Processed, head

LEMMA DoneType ==
  ASSUME job \in JobType, NEW p \in Products
  PROVE  Done(p) \in JobType /\ NoJob \in JobType
BY DEF Done, NoJob, JobType

\* A push of a well-typed default branch publishes well-typed releases.
LEMMA PushType ==
  ASSUME TypeOK, NEW m \in MainType, NEW c \in CoordType, NEW b \in [Products -> BranchType],
         NEW direct \in SUBSET ReleaseType, Push(m, c, b, direct)
  PROVE  /\ main' \in MainType /\ coord' \in CoordType
         /\ pr' \in [Products -> BranchType] /\ released' \subseteq ReleaseType
<1>1. main' \in MainType
  BY DEF Push
<1>2. coord' \in CoordType
  BY DEF Push, CoordType
<1>3. pr' \in [Products -> BranchType]
  BY DEF Push, BranchType
<1>4. \A p \in PublishedBy(m, b) :
        [product |-> p, version |-> m.version[p], bound |-> m.bound[p]] \in ReleaseType
  BY DEF PublishedBy, Detected, MainType, ReleaseType
<1>5. released \subseteq ReleaseType
  BY TypeOKUnfolds
<1>6. released' \subseteq ReleaseType
  BY <1>4, <1>5 DEF Push
<1> QED BY <1>1, <1>2, <1>3, <1>6

LEMMA TypeInit == Init => TypeOK
<1> SUFFICES ASSUME Init PROVE TypeOK
  OBVIOUS
<1>1. main \in MainType
  BY ChangesetsAssumption DEF Init, MainType, Readiness, Versions, NotReady
<1>2. coord \in CoordType
  BY DEF Init, CoordType, Readiness, NotReady
<1>3. pr \in [Products -> BranchType]
  BY ChangesetsAssumption DEF Init, BranchType, Versions
<1>4. job \in JobType
  BY DEF Init, NoJob, JobType
<1>5. released \subseteq ReleaseType /\ mishaps \in 0..MaxMishaps
  BY ChangesetsAssumption DEF Init
<1> QED BY <1>1, <1>2, <1>3, <1>4, <1>5, TypeOKUnfolds

\* Types are kept: the actions that push, and the others.
LEMMA TypeStep ==
  ASSUME TypeOK, [Next]_vars
  PROVE  TypeOK'
<1>0. /\ main \in MainType /\ coord \in CoordType
      /\ pr \in [Products -> BranchType] /\ job \in JobType
      /\ released \subseteq ReleaseType /\ mishaps \in 0..MaxMishaps
  BY TypeOKUnfolds
<1>t. ASSUME main' \in MainType, coord' \in CoordType, pr' \in [Products -> BranchType],
             job' \in JobType, released' \subseteq ReleaseType,
             Mishap \/ UNCHANGED mishaps
      PROVE  TypeOK'
  BY <1>t, <1>0, MishapType DEF TypeOK, MainType, CoordType, BranchType, JobType, ReleaseType
<1>1. CASE Create
  <2>1. coord' \in CoordType /\ job' \in JobType
    BY <1>1, <1>0 DEF Create, CoordType, JobType
  <2> QED BY <2>1, <1>1, <1>0, <1>t DEF Create
<1>2. CASE EnsurePR
  <2>1. [coord EXCEPT !.open = TRUE, !.green = TRUE] \in CoordType
    BY <1>0 DEF CoordType
  <2>2. [job EXCEPT !.stage = "count"] \in JobType /\ NoJob \in JobType
    BY <1>0 DEF JobType, NoJob
  <2>3. coord' \in CoordType /\ job' \in JobType
    BY <2>1, <2>2, <1>2, <1>0 DEF EnsurePR
  <2> QED BY <2>3, <1>2, <1>0, <1>t DEF EnsurePR
<1>3. CASE Count
  <2>1. job' \in JobType
    BY <1>3, <1>0 DEF Count, JobType, Complete
  <2> QED BY <2>1, <1>3, <1>0, <1>t DEF Count
<1>4. CASE JobFails
  BY <1>4, <1>0, <1>t DEF JobFails, NoJob, JobType
<1>5. CASE MergeCoordination
  <2> DEFINE m == [main EXCEPT !.defined = TRUE, !.ready = coord.ready]
             c == [coord EXCEPT !.open = FALSE]
  <2>1. m \in MainType /\ c \in CoordType
    BY <1>0 DEF MainType, CoordType
  <2>2. Push(m, c, pr, {}) /\ UNCHANGED <<job, mishaps>>
    BY <1>5 DEF MergeCoordination
  <2> HIDE DEF m, c
  <2> QED BY <2>1, <2>2, <1>0, <1>t, PushType
<1>6. CASE UpdateCoordination
  <2>1. coord' \in CoordType
    BY <1>6, <1>0 DEF UpdateCoordination, CoordType
  <2> QED BY <2>1, <1>6, <1>0, <1>t DEF UpdateCoordination
<1>7. ASSUME NEW p \in Products, Track(p) PROVE TypeOK'
  <2>1. pr' \in [Products -> BranchType] /\ job' \in JobType
    BY <1>7, <1>0, DoneType DEF Track, BranchType
  <2> QED BY <2>1, <1>7, <1>0, <1>t DEF Track
<1>8. ASSUME NEW p \in Products, Sync(p) PROVE TypeOK'
  <2>1. main.version[p] + 1 \in Versions
    BY <1>8, <1>0, ChangesetsAssumption DEF Sync, MainType, Versions
  <2> DEFINE h == NewHead(pr[p])
             b == [h EXCEPT !.stage = "prepared", !.current = TRUE, !.version = main.version[p] + 1]
  <2>2. h \in BranchType
    BY <1>0, NewHeadType
  <2>3. pr' = [pr EXCEPT ![p] = b]
    BY <1>8 DEF Sync
  <2> HIDE DEF h
  <2>4. b \in BranchType
    BY <2>1, <2>2 DEF BranchType
  <2> HIDE DEF b
  <2>5. pr' \in [Products -> BranchType]
    BY <2>3, <2>4, <1>0
  <2> QED BY <2>5, <1>8, <1>0, <1>t DEF Sync
<1>9. ASSUME NEW p \in Products, Process(p) PROVE TypeOK'
  <2>1. PICK steps \in 0..3 : pr' = [pr EXCEPT ![p] = Processed(p, steps)]
    BY <1>9 DEF Process
  <2>2. pr' \in [Products -> BranchType]
    BY <2>1, <1>0, ProcessedType
  <2> QED BY <2>2, <1>9, <1>0, <1>t DEF Process
<1>10. ASSUME NEW p \in Products, HumanPush(p) PROVE TypeOK'
  <2>1. pr' \in [Products -> BranchType]
    BY <1>10, <1>0, NewHeadType DEF HumanPush
  <2> QED BY <2>1, <1>10, <1>0, <1>t DEF HumanPush
<1>11. ASSUME NEW p \in Products, Lose(p) \/ Redispatch(p) PROVE TypeOK'
  <2> DEFINE b(sent) == [pr[p] EXCEPT !.dispatched = sent]
  <2>1. \A sent \in BOOLEAN : b(sent) \in BranchType
    BY <1>0 DEF BranchType
  <2>2. pr' = [pr EXCEPT ![p] = b(FALSE)] \/ pr' = [pr EXCEPT ![p] = b(TRUE)]
    BY <1>11, <1>0 DEF Lose, Redispatch
  <2> HIDE DEF b
  <2>3. pr' \in [Products -> BranchType]
    BY <2>1, <2>2, <1>0
  <2> QED BY <2>3, <1>11, <1>0, <1>t DEF Lose, Redispatch
<1>12. ASSUME NEW p \in Products, RecordReady(p) PROVE TypeOK'
  <2> DEFINE b(rec) == [pr[p] EXCEPT !.dispatched = FALSE, !.recorded = rec]
             c == [coord EXCEPT !.ready[p] = pr[p].version, !.green = @ /\ pr[p].recorded]
  <2>1. pr[p] \in BranchType /\ pr[p].version \in Versions /\ pr[p].recorded \in BOOLEAN
    BY <1>0 DEF BranchType
  <2>2. \A rec \in BOOLEAN : b(rec) \in BranchType
    BY <2>1 DEF BranchType
  <2>3. pr' = [pr EXCEPT ![p] = b(TRUE)] \/ pr' = [pr EXCEPT ![p] = b(pr[p].recorded)]
    BY <1>12, <1>0, <2>1 DEF RecordReady, BranchType
  <2>4. c \in CoordType
    BY <2>1, <1>0 DEF CoordType, Readiness
  <2>5. coord' = c \/ coord' = coord
    BY <1>12 DEF RecordReady
  <2>6. job' \in JobType
    BY <1>12, <1>0 DEF RecordReady, JobType
  <2> HIDE DEF b, c
  <2>7. pr' \in [Products -> BranchType] /\ coord' \in CoordType
    BY <2>1, <2>2, <2>3, <2>4, <2>5, <1>0
  <2> QED BY <2>6, <2>7, <1>12, <1>0, <1>t DEF RecordReady
<1>13. ASSUME NEW p \in Products, SetTracking(p) PROVE TypeOK'
  <2>1. pr' \in [Products -> BranchType] /\ job' \in JobType
    BY <1>13, <1>0, DoneType DEF SetTracking, BranchType
  <2> QED BY <2>1, <1>13, <1>0, <1>t DEF SetTracking
<1>14. ASSUME NEW p \in Products, Merge(p) PROVE TypeOK'
  <2> DEFINE m == [main EXCEPT !.version[p] = pr[p].version, !.bound[p] = TRUE]
             b == [pr EXCEPT ![p].state = "merged"]
  <2>1. m \in MainType
    BY <1>0 DEF MainType, BranchType
  <2>2. b \in [Products -> BranchType]
    BY <1>0 DEF BranchType
  <2>3. Push(m, coord, b, {}) /\ UNCHANGED <<job, mishaps>>
    BY <1>14 DEF Merge
  <2> HIDE DEF m, b
  <2> QED BY <2>1, <2>2, <2>3, <1>0, <1>t, PushType
<1>15. ASSUME NEW p \in Products, IndependentUpdate(p) PROVE TypeOK'
  <2> DEFINE m == [main EXCEPT !.version[p] = @ + 1, !.bound[p] = FALSE]
             d == {[product |-> p, version |-> main.version[p] + 1, bound |-> FALSE]}
  <2>1. main.version[p] + 1 \in Versions
    BY <1>15, <1>0, ChangesetsAssumption DEF IndependentUpdate, MainType, Versions
  <2>2. m \in MainType
    BY <2>1, <1>0 DEF MainType
  <2>3. d \in SUBSET ReleaseType
    BY <2>1 DEF ReleaseType
  <2>4. Push(m, coord, pr, d) /\ Mishap /\ UNCHANGED job
    BY <1>15 DEF IndependentUpdate
  <2> HIDE DEF m, d
  <2> QED BY <2>2, <2>3, <2>4, <1>0, <1>t, PushType
<1>16. CASE UNCHANGED vars
  BY <1>16, <1>0, <1>t DEF vars
<1> QED BY <1>1, <1>2, <1>3, <1>4, <1>5, <1>6, <1>7, <1>8, <1>9, <1>10, <1>11, <1>12,
           <1>13, <1>14, <1>15, <1>16 DEF Next

\* Every variable keeps its type.
THEOREM TypeCorrect == Spec => []TypeOK
BY TypeInit, TypeStep, PTL DEF Spec

(***************************************************************************)
(* Steps that are no push                                                  *)
(***************************************************************************)
\* Recorded readiness is kept, and so is what was merged.
Kept(q) ==
  /\ coord.ready[q] # NotReady => coord'.ready[q] = coord.ready[q]
  /\ pr[q].state = "merged" =>
       pr'[q].state = "merged" /\ pr'[q].version = pr[q].version

Quiet ==
  /\ UNCHANGED <<main, released>>
  /\ \A q \in Products : Kept(q) /\ (pr'[q].state = "merged" => pr[q].state = "merged")

\* What is merged and released does not depend on anything but the pushes.
LEMMA QuietStep ==
  ASSUME ChangesetsInv, Quiet
  PROVE  /\ \A q \in Products : BranchInv(q)'
         /\ ReleasesAreWhole' /\ LastMergeReleases'
<1>1. \A q \in Products : HeadInv(q) /\ BranchInv(q)
  BY DEF ChangesetsInv
<1>2. ASSUME NEW q \in Products PROVE BranchInv(q)'
  BY <1>1 DEF Quiet, Kept, BranchInv
<1>3. ASSUME NEW q \in Products, coord.ready[q] # NotReady
      PROVE  BoundRelease(q)' = BoundRelease(q)
  BY <1>3 DEF Quiet, Kept, BoundRelease
<1>4. ReleasesAreWhole'
  <2>1. ReleasesAreWhole /\ released' = released
    BY DEF ChangesetsInv, Quiet
  <2>2. ASSUME NEW q \in Products, pr[q].state = "merged"
        PROVE  coord.ready[q] # NotReady /\ pr'[q].state = "merged"
    BY <2>2, <1>1 DEF HeadInv, Complete, Quiet, Kept
  <2> QED BY <2>1, <2>2, <1>3 DEF ReleasesAreWhole
<1>5. LastMergeReleases'
  <2>1. LastMergeReleases /\ released' = released /\ main' = main
    BY DEF ChangesetsInv, Quiet
  <2> SUFFICES ASSUME main.defined, Complete(main.ready),
                      \A q \in Products : pr'[q].state = "merged" /\ main.bound[q]
               PROVE  \A q \in Products : BoundRelease(q)' \in released'
    BY <2>1 DEF LastMergeReleases
  <2>2. \A q \in Products : pr[q].state = "merged"
    BY DEF Quiet
  <2>3. \A q \in Products : BoundRelease(q) \in released
    BY <2>1, <2>2 DEF LastMergeReleases
  <2>4. \A q \in Products : coord.ready[q] # NotReady
    BY <1>1 DEF BranchInv, Complete
  <2> QED BY <2>1, <2>3, <2>4, <1>3
<1> QED BY <1>2, <1>4, <1>5

\* A step that touches neither the heads nor what is recorded.
LEMMA NoHeadStep ==
  ASSUME ChangesetsInv, UNCHANGED <<main, released, pr>>, coord'.ready = coord.ready, JobInv'
  PROVE  ChangesetsInv'
<1>1. Quiet
  BY DEF Quiet, Kept
<1>2. ASSUME NEW q \in Products PROVE HeadInv(q)'
  BY DEF ChangesetsInv, HeadInv, Complete
<1> QED BY <1>1, <1>2, QuietStep DEF ChangesetsInv

\* A step of one pull request that records nothing new and merges nothing.
LEMMA OneHeadStep ==
  ASSUME TypeOK, ChangesetsInv, NEW p \in Products, NEW b \in BranchType,
         pr' = [pr EXCEPT ![p] = b], coord'.ready = coord.ready,
         UNCHANGED <<main, released>>,
         b.state = "merged" <=> pr[p].state = "merged",
         pr[p].state = "merged" => b.recorded,
         b.recorded => pr[p].recorded /\ b.version = pr[p].version /\ b.stage = "processed",
         b.state = "open" /\ b.changeset = "success" /\ b.quality =>
           b.recorded /\ Complete(coord.ready),
         JobInv'
  PROVE  ChangesetsInv'
<1>1. pr'[p] = b /\ \A q \in Products \ {p} : pr'[q] = pr[q]
  BY TypeOKUnfolds
<1>2. \A q \in Products : HeadInv(q)
  BY DEF ChangesetsInv
<1>3. Quiet
  BY <1>1 DEF Quiet, Kept
<1>4. Complete(coord.ready)' = Complete(coord.ready)
  BY DEF Complete
<1>5. HeadInv(p)'
  BY <1>1, <1>2, <1>4 DEF HeadInv
<1>6. ASSUME NEW q \in Products \ {p} PROVE HeadInv(q)'
  BY <1>1, <1>2, <1>4 DEF HeadInv
<1> QED BY <1>3, <1>5, <1>6, QuietStep DEF ChangesetsInv

\* A branch that may have lost its record, and no status with it, disturbs no run.
LEMMA JobInvKept ==
  ASSUME TypeOK, ChangesetsInv, NEW p \in Products, NEW b \in BranchType,
         pr' = [pr EXCEPT ![p] = b], UNCHANGED coord, UNCHANGED job,
         b.state = "open" /\ b.quality =>
           b.recorded \/ job.stage # "set"
  PROVE  JobInv'
<1>1. pr'[p] = b /\ \A q \in Products \ {p} : pr'[q] = pr[q]
  BY TypeOKUnfolds
<1> QED BY <1>1 DEF ChangesetsInv, JobInv, Complete

(***************************************************************************)
(* Pushes                                                                  *)
(***************************************************************************)
LEMMA PushFacts ==
  ASSUME NEW m, NEW c \in CoordType, NEW b \in [Products -> BranchType], NEW direct,
         Push(m, c, b, direct)
  PROVE  /\ main' = m /\ coord'.ready = c.ready
         /\ \A q \in Products :
              /\ pr'[q].state = b[q].state /\ pr'[q].stage = b[q].stage
              /\ pr'[q].version = b[q].version /\ pr'[q].recorded = b[q].recorded
              /\ pr'[q].changeset = b[q].changeset /\ pr'[q].quality = b[q].quality
BY DEF Push, CoordType, BranchType

\* A push publishes all of the changeset or nothing, and the last one does.
LEMMA PushPublishesWhole ==
  ASSUME ChangesetsInv,
         NEW m \in MainType, NEW c \in CoordType, NEW b \in [Products -> BranchType], NEW direct,
         Push(m, c, b, direct), c.ready = coord.ready,
         \A q \in Products : HeadInv(q)' /\ BranchInv(q)',
         \A q \in Products : pr[q].state = "merged" => b[q].state = "merged",
         \A r \in direct : ~r.bound,
         direct # {} => \E q \in Products : ~m.bound[q]
  PROVE  ReleasesAreWhole' /\ LastMergeReleases'
<1> DEFINE new == {[product |-> q, version |-> m.version[q], bound |-> m.bound[q]] :
                     q \in PublishedBy(m, b)}
<1>1. /\ main' = m /\ coord'.ready = coord.ready
      /\ \A q \in Products :
           /\ pr'[q].state = b[q].state /\ pr'[q].version = b[q].version
           /\ pr'[q].recorded = b[q].recorded
  BY PushFacts
<1>2. released' = released \cup direct \cup (IF direct # {} THEN {} ELSE new)
  BY DEF Push
<1>3. \A q \in Products : BoundRelease(q)' = BoundRelease(q)
  BY <1>1 DEF BoundRelease
<1>4. \A q \in Products : m.bound[q] \in BOOLEAN
  BY DEF MainType
<1>5. ASSUME Complete(m.ready), \A q \in Products : m.ready[q] = m.version[q],
             ReadinessVerified(b)
      PROVE  \A q \in Products : m.bound[q] /\ m.version[q] = coord.ready[q]
  BY <1>5, <1>1 DEF BranchInv, HeadInv, Complete, ReadinessVerified
<1>6. ASSUME m.defined, Complete(m.ready), \A q \in Products : m.ready[q] = m.version[q],
             ReadinessVerified(b), direct = {}
      PROVE  \A q \in Products : BoundRelease(q) \in released'
  <2>1. PublishedBy(m, b) = Products
    BY <1>6 DEF PublishedBy, Detected
  <2>2. ASSUME NEW q \in Products
        PROVE  [product |-> q, version |-> m.version[q], bound |-> m.bound[q]] = BoundRelease(q)
    BY <1>4, <1>5, <1>6 DEF BoundRelease
  <2>3. ASSUME NEW q \in Products PROVE BoundRelease(q) \in new
    BY <2>1, <2>2
  <2> QED BY <2>3, <1>2, <1>6
<1>7. ReleasesAreWhole'
  <2> SUFFICES ASSUME NEW r \in released', r.bound, NEW q \in Products
               PROVE  pr'[q].state = "merged" /\ BoundRelease(q) \in released'
    BY <1>3 DEF ReleasesAreWhole
  <2>1. CASE r \in released
    <3>1. pr[q].state = "merged" /\ BoundRelease(q) \in released
      BY <2>1 DEF ChangesetsInv, ReleasesAreWhole
    <3> QED BY <3>1, <1>1, <1>2
  <2>2. CASE r \notin released
    <3>1. direct = {} /\ r \in new
      BY <2>2, <1>2
    <3>2. PICK q0 \in PublishedBy(m, b) : m.bound[q0]
      BY <3>1
    <3>3. /\ m.defined /\ Complete(m.ready) /\ \A x \in Products : m.ready[x] = m.version[x]
          /\ ReadinessVerified(b)
      BY <3>2 DEF PublishedBy, Detected
    <3> QED BY <3>1, <3>3, <1>1, <1>6 DEF ReadinessVerified
  <2> QED BY <2>1, <2>2
<1>8. LastMergeReleases'
  <2> SUFFICES ASSUME m.defined, Complete(m.ready),
                      \A q \in Products : b[q].state = "merged" /\ m.bound[q]
               PROVE  \A q \in Products : BoundRelease(q) \in released'
    BY <1>1, <1>3 DEF LastMergeReleases
  <2>1. direct = {}
    OBVIOUS
  <2>2. ReadinessVerified(b) /\ \A q \in Products : m.ready[q] = m.version[q]
    BY <1>1 DEF HeadInv, BranchInv, Complete, ReadinessVerified
  <2> QED BY <2>1, <2>2, <1>6
<1> QED BY <1>7, <1>8

(***************************************************************************)
(* The invariant                                                           *)
(***************************************************************************)
LEMMA InvInit ==
  ASSUME Init
  PROVE  ChangesetsInv
<1>1. \A p \in Products : HeadInv(p) /\ BranchInv(p)
  BY DEF Init, HeadInv, BranchInv
<1>2. JobInv
  BY DEF Init, NoJob, JobInv
<1>3. ReleasesAreWhole /\ LastMergeReleases
  BY DEF Init, ReleasesAreWhole, LastMergeReleases
<1> QED BY <1>1, <1>2, <1>3 DEF ChangesetsInv

\* The types of one branch, and of the others.
LEMMA HeadType ==
  ASSUME TypeOK, NEW p \in Products
  PROVE  /\ pr[p] \in BranchType /\ pr \in [Products -> BranchType]
         /\ pr[p].version \in Nat \ {NotReady} /\ pr[p].recorded \in BOOLEAN
         /\ pr[p].quality \in BOOLEAN /\ pr[p].dispatched \in BOOLEAN
BY TypeOKUnfolds DEF BranchType, Versions, NotReady

\* A new head: nothing is recorded and no status is set.
LEMMA NewHeadStep ==
  ASSUME TypeOK, ChangesetsInv, NEW p \in Products, NEW b \in BranchType,
         pr' = [pr EXCEPT ![p] = b], pr[p].state = "open", b.state = "open",
         ~b.recorded, b.changeset # "success",
         job.stage = "set" => ~b.quality,
         UNCHANGED <<main, coord, job, released>>
  PROVE  ChangesetsInv'
<1>1. JobInv'
  BY JobInvKept
<1> QED BY <1>1, OneHeadStep

LEMMA SyncInv ==
  ASSUME TypeOK, ChangesetsInv, NEW p \in Products, Sync(p)
  PROVE  ChangesetsInv'
<1> DEFINE h == NewHead(pr[p])
           b == [h EXCEPT !.stage = "prepared", !.current = TRUE, !.version = main.version[p] + 1]
<1>1. h \in BranchType
  BY HeadType, NewHeadType
<1>2. main.version[p] + 1 \in Versions
  BY TypeOKUnfolds, ChangesetsAssumption DEF Sync, MainType, Versions
<1>3. h.state = pr[p].state /\ ~h.recorded /\ h.changeset # "success" /\ ~h.quality
  BY HeadType DEF NewHead, BranchType
<1>4. pr' = [pr EXCEPT ![p] = b] /\ pr[p].state = "open" /\ UNCHANGED <<main, coord, job, released>>
  BY DEF Sync
<1> HIDE DEF h
<1>5. b \in BranchType
  BY <1>1, <1>2 DEF BranchType
<1>6. b.state = pr[p].state /\ ~b.recorded /\ b.changeset # "success" /\ ~b.quality
  BY <1>1, <1>3 DEF BranchType
<1> HIDE DEF b
<1> QED BY <1>4, <1>5, <1>6, NewHeadStep

LEMMA HumanPushInv ==
  ASSUME TypeOK, ChangesetsInv, NEW p \in Products, HumanPush(p)
  PROVE  ChangesetsInv'
<1>1. NewHead(pr[p]) \in BranchType
  BY HeadType, NewHeadType
<1>2. LET b == NewHead(pr[p])
      IN  b.state = pr[p].state /\ ~b.recorded /\ b.changeset # "success" /\ ~b.quality
  BY HeadType DEF NewHead, BranchType
<1> QED BY <1>1, <1>2, NewHeadStep DEF HumanPush

\* Processing waits for the concurrency group, and resets the statuses in this order.
LEMMA ProcessInv ==
  ASSUME TypeOK, ChangesetsInv, NEW p \in Products, Process(p)
  PROVE  ChangesetsInv'
<1>1. PICK steps \in 0..3 : pr' = [pr EXCEPT ![p] = Processed(p, steps)]
  BY DEF Process
<1>2. /\ job = NoJob /\ pr[p].state = "open" /\ UNCHANGED <<main, coord, job, released>>
  BY DEF Process, Idle
<1> DEFINE b == Processed(p, steps)
<1>3. b \in BranchType
  BY HeadType, ProcessedType
<1>4. job.stage # "set"
  BY <1>2 DEF NoJob
<1>5. b.state = "open" /\ (steps >= 1 => b.changeset = "pending")
  BY <1>2, HeadType DEF Processed, NewHead, BranchType
<1>6. CASE pr[p].stage = "processed"
  <2>1. /\ b.recorded = pr[p].recorded /\ b.version = pr[p].version /\ b.stage = "processed"
        /\ steps = 0 => b.changeset = pr[p].changeset /\ (b.quality <=> pr[p].quality)
    BY <1>6, HeadType DEF Processed, BranchType
  <2> HIDE DEF b
  <2>2. b.changeset = "success" => steps = 0
    BY <1>5
  <2>3. b.changeset = "success" /\ b.quality => b.recorded /\ Complete(coord.ready)
    BY <2>1, <2>2, <1>2 DEF ChangesetsInv, HeadInv
  <2>4. JobInv'
    BY <1>1, <1>2, <1>3, <1>4, JobInvKept DEF b
  <2> QED BY <1>1, <1>2, <1>3, <1>5, <2>1, <2>3, <2>4, OneHeadStep DEF b
<1>7. CASE pr[p].stage # "processed"
  <2>1. ~b.recorded /\ b.changeset # "success"
    BY <1>7, HeadType DEF Processed, NewHead, BranchType
  <2> QED BY <1>1, <1>2, <1>3, <1>4, <1>5, <2>1, NewHeadStep
<1> QED BY <1>6, <1>7

LEMMA DispatchInv ==
  ASSUME TypeOK, ChangesetsInv, NEW p \in Products, Lose(p) \/ Redispatch(p)
  PROVE  ChangesetsInv'
<1> DEFINE b(sent) == [pr[p] EXCEPT !.dispatched = sent]
<1>1. PICK sent \in BOOLEAN : pr' = [pr EXCEPT ![p] = b(sent)]
  BY HeadType DEF Lose, Redispatch
<1>2. UNCHANGED <<main, coord, job, released>>
  BY DEF Lose, Redispatch
<1>3. b(sent) \in BranchType
  BY HeadType DEF BranchType
<1>4. /\ b(sent).state = pr[p].state /\ b(sent).recorded = pr[p].recorded
      /\ b(sent).version = pr[p].version /\ b(sent).stage = pr[p].stage
      /\ b(sent).changeset = pr[p].changeset /\ b(sent).quality = pr[p].quality
  BY HeadType DEF BranchType
<1> HIDE DEF b
<1>5. HeadInv(p)
  BY DEF ChangesetsInv
<1>6. JobInv'
  <2>1. pr'[p] = b(sent) /\ \A q \in Products \ {p} : pr'[q] = pr[q]
    BY <1>1, HeadType
  <2> QED BY <1>2, <1>4, <2>1 DEF ChangesetsInv, JobInv, Complete
<1> QED BY <1>1, <1>2, <1>3, <1>4, <1>5, <1>6, OneHeadStep DEF HeadInv

\* The statuses a run sets.
LEMMA StatusStep ==
  ASSUME TypeOK, ChangesetsInv, NEW p \in Products, NEW b \in BranchType,
         pr' = [pr EXCEPT ![p] = b], UNCHANGED <<main, coord, released>>,
         b.state = pr[p].state \/ (pr[p].state = "none" /\ b.state = "open"),
         b.recorded = pr[p].recorded, b.version = pr[p].version, b.stage = pr[p].stage,
         b.changeset = "success" /\ b.state = "open" /\ b.quality =>
           b.recorded /\ Complete(coord.ready),
         JobInv'
  PROVE  ChangesetsInv'
<1>1. HeadInv(p)
  BY DEF ChangesetsInv
<1> QED BY <1>1, OneHeadStep DEF HeadInv

LEMMA DoneJob ==
  ASSUME TypeOK, NEW p \in Products
  PROVE  \/ Done(p) = NoJob
         \/ Done(p).stage = job.stage /\ Done(p).complete = job.complete
BY TypeOKUnfolds DEF Done, JobType

LEMMA TrackInv ==
  ASSUME TypeOK, ChangesetsInv, NEW p \in Products, Track(p)
  PROVE  ChangesetsInv'
<1>1. job.stage = "track" /\ UNCHANGED <<main, coord, released>>
  BY DEF Track
<1>2. job'.stage # "set"
  BY <1>1, DoneJob DEF Track, NoJob
<1>3. JobInv'
  BY <1>2 DEF JobInv
<1>4. CASE UNCHANGED pr
  BY <1>1, <1>3, <1>4, NoHeadStep
<1>5. CASE ~UNCHANGED pr
  <2> DEFINE b == [pr[p] EXCEPT !.state = "open", !.changeset = "pending",
                                !.current = @ \/ pr[p].state = "none"]
  <2>1. /\ pr[p].state \in {"none", "open"}
        /\ pr' = [pr EXCEPT ![p].state = "open", ![p].changeset = "pending",
                            ![p].current = @ \/ pr[p].state = "none"]
    BY <1>5 DEF Track
  <2>2. pr' = [pr EXCEPT ![p] = b]
    BY <2>1, HeadType DEF BranchType
  <2>3. b \in BranchType
    BY HeadType DEF BranchType
  <2>4. /\ b.state = "open" /\ b.recorded = pr[p].recorded /\ b.version = pr[p].version
        /\ b.stage = pr[p].stage /\ b.changeset # "success"
    BY HeadType DEF BranchType
  <2> HIDE DEF b
  <2> QED BY <1>1, <1>3, <2>1, <2>2, <2>3, <2>4, StatusStep
<1> QED BY <1>4, <1>5

\* Success reaches a head that got its quality status before the run only if recorded.
LEMMA SetTrackingInv ==
  ASSUME TypeOK, ChangesetsInv, NEW p \in Products, SetTracking(p)
  PROVE  ChangesetsInv'
<1>1. job.stage = "set" /\ UNCHANGED <<main, coord, released>> /\ job' = Done(p)
  BY DEF SetTracking
<1>2. job'.stage = "set" => job'.complete = job.complete
  BY <1>1, DoneJob DEF NoJob
<1>3. CASE pr[p].state # "open"
  <2>1. UNCHANGED pr
    BY <1>3 DEF SetTracking
  <2>2. JobInv'
    BY <1>1, <1>2, <2>1 DEF ChangesetsInv, JobInv, Complete
  <2> QED BY <1>1, <2>1, <2>2, NoHeadStep
<1>4. CASE pr[p].state = "open"
  <2> DEFINE b == [pr[p] EXCEPT !.changeset = IF job.complete THEN "success" ELSE "pending"]
  <2>1. pr' = [pr EXCEPT ![p] = b]
    BY <1>4 DEF SetTracking
  <2>2. b \in BranchType
    BY HeadType DEF BranchType
  <2>3. /\ b.state = pr[p].state /\ b.recorded = pr[p].recorded /\ b.version = pr[p].version
        /\ b.stage = pr[p].stage /\ b.quality = pr[p].quality
        /\ b.changeset = "success" => job.complete
    BY HeadType DEF BranchType
  <2> HIDE DEF b
  <2>4. b.changeset = "success" /\ b.quality => b.recorded /\ Complete(coord.ready)
    BY <1>1, <1>4, <2>3 DEF ChangesetsInv, JobInv
  <2>5. pr'[p] = b /\ \A q \in Products \ {p} : pr'[q] = pr[q]
    BY <2>1, HeadType
  <2>6. JobInv'
    BY <1>1, <1>2, <2>3, <2>5 DEF ChangesetsInv, JobInv, Complete
  <2> QED BY <1>1, <2>1, <2>2, <2>3, <2>4, <2>6, StatusStep
<1> QED BY <1>3, <1>4

\* A product is recorded at one head: the first, or the same again.
LEMMA RecordReadyInv ==
  ASSUME TypeOK, ChangesetsInv, NEW p \in Products, RecordReady(p)
  PROVE  ChangesetsInv'
<1> DEFINE b(rec) == [pr[p] EXCEPT !.dispatched = FALSE, !.recorded = rec]
           Records == /\ coord.exists /\ pr[p].stage = "processed"
                      /\ coord.ready[p] = NotReady \/ pr[p].recorded
<1>1. UNCHANGED <<main, released>> /\ job = NoJob
  BY DEF RecordReady, Idle
<1>2. JobInv'
  <2>1. job'.stage # "set"
    BY <1>1, TypeOKUnfolds DEF RecordReady, NoJob, JobType
  <2> QED BY <2>1 DEF JobInv
<1>3. ASSUME NEW rec \in BOOLEAN
      PROVE  /\ b(rec) \in BranchType /\ b(rec).state = pr[p].state
             /\ b(rec).recorded = rec /\ b(rec).version = pr[p].version
             /\ b(rec).stage = pr[p].stage /\ b(rec).changeset = pr[p].changeset
             /\ b(rec).quality = pr[p].quality
  BY HeadType DEF BranchType
<1>4. \A q \in Products : HeadInv(q) /\ BranchInv(q)
  BY DEF ChangesetsInv
<1>5. CASE ~Records
  <2>1. pr' = [pr EXCEPT ![p] = b(pr[p].recorded)] /\ UNCHANGED coord
    BY <1>5, HeadType DEF RecordReady, BranchType
  <2> DEFINE head == b(pr[p].recorded)
  <2>2. /\ head \in BranchType /\ head.state = pr[p].state
        /\ head.recorded = pr[p].recorded /\ head.version = pr[p].version
        /\ head.stage = pr[p].stage /\ head.changeset = pr[p].changeset
        /\ head.quality = pr[p].quality
    BY <1>3, HeadType
  <2>3. pr' = [pr EXCEPT ![p] = head]
    BY <2>1
  <2> HIDE DEF head
  <2>4. head.changeset = "success" /\ head.state = "open" /\ head.quality =>
          head.recorded /\ Complete(coord.ready)
    BY <1>4, <2>2 DEF HeadInv
  <2> QED BY <1>1, <1>2, <2>1, <2>2, <2>3, <2>4, StatusStep
<1>6. CASE Records
  <2>1. /\ pr' = [pr EXCEPT ![p] = b(TRUE)]
        /\ coord' = [coord EXCEPT !.ready[p] = pr[p].version, !.green = @ /\ pr[p].recorded]
    BY <1>6, HeadType DEF RecordReady, BranchType
  <2>2. pr'[p] = b(TRUE) /\ \A q \in Products \ {p} : pr'[q] = pr[q]
    BY <2>1, HeadType
  <2>3. /\ coord'.ready[p] = pr[p].version
        /\ \A q \in Products \ {p} : coord'.ready[q] = coord.ready[q]
    BY <2>1, TypeOKUnfolds DEF CoordType, Readiness
  <2>4. /\ pr'[p].state = pr[p].state /\ pr'[p].version = pr[p].version
        /\ pr'[p].stage = "processed" /\ pr'[p].recorded
        /\ pr'[p].changeset = pr[p].changeset /\ pr'[p].quality = pr[p].quality
    BY <1>3, <1>6, <2>2
  <2> HIDE DEF b
  <2>5. coord.ready[p] # NotReady => coord.ready[p] = pr[p].version
    BY <1>4, <1>6 DEF HeadInv
  <2>6. Complete(coord.ready) => Complete(coord.ready)'
    BY <2>3, HeadType DEF Complete
  <2>7. Quiet
    BY <1>1, <2>2, <2>3, <2>4, <2>5 DEF Quiet, Kept
  <2>8. HeadInv(p)'
    BY <1>4, <2>3, <2>4, <2>6 DEF HeadInv
  <2>9. ASSUME NEW q \in Products \ {p} PROVE HeadInv(q)'
    BY <1>4, <2>2, <2>3, <2>6 DEF HeadInv
  <2> QED BY <1>2, <2>7, <2>8, <2>9, QuietStep DEF ChangesetsInv
<1> QED BY <1>5, <1>6

\* The runs between two statuses, and what people do to the coordination branch.
LEMMA CoordinationInv ==
  ASSUME TypeOK, ChangesetsInv, Create \/ EnsurePR \/ Count \/ JobFails \/ UpdateCoordination
  PROVE  ChangesetsInv'
<1>1. UNCHANGED <<main, pr, released>>
  BY DEF Create, EnsurePR, Count, JobFails, UpdateCoordination
<1>2. coord'.ready = coord.ready
  BY TypeOKUnfolds DEF Create, EnsurePR, Count, JobFails, UpdateCoordination, CoordType
<1>3. JobInv'
  <2>1. CASE Create \/ EnsurePR \/ JobFails
    <3>1. job' \in {NoJob, [job EXCEPT !.stage = "count"],
                   [job EXCEPT !.stage = "track", !.todo = Products]}
      <4>1. CASE Create BY <4>1 DEF Create
      <4>2. CASE EnsurePR BY <4>2 DEF EnsurePR
      <4>3. CASE JobFails BY <4>3 DEF JobFails
      <4> QED BY <2>1, <4>1, <4>2, <4>3
    <3>2. /\ NoJob.stage # "set" /\ [job EXCEPT !.stage = "count"].stage # "set"
          /\ [job EXCEPT !.stage = "track", !.todo = Products].stage # "set"
      <4>1. job \in JobType
        BY TypeOKUnfolds
      <4> QED BY <4>1 DEF NoJob, JobType
    <3> QED BY <3>1, <3>2 DEF JobInv
  <2>2. CASE Count
    BY <2>2, <1>1, <1>2 DEF Count, JobInv, Complete
  <2>3. CASE UpdateCoordination
    BY <2>3, <1>1, <1>2 DEF UpdateCoordination, ChangesetsInv, JobInv, Complete
  <2> QED BY <2>1, <2>2, <2>3
<1> QED BY <1>1, <1>2, <1>3, NoHeadStep

LEMMA MergeCoordinationInv ==
  ASSUME TypeOK, ChangesetsInv, MergeCoordination
  PROVE  ChangesetsInv'
<1> DEFINE m == [main EXCEPT !.defined = TRUE, !.ready = coord.ready]
           c == [coord EXCEPT !.open = FALSE]
<1>1. m \in MainType /\ m.ready = coord.ready /\ m.version = main.version /\ m.bound = main.bound
  BY TypeOKUnfolds DEF MainType, CoordType
<1>2. c \in CoordType /\ c.ready = coord.ready
  BY TypeOKUnfolds DEF CoordType
<1>3. Push(m, c, pr, {}) /\ UNCHANGED job
  BY DEF MergeCoordination
<1>4. pr \in [Products -> BranchType]
  BY TypeOKUnfolds
<1> HIDE DEF m, c
<1>5. /\ main' = m /\ coord'.ready = coord.ready
      /\ \A q \in Products :
           /\ pr'[q].state = pr[q].state /\ pr'[q].stage = pr[q].stage
           /\ pr'[q].version = pr[q].version /\ pr'[q].recorded = pr[q].recorded
           /\ pr'[q].changeset = pr[q].changeset /\ pr'[q].quality = pr[q].quality
  BY <1>2, <1>3, <1>4, PushFacts
<1>6. ASSUME NEW q \in Products PROVE HeadInv(q)' /\ BranchInv(q)'
  <2>1. HeadInv(q) /\ BranchInv(q)
    BY DEF ChangesetsInv
  <2> QED BY <1>1, <1>5, <2>1 DEF HeadInv, BranchInv, Complete
<1>7. ReleasesAreWhole' /\ LastMergeReleases'
  BY <1>1, <1>2, <1>3, <1>4, <1>6, PushPublishesWhole
<1>8. JobInv'
  BY <1>3, <1>5 DEF ChangesetsInv, JobInv, Complete
<1> QED BY <1>6, <1>7, <1>8 DEF ChangesetsInv

\* Both statuses are on the live head: it is the recorded one.
LEMMA MergeInv ==
  ASSUME TypeOK, ChangesetsInv, NEW p \in Products, Merge(p)
  PROVE  ChangesetsInv'
<1> DEFINE m == [main EXCEPT !.version[p] = pr[p].version, !.bound[p] = TRUE]
           b == [pr EXCEPT ![p].state = "merged"]
<1>1. /\ m \in MainType /\ m.ready = main.ready
      /\ m.version[p] = pr[p].version /\ m.bound[p]
      /\ \A q \in Products \ {p} : m.version[q] = main.version[q] /\ m.bound[q] = main.bound[q]
  BY TypeOKUnfolds DEF MainType, BranchType
<1>2. /\ b \in [Products -> BranchType] /\ b[p].state = "merged"
      /\ b[p].stage = pr[p].stage /\ b[p].version = pr[p].version
      /\ b[p].recorded = pr[p].recorded
      /\ \A q \in Products \ {p} : b[q] = pr[q]
  BY TypeOKUnfolds DEF BranchType
<1>3. Push(m, coord, b, {}) /\ UNCHANGED job /\ MergeAllowed(p)
  BY DEF Merge
<1>4. coord \in CoordType
  BY TypeOKUnfolds
<1> HIDE DEF m, b
<1>5. /\ main' = m /\ coord'.ready = coord.ready
      /\ \A q \in Products :
           /\ pr'[q].state = b[q].state /\ pr'[q].stage = b[q].stage
           /\ pr'[q].version = b[q].version /\ pr'[q].recorded = b[q].recorded
           /\ pr'[q].changeset = b[q].changeset /\ pr'[q].quality = b[q].quality
  BY <1>2, <1>3, <1>4, PushFacts
<1>6. pr[p].recorded /\ Complete(coord.ready)
  BY <1>3 DEF ChangesetsInv, HeadInv, MergeAllowed
<1>7. HeadInv(p)' /\ BranchInv(p)'
  <2>1. HeadInv(p) /\ BranchInv(p)
    BY DEF ChangesetsInv
  <2>2. HeadInv(p)'
    BY <1>2, <1>5, <1>6, <2>1 DEF HeadInv, Complete
  <2>3. BranchInv(p)'
    BY <1>1, <1>2, <1>5, <2>1, HeadType DEF BranchInv
  <2> QED BY <2>2, <2>3
<1>8. ASSUME NEW q \in Products \ {p} PROVE HeadInv(q)' /\ BranchInv(q)'
  <2>1. HeadInv(q) /\ BranchInv(q)
    BY DEF ChangesetsInv
  <2> QED BY <1>1, <1>2, <1>5, <2>1 DEF HeadInv, BranchInv, Complete
<1>9. ReleasesAreWhole' /\ LastMergeReleases'
  <2>1. \A q \in Products : pr[q].state = "merged" => b[q].state = "merged"
    BY <1>2
  <2> QED BY <1>1, <1>2, <1>3, <1>4, <1>7, <1>8, <2>1, PushPublishesWhole
<1>10. JobInv'
  <2>1. JobInv
    BY DEF ChangesetsInv
  <2> QED BY <1>2, <1>3, <1>5, <2>1 DEF JobInv, Complete
<1> QED BY <1>7, <1>8, <1>9, <1>10 DEF ChangesetsInv

LEMMA IndependentUpdateInv ==
  ASSUME TypeOK, ChangesetsInv, NEW p \in Products, IndependentUpdate(p)
  PROVE  ChangesetsInv'
<1> DEFINE m == [main EXCEPT !.version[p] = @ + 1, !.bound[p] = FALSE]
           d == {[product |-> p, version |-> main.version[p] + 1, bound |-> FALSE]}
<1>1. main.version[p] \in Nat /\ main.version[p] + 1 \in Versions
  BY TypeOKUnfolds, ChangesetsAssumption DEF IndependentUpdate, MainType, Versions
<1>2. /\ m \in MainType /\ m.ready = main.ready
      /\ m.version[p] = main.version[p] + 1 /\ ~m.bound[p]
      /\ \A q \in Products \ {p} : m.version[q] = main.version[q] /\ m.bound[q] = main.bound[q]
  BY <1>1, TypeOKUnfolds DEF MainType
<1>3. Push(m, coord, pr, d) /\ UNCHANGED job
  BY DEF IndependentUpdate
<1>4. coord \in CoordType /\ pr \in [Products -> BranchType]
  BY TypeOKUnfolds
<1>5. d # {} /\ \A r \in d : ~r.bound
  OBVIOUS
<1> HIDE DEF m, d
<1>6. /\ main' = m /\ coord'.ready = coord.ready
      /\ \A q \in Products :
           /\ pr'[q].state = pr[q].state /\ pr'[q].stage = pr[q].stage
           /\ pr'[q].version = pr[q].version /\ pr'[q].recorded = pr[q].recorded
           /\ pr'[q].changeset = pr[q].changeset /\ pr'[q].quality = pr[q].quality
  BY <1>3, <1>4, PushFacts
<1>7. ASSUME NEW q \in Products PROVE HeadInv(q)' /\ BranchInv(q)'
  <2>1. HeadInv(q) /\ BranchInv(q)
    BY DEF ChangesetsInv
  <2>2. HeadInv(q)'
    BY <1>6, <2>1 DEF HeadInv, Complete
  <2>3. BranchInv(q)'
    <3>1. CASE q = p
      BY <3>1, <1>1, <1>2, <1>6, <2>1, HeadType DEF BranchInv
    <3>2. CASE q # p
      BY <3>2, <1>2, <1>6, <2>1 DEF BranchInv
    <3> QED BY <3>1, <3>2
  <2> QED BY <2>2, <2>3
<1>8. ReleasesAreWhole' /\ LastMergeReleases'
  BY <1>2, <1>3, <1>4, <1>5, <1>7, PushPublishesWhole
<1>9. JobInv'
  BY <1>3, <1>6 DEF ChangesetsInv, JobInv, Complete
<1> QED BY <1>7, <1>8, <1>9 DEF ChangesetsInv

LEMMA InvStep ==
  ASSUME TypeOK, ChangesetsInv, [Next]_vars
  PROVE  ChangesetsInv'
<1>1. CASE UNCHANGED vars
  BY <1>1 DEF vars, ChangesetsInv, HeadInv, BranchInv, JobInv, ReleasesAreWhole,
              LastMergeReleases, BoundRelease, Complete
<1>2. CASE Next
  BY <1>2, CoordinationInv, MergeCoordinationInv, TrackInv, SyncInv, ProcessInv, HumanPushInv,
     DispatchInv, RecordReadyInv, SetTrackingInv, MergeInv, IndependentUpdateInv DEF Next
<1> QED BY <1>1, <1>2

\* The invariant holds for any products and any bound on what goes wrong.
THEOREM ChangesetsInvariant == Spec => []ChangesetsInv
<1>1. Init => ChangesetsInv
  BY InvInit
<1>2. TypeOK /\ TypeOK' /\ ChangesetsInv /\ [Next]_vars => ChangesetsInv'
  BY InvStep
<1> QED BY <1>1, <1>2, TypeCorrect, PTL DEF Spec

\* A tracking pull request is merged only at the head its readiness records.
THEOREM MergedAtHeads == Spec => []MergedAtRecordedHeads
<1>1. ChangesetsInv => MergedAtRecordedHeads
  BY DEF ChangesetsInv, HeadInv, MergedAtRecordedHeads
<1> QED BY <1>1, ChangesetsInvariant, PTL

\* What is published for a changeset is all of it, at the recorded versions.
THEOREM WholeReleases == Spec => []ReleasesAreWhole
<1>1. ChangesetsInv => ReleasesAreWhole
  BY DEF ChangesetsInv
<1> QED BY <1>1, ChangesetsInvariant, PTL

\* The last merge releases the changeset, whichever it is.
THEOREM LastMerge == Spec => []LastMergeReleases
<1>1. ChangesetsInv => LastMergeReleases
  BY DEF ChangesetsInv
<1> QED BY <1>1, ChangesetsInvariant, PTL

(***************************************************************************)
(* Readiness is final                                                      *)
(***************************************************************************)
\* What is recorded of a product stays, and no other head becomes the recorded one.
Final(q) ==
  coord.ready[q] # NotReady =>
    coord'.ready[q] = coord.ready[q] /\ (pr'[q].recorded => pr[q].recorded)

LEMMA OneHeadIsFinal ==
  ASSUME TypeOK, NEW p \in Products, NEW b, pr' = [pr EXCEPT ![p] = b],
         coord'.ready = coord.ready, b.recorded => pr[p].recorded
  PROVE  \A q \in Products : Final(q)
<1>1. pr'[p] = b /\ \A q \in Products \ {p} : pr'[q] = pr[q]
  BY TypeOKUnfolds
<1> QED BY <1>1 DEF Final

LEMMA TrackingIsFinal ==
  ASSUME TypeOK, NEW p \in Products, Track(p) \/ SetTracking(p) \/ Lose(p) \/ Redispatch(p)
  PROVE  \A q \in Products : Final(q)
<1>1. UNCHANGED coord
  BY DEF Track, SetTracking, Lose, Redispatch
<1>2. ASSUME NEW q \in Products PROVE pr'[q].recorded = pr[q].recorded
  <2>1. CASE Track(p)
    BY <2>1, HeadType DEF Track, BranchType
  <2>2. CASE SetTracking(p)
    BY <2>2, HeadType DEF SetTracking, BranchType
  <2>3. CASE Lose(p) \/ Redispatch(p)
    BY <2>3, HeadType DEF Lose, Redispatch, BranchType
  <2> QED BY <2>1, <2>2, <2>3
<1> QED BY <1>1, <1>2 DEF Final

LEMMA HeadsAreFinal ==
  ASSUME TypeOK, NEW p \in Products, Sync(p) \/ HumanPush(p) \/ Process(p)
  PROVE  \A q \in Products : Final(q)
<1>1. NewHead(pr[p]) \in BranchType /\ ~NewHead(pr[p]).recorded
  <2>1. ~NewHead(pr[p]).recorded
    BY HeadType DEF NewHead, BranchType
  <2> QED BY <2>1, HeadType, NewHeadType
<1>2. CASE Sync(p)
  <2> DEFINE h == NewHead(pr[p])
             b == [h EXCEPT !.stage = "prepared", !.current = TRUE, !.version = main.version[p] + 1]
  <2>1. pr' = [pr EXCEPT ![p] = b] /\ UNCHANGED coord
    BY <1>2 DEF Sync
  <2> HIDE DEF h
  <2>2. ~b.recorded
    BY <1>1 DEF BranchType, h
  <2> HIDE DEF b
  <2> QED BY <2>1, <2>2, OneHeadIsFinal
<1>3. CASE HumanPush(p)
  BY <1>1, <1>3, OneHeadIsFinal DEF HumanPush
<1>4. CASE Process(p)
  <2>1. PICK steps \in 0..3 : pr' = [pr EXCEPT ![p] = Processed(p, steps)]
    BY <1>4 DEF Process
  <2>2. Processed(p, steps).recorded => pr[p].recorded
    BY HeadType DEF Processed, NewHead, BranchType
  <2>3. UNCHANGED coord
    BY <1>4 DEF Process
  <2> QED BY <2>1, <2>2, <2>3, OneHeadIsFinal
<1> QED BY <1>2, <1>3, <1>4

LEMMA RecordReadyIsFinal ==
  ASSUME TypeOK, ChangesetsInv, NEW p \in Products, RecordReady(p)
  PROVE  \A q \in Products : Final(q)
<1>1. CASE UNCHANGED coord /\ pr' = [pr EXCEPT ![p].dispatched = FALSE]
  <2>1. ASSUME NEW q \in Products PROVE pr'[q].recorded = pr[q].recorded
    BY <1>1, HeadType DEF BranchType
  <2> QED BY <1>1, <2>1 DEF Final
<1>2. CASE /\ coord.ready[p] = NotReady \/ pr[p].recorded
           /\ coord' = [coord EXCEPT !.ready[p] = pr[p].version, !.green = @ /\ pr[p].recorded]
           /\ pr' = [pr EXCEPT ![p].dispatched = FALSE, ![p].recorded = TRUE]
  <2>1. \A q \in Products \ {p} : pr'[q] = pr[q] /\ coord'.ready[q] = coord.ready[q]
    BY <1>2, TypeOKUnfolds DEF CoordType, Readiness
  <2>2. coord'.ready[p] = pr[p].version
    BY <1>2, TypeOKUnfolds DEF CoordType, Readiness
  <2>3. pr[p].recorded => coord.ready[p] = pr[p].version
    BY DEF ChangesetsInv, HeadInv
  <2> QED BY <1>2, <2>1, <2>2, <2>3 DEF Final
<1> QED BY <1>1, <1>2 DEF RecordReady

LEMMA PushIsFinal ==
  ASSUME TypeOK, NEW m, NEW c \in CoordType, NEW b \in [Products -> BranchType], NEW direct,
         Push(m, c, b, direct), c.ready = coord.ready,
         \A q \in Products : b[q].recorded = pr[q].recorded
  PROVE  \A q \in Products : Final(q)
BY PushFacts DEF Final

LEMMA MergesAreFinal ==
  ASSUME TypeOK,
         \/ MergeCoordination
         \/ \E p \in Products : Merge(p) \/ IndependentUpdate(p)
  PROVE  \A q \in Products : Final(q)
<1>1. coord \in CoordType /\ pr \in [Products -> BranchType]
  BY TypeOKUnfolds
<1>2. CASE MergeCoordination
  <2> DEFINE c == [coord EXCEPT !.open = FALSE]
  <2>1. c \in CoordType /\ c.ready = coord.ready
    BY <1>1 DEF CoordType
  <2> HIDE DEF c
  <2>2. Push([main EXCEPT !.defined = TRUE, !.ready = coord.ready], c, pr, {})
    BY <1>2 DEF MergeCoordination, c
  <2> QED BY <1>1, <2>1, <2>2, PushIsFinal
<1>3. ASSUME NEW p \in Products, Merge(p) PROVE \A q \in Products : Final(q)
  <2> DEFINE b == [pr EXCEPT ![p].state = "merged"]
  <2>1. b \in [Products -> BranchType] /\ \A q \in Products : b[q].recorded = pr[q].recorded
    BY <1>1 DEF BranchType
  <2> HIDE DEF b
  <2>2. Push([main EXCEPT !.version[p] = pr[p].version, !.bound[p] = TRUE], coord, b, {})
    BY <1>3 DEF Merge, b
  <2> QED BY <1>1, <2>1, <2>2, PushIsFinal
<1>4. ASSUME NEW p \in Products, IndependentUpdate(p) PROVE \A q \in Products : Final(q)
  <2>1. PICK m, d : Push(m, coord, pr, d)
    BY <1>4 DEF IndependentUpdate
  <2> QED BY <1>1, <2>1, PushIsFinal
<1> QED BY <1>2, <1>3, <1>4

LEMMA StepIsFinal ==
  ASSUME TypeOK, ChangesetsInv, [Next]_vars
  PROVE  \A q \in Products : Final(q)
<1>1. CASE UNCHANGED vars
  BY <1>1 DEF vars, Final
<1>2. CASE Create \/ EnsurePR \/ Count \/ JobFails \/ UpdateCoordination
  <2>1. UNCHANGED pr
    BY <1>2 DEF Create, EnsurePR, Count, JobFails, UpdateCoordination
  <2>2. coord'.ready = coord.ready
    BY <1>2, TypeOKUnfolds DEF Create, EnsurePR, Count, JobFails, UpdateCoordination, CoordType
  <2> QED BY <2>1, <2>2 DEF Final
<1> QED BY <1>1, <1>2, TrackingIsFinal, HeadsAreFinal, RecordReadyIsFinal, MergesAreFinal DEF Next

\* Recorded readiness is never taken back or moved to another head.
THEOREM ReadinessNeverMoves == Spec => ReadinessIsFinal
<1>1. ASSUME TypeOK, TypeOK', ChangesetsInv, ChangesetsInv', [Next]_vars, NEW p \in Products
      PROVE  /\ main'.ready[p] \in {NotReady, coord'.ready[p]}
             /\ pr[p].recorded /\ pr'[p].recorded => pr'[p].version = pr[p].version
             /\ coord.ready[p] # NotReady =>
                  /\ coord'.ready[p] = coord.ready[p]
                  /\ ~pr[p].recorded => ~pr'[p].recorded
  <2>1. Final(p)
    BY <1>1, StepIsFinal
  <2>2. HeadInv(p) /\ HeadInv(p)' /\ BranchInv(p)'
    BY <1>1 DEF ChangesetsInv
  <2>3. pr[p].version # NotReady
    BY <1>1, HeadType
  <2> QED BY <2>1, <2>2, <2>3 DEF Final, HeadInv, BranchInv
<1> DEFINE Step ==
      \A p \in Products :
        /\ main'.ready[p] \in {NotReady, coord'.ready[p]}
        /\ pr[p].recorded /\ pr'[p].recorded => pr'[p].version = pr[p].version
        /\ coord.ready[p] # NotReady =>
             /\ coord'.ready[p] = coord.ready[p]
             /\ ~pr[p].recorded => ~pr'[p].recorded
<1>2. TypeOK /\ TypeOK' /\ ChangesetsInv /\ ChangesetsInv' /\ [Next]_vars => Step
  BY <1>1
<1> HIDE DEF Step
<1>3. Spec => [][Step]_vars
  BY <1>2, TypeCorrect, ChangesetsInvariant, PTL DEF Spec
<1> QED BY <1>3 DEF ReadinessIsFinal, Step
=============================================================================
