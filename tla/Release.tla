------------------------------- MODULE Release -------------------------------
(***************************************************************************)
(* Publication of an immutable product release and its downstream          *)
(* dispatch: ReleasePublicationService, ReleaseDispatchService, the git    *)
(* and GitHub adapters they call, and the jobs of the release workflow.    *)
(*                                                                         *)
(* A job is one (product, merged commit) pair of the release matrix.  Jobs *)
(* of one commit are serialised by the workflow; jobs of different commits *)
(* run concurrently.  Every call to the remote may take effect and still   *)
(* be reported as failed (a timeout), and a job may stop anywhere.         *)
(***************************************************************************)
EXTENDS Naturals, FiniteSets

CONSTANTS
  Jobs,           \* release jobs
  Commits,        \* commits of the default branch
  Tags,           \* product/<id>/vN and table/<id>/vN
  Contents,       \* contents a product directory can have (and their digests)
  Releasable,     \* the contents that pass every gate of resolve_release_plan
  JobCommit,      \* the exact merged commit of a job
  ProductTag,     \* plan.product_tag
  TableTags,      \* plan.table_tags
  Committed,      \* the content of the job's product at its commit
  FreshCheckout,  \* TRUE: every attempt runs in a new clone (the workflow)
  None, NoRelease, NoAsset,
  MaxFaults       \* bound on failures, changes of files and reruns

ASSUME JobAssumption ==
  /\ JobCommit \in [Jobs -> Commits]
  /\ ProductTag \in [Jobs -> Tags]
  /\ TableTags \in [Jobs -> SUBSET Tags]
  /\ Committed \in [Jobs -> Contents]
  /\ Releasable \subseteq Contents

ASSUME ReleaseConstantsAssumption ==
  /\ FreshCheckout \in BOOLEAN
  /\ MaxFaults \in Nat
  /\ None \notin Commits
  /\ NoRelease \notin Contents /\ NoAsset \notin Contents
  /\ NoRelease # NoAsset

\* A matrix has one job per product key, and table tags are never product tags.
ASSUME MatrixAssumption ==
  \A i, j \in Jobs :
    /\ i # j /\ JobCommit[i] = JobCommit[j] => ProductTag[i] # ProductTag[j]
    /\ ProductTag[i] \notin TableTags[j]

VARIABLES
  mainHead,     \* head of the default branch on the remote
  remoteTags,   \* tag refs of origin
  releases,     \* GitHub Releases, by product tag: NoRelease, NoAsset or a content
  localTags,    \* tag refs of the job's clone
  files,        \* the product directory in the job's worktree
  plan,         \* the content whose hashes the release plan records
  bundle,       \* the bytes that will be uploaded
  new,          \* new_tags: the tags this attempt creates
  pc,           \* where the release job is
  link,         \* where the linkage job is
  events,       \* ard_product_released events delivered downstream
  dispatched,   \* jobs whose ard/dispatched status is success
  faults

remote == <<mainHead, remoteTags, releases>>
clone  == <<localTags, files, plan, bundle, new>>
hub    == <<events, dispatched>>
vars   == <<remote, clone, pc, link, hub, faults>>

TagsOf(j) == {ProductTag[j]} \cup TableTags[j]

Running == {"checkout", "planned", "built", "checked", "tagged", "pushed", "upload"}

Disturb == faults < MaxFaults /\ faults' = faults + 1

FetchedTags(j) ==
  [t \in Tags |-> IF FreshCheckout \/ localTags[j][t] = None
                    THEN remoteTags[t] ELSE localTags[j][t]]

Serialised(j) ==
  \A i \in Jobs : JobCommit[i] = JobCommit[j] =>
                    pc[i] \notin Running /\ link[i] \notin {"dispatch", "status"}

\* The first attempt, a rerun after a failure, or a rerun of a finished job.
Checkout(j) ==
  /\ Serialised(j)
  /\ \/ pc[j] \in {"idle", "failed"} /\ UNCHANGED faults
     \/ pc[j] = "done" /\ Disturb
  /\ pc' = [pc EXCEPT ![j] = "checkout"]
  /\ link' = [link EXCEPT ![j] = "idle"]
  /\ localTags' = [localTags EXCEPT ![j] = FetchedTags(j)]
  /\ files' = [files EXCEPT ![j] = Committed[j]]
  /\ UNCHANGED <<remote, plan, bundle, new, hub>>

(***************************************************************************)
(* ReleasePublicationService.run                                           *)
(***************************************************************************)

\* resolve_release_plan: snapshot the product, require every gate, record hashes.
ResolvePlan(j) ==
  /\ pc[j] = "checkout"
  /\ IF files[j] \in Releasable
       THEN pc' = [pc EXCEPT ![j] = "planned"] /\ plan' = [plan EXCEPT ![j] = files[j]]
       ELSE pc' = [pc EXCEPT ![j] = "failed"] /\ UNCHANGED plan
  /\ UNCHANGED <<remote, localTags, files, bundle, new, link, hub, faults>>

\* Mutant: the archive is uploaded without verify_release_bundle.
BundleMatchesPlan_Unverified(j) == TRUE

\* The archive's entries must have exactly the hashes the plan recorded.
BundleMatchesPlan(j) == files[j] = plan[j]

\* build_release_bundle reads the files again; verify_release_bundle compares.
BuildBundle(j) ==
  /\ pc[j] = "planned"
  /\ IF BundleMatchesPlan(j)
       THEN pc' = [pc EXCEPT ![j] = "built"] /\ bundle' = [bundle EXCEPT ![j] = files[j]]
       ELSE pc' = [pc EXCEPT ![j] = "failed"] /\ UNCHANGED bundle
  /\ UNCHANGED <<remote, localTags, files, plan, new, link, hub, faults>>

\* Mutant: an existing tag is taken as published, wherever it points.
TagsAgree_AnyTarget(j) == TRUE

\* Immutable tags of the clone must be absent or at the job's commit.
TagsAgree(j) == \A t \in TagsOf(j) : localTags[j][t] \in {None, JobCommit[j]}

\* Mutant: a Release whose upload never finished counts as a conflict.
ReleaseAgrees_NoHalf(j) == releases[ProductTag[j]] \in {NoRelease, bundle[j]}

\* An asset of the existing Release must have the digest of this bundle.
ReleaseAgrees(j) == releases[ProductTag[j]] \in {NoRelease, NoAsset, bundle[j]}

CheckExisting(j) ==
  /\ pc[j] = "built"
  /\ IF TagsAgree(j) /\ ReleaseAgrees(j)
       THEN /\ pc' = [pc EXCEPT ![j] = "checked"]
            /\ new' = [new EXCEPT ![j] = {t \in TagsOf(j) : localTags[j][t] = None}]
       ELSE pc' = [pc EXCEPT ![j] = "failed"] /\ UNCHANGED new
  /\ UNCHANGED <<remote, localTags, files, plan, bundle, link, hub, faults>>

\* create_annotated_tag for every new tag, the product's first; it may stop part
\* of the way.
CreateTags(j) ==
  /\ pc[j] = "checked"
  /\ \E done \in SUBSET new[j] :
       /\ done # {} => ProductTag[j] \notin new[j] \ done
       /\ localTags' = [localTags EXCEPT ![j] =
                          [t \in Tags |-> IF t \in done THEN JobCommit[j] ELSE @[t]]]
       /\ IF done = new[j]
            THEN pc' = [pc EXCEPT ![j] = "tagged"] /\ UNCHANGED faults
            ELSE pc' = [pc EXCEPT ![j] = "failed"] /\ Disturb
  /\ UNCHANGED <<remote, files, plan, bundle, new, link, hub>>

\* Mutant: push --force.
AcceptedTags_Force(j) == new[j]

\* origin refuses to replace a tag: the pushed annotated object is another one.
AcceptedTags(j) == {t \in new[j] : remoteTags[t] = None}

\* git push of several refs is not atomic: any accepted ref may be updated.
PushTags(j) ==
  /\ pc[j] = "tagged"
  /\ \E done \in SUBSET AcceptedTags(j), acked \in BOOLEAN :
       /\ remoteTags' = [t \in Tags |-> IF t \in done THEN JobCommit[j] ELSE remoteTags[t]]
       /\ \/ acked /\ done = new[j] /\ pc' = [pc EXCEPT ![j] = "pushed"] /\ UNCHANGED faults
          \/ ~acked /\ pc' = [pc EXCEPT ![j] = "failed"]
             /\ IF AcceptedTags(j) # new[j] THEN UNCHANGED faults ELSE Disturb
  /\ UNCHANGED <<mainHead, releases, clone, link, hub>>

\* POST releases: GitHub creates a missing tag at the default branch's head.
TagsAfterPost(j) ==
  IF remoteTags[ProductTag[j]] = None
    THEN [remoteTags EXCEPT ![ProductTag[j]] = mainHead] ELSE remoteTags

\* The first half of upsert_release: look the Release up, create it if absent.
UpsertRelease(j) ==
  LET tag == ProductTag[j] IN
  /\ pc[j] = "pushed"
  /\ \/ /\ releases[tag] = bundle[j]
        /\ pc' = [pc EXCEPT ![j] = "done"] /\ UNCHANGED <<remoteTags, releases, faults>>
     \/ /\ releases[tag] = NoAsset
        /\ pc' = [pc EXCEPT ![j] = "upload"] /\ UNCHANGED <<remoteTags, releases, faults>>
     \/ /\ releases[tag] \notin {NoRelease, NoAsset, bundle[j]}
        /\ pc' = [pc EXCEPT ![j] = "failed"] /\ UNCHANGED <<remoteTags, releases, faults>>
     \/ /\ releases[tag] = NoRelease
        /\ releases' = [releases EXCEPT ![tag] = NoAsset]
        /\ remoteTags' = TagsAfterPost(j)
        /\ \/ pc' = [pc EXCEPT ![j] = "upload"] /\ UNCHANGED faults
           \/ pc' = [pc EXCEPT ![j] = "failed"] /\ Disturb
  /\ UNCHANGED <<mainHead, clone, link, hub>>

\* The second half: gh release upload, which refuses an asset that exists.
UploadAsset(j) ==
  LET tag == ProductTag[j] IN
  /\ pc[j] = "upload"
  /\ IF releases[tag] = NoAsset
       THEN /\ releases' = [releases EXCEPT ![tag] = bundle[j]]
            /\ \/ pc' = [pc EXCEPT ![j] = "done"] /\ UNCHANGED faults
               \/ pc' = [pc EXCEPT ![j] = "failed"] /\ Disturb
       ELSE pc' = [pc EXCEPT ![j] = "failed"] /\ UNCHANGED <<releases, faults>>
  /\ UNCHANGED <<mainHead, remoteTags, clone, link, hub>>

\* A call fails without effect, or the runner is lost.
Fail(j) ==
  /\ pc[j] \in Running /\ Disturb
  /\ pc' = [pc EXCEPT ![j] = "failed"]
  /\ UNCHANGED <<remote, clone, link, hub>>

(***************************************************************************)
(* ReleaseDispatchService.run, in the linkage job                          *)
(***************************************************************************)

\* Mutant: linkage does not look the status up.
BeginLinkage_NoLookup(j) ==
  /\ link[j] = "idle"
  /\ \A i \in Jobs : JobCommit[i] = JobCommit[j] => pc[i] = "done"
  /\ link' = [link EXCEPT ![j] = "dispatch"]
  /\ UNCHANGED <<remote, clone, pc, hub, faults>>

\* The linkage matrix needs every release job of the commit to have succeeded.
\* A success status makes the dispatch a no-op.
BeginLinkage(j) ==
  /\ link[j] = "idle"
  /\ \A i \in Jobs : JobCommit[i] = JobCommit[j] => pc[i] = "done"
  /\ link' = [link EXCEPT ![j] = IF j \in dispatched THEN "linked" ELSE "dispatch"]
  /\ UNCHANGED <<remote, clone, pc, hub, faults>>

\* repository_dispatch, then set_status: two calls, in this order.
Dispatch(j) ==
  /\ link[j] = "dispatch"
  /\ events' = [events EXCEPT ![j] = @ + 1]
  /\ \/ link' = [link EXCEPT ![j] = "status"] /\ UNCHANGED faults
     \/ link' = [link EXCEPT ![j] = "idle"] /\ Disturb
  /\ UNCHANGED <<remote, clone, pc, dispatched>>

RecordDispatch(j) ==
  /\ link[j] = "status"
  /\ dispatched' = dispatched \cup {j}
  /\ \/ link' = [link EXCEPT ![j] = "linked"] /\ UNCHANGED faults
     \/ link' = [link EXCEPT ![j] = "idle"] /\ Disturb
  /\ UNCHANGED <<remote, clone, pc, events>>

FailLinkage(j) ==
  /\ link[j] \in {"dispatch", "status"} /\ Disturb
  /\ link' = [link EXCEPT ![j] = "idle"]
  /\ UNCHANGED <<remote, clone, pc, hub>>

(***************************************************************************)
(* The environment                                                         *)
(***************************************************************************)

\* The worktree changes under the job, between the reads of a run.
FilesChange(j) ==
  /\ pc[j] \in Running /\ Disturb
  /\ \E c \in Contents \ {files[j]} : files' = [files EXCEPT ![j] = c]
  /\ UNCHANGED <<remote, localTags, plan, bundle, new, pc, link, hub>>

\* Another pull request is merged.
BranchAdvances ==
  /\ \E c \in Commits \ {mainHead} : mainHead' = c
  /\ UNCHANGED <<remoteTags, releases, clone, pc, link, hub, faults>>

Init ==
  /\ mainHead \in Commits
  /\ remoteTags = [t \in Tags |-> None]
  /\ releases = [t \in Tags |-> NoRelease]
  /\ localTags = [j \in Jobs |-> remoteTags]
  /\ files = Committed /\ plan = Committed /\ bundle = Committed
  /\ new = [j \in Jobs |-> {}]
  /\ pc = [j \in Jobs |-> "idle"]
  /\ link = [j \in Jobs |-> "idle"]
  /\ events = [j \in Jobs |-> 0]
  /\ dispatched = {}
  /\ faults = 0

Publish(j) ==
  \/ ResolvePlan(j) \/ BuildBundle(j) \/ CheckExisting(j) \/ CreateTags(j)
  \/ PushTags(j) \/ UpsertRelease(j) \/ UploadAsset(j)

Linkage(j) == BeginLinkage(j) \/ Dispatch(j) \/ RecordDispatch(j)

Next ==
  \/ \E j \in Jobs :
       Checkout(j) \/ Publish(j) \/ Fail(j) \/ Linkage(j) \/ FailLinkage(j) \/ FilesChange(j)
  \/ BranchAdvances

Spec == Init /\ [][Next]_vars

\* A started job goes on, and a failed attempt is run again (gh run rerun).
Fairness ==
  \A j \in Jobs : /\ WF_vars(Checkout(j) /\ pc[j] \in {"idle", "failed"})
                  /\ WF_vars(Publish(j)) /\ WF_vars(Linkage(j))

FairSpec == Spec /\ Fairness
(***************************************************************************)
(* Properties                                                              *)
(***************************************************************************)
Assets == Contents \cup {NoRelease, NoAsset}

\* Every variable has its type; the fault budget is respected.
TypeOK ==
  /\ mainHead \in Commits
  /\ remoteTags \in [Tags -> Commits \cup {None}]
  /\ releases \in [Tags -> Assets]
  /\ localTags \in [Jobs -> [Tags -> Commits \cup {None}]]
  /\ files \in [Jobs -> Contents]
  /\ plan \in [Jobs -> Contents]
  /\ bundle \in [Jobs -> Contents]
  /\ new \in [Jobs -> SUBSET Tags]
  /\ pc \in [Jobs -> Running \cup {"idle", "failed", "done"}]
  /\ link \in [Jobs -> {"idle", "dispatch", "status", "linked"}]
  /\ events \in [Jobs -> Nat]
  /\ dispatched \subseteq Jobs
  /\ faults \in 0..MaxFaults

Published(j) ==
  /\ \A t \in TagsOf(j) : remoteTags[t] = JobCommit[j]
  /\ releases[ProductTag[j]] = bundle[j]

\* A release-product run that reports success has all of its tags on origin, at
\* exactly the merged commit, and its Release holds the bundle it verified:
\* whatever failed, timed out or was rerun before.
SuccessIsPublished == \A j \in Jobs : pc[j] = "done" => Published(j)

\* A Release is attached to a tag that some job pushed for its own commit; GitHub
\* never had to invent the tag at whatever the default branch's head was.
ReleaseHasItsTag ==
  \A t \in Tags : releases[t] # NoRelease =>
    \E j \in Jobs : t = ProductTag[j] /\ remoteTags[t] = JobCommit[j]

\* Only content that passed every release gate is published, although the gates
\* and the archive read the product directory at different times.
OnlyVerifiedContent ==
  \A t \in Tags : releases[t] \in Contents => releases[t] \in Releasable

\* No step moves or removes a tag of origin or replaces a published asset.
PublishedIsImmutable ==
  [][\A t \in Tags :
       /\ remoteTags[t] # None => remoteTags'[t] = remoteTags[t]
       /\ releases[t] \in Contents => releases'[t] = releases[t]]_vars

\* Downstream hears only of products whose tags and asset are published, and an
\* ard/dispatched status is never recorded before the event was sent.
DispatchFollowsPublication ==
  \A j \in Jobs :
    /\ events[j] > 0 => /\ \A t \in TagsOf(j) : remoteTags[t] = JobCommit[j]
                        /\ releases[ProductTag[j]] \in Contents
    /\ j \in dispatched => events[j] > 0

\* Once ard/dispatched is recorded no rerun delivers the event again.
NoRedelivery ==
  [][\A j \in Jobs : j \in dispatched => events'[j] = events[j] /\ j \in dispatched']_vars

Uncontended(j) ==
  \A i, k \in Jobs :
    JobCommit[i] = JobCommit[j] /\ JobCommit[k] # JobCommit[j]
      => TagsOf(i) \cap TagsOf(k) = {}

\* Reruns converge: a commit whose versions no other commit claims ends with every
\* product published, dispatched and recorded.
Converges == \A j \in Jobs : Uncontended(j) => <>[](link[j] = "linked" /\ j \in dispatched)

(***************************************************************************)
(* The inductive invariant behind the safety properties, in new clones     *)
(***************************************************************************)
BundleVerified ==
  \A j \in Jobs :
    /\ pc[j] = "planned" => plan[j] \in Releasable
    /\ pc[j] \in {"built", "checked", "tagged", "pushed", "upload", "done"}
         => bundle[j] \in Releasable

CloneFollowsOrigin ==
  \A j \in Jobs : pc[j] \in {"checkout", "planned", "built", "checked"} =>
    \A t \in Tags : localTags[j][t] # None => remoteTags[t] = localTags[j][t]

OldTagsOnOrigin ==
  \A j \in Jobs : pc[j] \in {"checked", "tagged"} =>
    \A t \in TagsOf(j) \ new[j] : remoteTags[t] = JobCommit[j]

PushedTagsOnOrigin ==
  \A j \in Jobs : pc[j] \in {"pushed", "upload", "done"} =>
    \A t \in TagsOf(j) : remoteTags[t] = JobCommit[j]

LinkageAfterRelease ==
  \A j \in Jobs : /\ link[j] \in {"dispatch", "status"} => pc[j] = "done"
                  /\ link[j] = "status" => events[j] > 0

\* What an attempt knows at every step of it: the reason why skipping the push of
\* existing tags, and the upload of an existing asset, is safe in a new clone.
ReleaseInv ==
  /\ BundleVerified
  /\ CloneFollowsOrigin
  /\ OldTagsOnOrigin
  /\ PushedTagsOnOrigin
  /\ LinkageAfterRelease
  /\ SuccessIsPublished
  /\ ReleaseHasItsTag
  /\ OnlyVerifiedContent
  /\ DispatchFollowsPublication
=============================================================================
