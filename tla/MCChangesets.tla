---------------------------- MODULE MCChangesets ----------------------------
(***************************************************************************)
(* A small instance of Changesets, two products, and of Release for the    *)
(* jobs that publish two products of one commit. They share no state: a    *)
(* behaviour is about one of the two.                                      *)
(***************************************************************************)
EXTENDS Changesets

CONSTANTS a, b, commit, elsewhere, pa, pb, tab, good, bad, None, NoRelease, NoAsset, MaxFaults

VARIABLES about, mainHead, remoteTags, releases, localTags, files, plan, bundle, new, pc,
          link, events, dispatched, faults

releasevars == <<mainHead, remoteTags, releases, localTags, files, plan, bundle, new, pc,
                 link, events, dispatched, faults>>

\* The two jobs share the tag of a table.
Publication ==
  INSTANCE Release WITH
    Jobs <- {a, b}, Commits <- {commit, elsewhere}, Tags <- {pa, pb, tab},
    Contents <- {good, bad}, Releasable <- {good},
    JobCommit <- [j \in {a, b} |-> commit],
    ProductTag <- [j \in {a, b} |-> IF j = a THEN pa ELSE pb],
    TableTags <- [j \in {a, b} |-> {tab}],
    Committed <- [j \in {a, b} |-> good],
    FreshCheckout <- TRUE

PlansInit ==
  /\ Init /\ Publication!Init /\ about \in {"changeset", "publication"}
  /\ about = "changeset" => mainHead = commit

PlansNext ==
  /\ UNCHANGED about
  /\ \/ about = "changeset" /\ Next /\ UNCHANGED releasevars
     \/ about = "publication" /\ Publication!Next /\ UNCHANGED vars

PlansSpec ==
  /\ PlansInit /\ [][PlansNext]_<<about, vars, releasevars>>
  /\ (about = "publication" => Publication!Fairness)

\* Rerun jobs publish, dispatch and record every uncontended commit: Converges of Release,
\* for the behaviours that are about a publication.
ReleasesConverge == about = "publication" => Publication!Converges
=============================================================================
