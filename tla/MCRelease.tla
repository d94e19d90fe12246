------------------------------ MODULE MCRelease ------------------------------
(***************************************************************************)
(* Small instances of Release: two products merged by one commit share a   *)
(* table tag, and a job of another commit may claim the same versions.     *)
(***************************************************************************)
EXTENDS Release

CONSTANTS a, b, c, c1, c2, pa, pb, tab, good, other, bad

MCJobCommit  == [j \in Jobs |-> IF j = c THEN c2 ELSE c1]
\* c races a for a's product version and for the shared table version.
MCProductTag == [j \in Jobs |-> IF j = b THEN pb ELSE pa]
MCTableTags  == [j \in Jobs |-> {tab}]
MCCommitted  == [j \in Jobs |-> good]
==============================================================================
