--------------------------- MODULE QualityWriter ---------------------------
(***************************************************************************)
(* _secure_write_quality: a product that fails a hard check still gets its *)
(* reports, written straight into products/<key>/quality through directory *)
(* descriptors.  The path is a chain of directories, each looked up in the *)
(* one before; between any two calls somebody else may move a directory of *)
(* the chain or change a file, any call may fail, the process may die.     *)
(***************************************************************************)
EXTENDS Naturals, FiniteSets, Sequences

CONSTANTS
  Level,         \* [directories -> 0..Depth]: how deep in the path each may stand
  Top,           \* the directory the path starts in
  Created,       \* the directory a mkdir makes
  Siblings,      \* the reports that are always written
  Diagnostics,   \* the reports of the semantic pipeline, written when it gave a result
  MaxFailures, MaxMoves

Dirs  == DOMAIN Level
Depth == Level[Created]        \* the last component is quality/

ReviewRecord == "semantic-review.json"          \* with the diagnostics, when a decision is deferred
Repair == "semantic-structure-repair.json"      \* when the document was repaired
QualityReport == "quality-report.json"
Names  == Siblings \cup Diagnostics \cup {ReviewRecord, Repair, QualityReport}

\* What a run writes besides the siblings and the report.
Extras ==
  {d \cup r : d \in {{}, Diagnostics, Diagnostics \cup {ReviewRecord}}, r \in {{}, {Repair}}}

\* The report comes with the hashes of all the other payloads, and of nothing else.
Payloads(extras) == Siblings \cup {QualityReport} \cup extras

ASSUME WriterAssumption ==
  /\ Top \in Dirs /\ Level[Top] = 0
  /\ Created \in Dirs /\ Depth \in Nat \ {0}
  /\ Level \in [Dirs -> 0..Depth]
  /\ Siblings \cap Diagnostics = {}
  /\ (Siblings \cup Diagnostics) \cap {ReviewRecord, Repair, QualityReport} = {}
  /\ MaxFailures \in Nat /\ MaxMoves \in Nat

VARIABLES
  child,       \* what the next component of the path names in each directory
  files,       \* the destinations in each directory
  temps,       \* this run's temporary files: "none", "partial" or "complete"
  writer,      \* the locals of the run
  failures, moves,
  moved        \* the directories whose entry changed since the last file was written
writerVars == <<child, files, temps, writer, failures, moves, moved>>

Here == writer.anchors[Len(writer.anchors)]
Goto(w, place) == [w EXCEPT !.at = place]

\* _require_quality_path_type, then _require_same_quality_directory.
Refusal(entry) == IF entry = "other" THEN "PATH_TYPE_NOT_ALLOWED" ELSE "QUALITY_PATH_CHANGED"

\* Mutant: only what was renamed is cleaned up, so a failure while staging leaves its files.
Raised_Staging(w, code) ==
  [w EXCEPT !.at = IF w.todo = {} THEN "cleanup" ELSE "ended",
            !.failure = code, !.answer = IF w.todo = {} THEN @ ELSE code]

\* An exception: the finally of whatever has been staged, then the answer.
Raised(w, code) ==
  [w EXCEPT !.at = IF w.staged = {} THEN "ended" ELSE "cleanup",
            !.failure = code, !.answer = IF w.staged = {} THEN code ELSE @]

\* Mutant: the report is written like any other payload.
Following_AnyOrder(names) == names

\* payloads is a dict and its last key is the report.
Following(names) == IF names = {QualityReport} THEN {QualityReport} ELSE names \ {QualityReport}

Unmoved == UNCHANGED <<child, moves, moved>>

\* Without directory descriptors the tree is checked, component by component while
\* others may change it, and nothing is written.
Unsupported ==
  /\ writer.at = "start" /\ ~writer.capable
  /\ \E code \in {"PATH_TYPE_NOT_ALLOWED", "QUALITY_PATH_CHANGED", "SECURE_QUALITY_WRITE_UNAVAILABLE"} :
       writer' = [writer EXCEPT !.at = "ended", !.answer = code]
  /\ UNCHANGED <<files, temps, failures>> /\ Unmoved

\* open("/"): the first anchor.
OpenRoot ==
  /\ writer.at = "start" /\ writer.capable
  /\ writer' = [writer EXCEPT !.at = "lstat", !.anchors = <<Top>>]
  /\ UNCHANGED <<files, temps, failures>> /\ Unmoved

\* _directory_component_stat; only quality/ may be missing.
Lookup ==
  /\ writer.at \in {"lstat", "lstat again"}
  /\ LET entry == child[Here] IN
     writer' = IF entry \in Dirs THEN [writer EXCEPT !.at = "open", !.seen = entry]
               ELSE IF entry = "absent" /\ Len(writer.anchors) = Depth /\ writer.at = "lstat"
                 THEN Goto(writer, "mkdir")
               ELSE Raised(writer, Refusal(entry))
  /\ UNCHANGED <<files, temps, failures>> /\ Unmoved

\* mkdir("quality"); FileExistsError means somebody else just made it.
Mkdir ==
  /\ writer.at = "mkdir"
  /\ IF child[Here] = "absent"
       THEN /\ child' = [child EXCEPT ![Here] = Created]
            /\ writer' = Goto(writer, "lstat again")
       ELSE /\ writer' = Raised(writer, Refusal(child[Here]))
            /\ UNCHANGED child
  /\ UNCHANGED <<files, temps, failures, moves, moved>>

\* open(O_NOFOLLOW) and fstat: the directory opened is the one that was looked up.
OpenComponent ==
  /\ writer.at = "open"
  /\ writer' = IF child[Here] # writer.seen THEN Raised(writer, Refusal(child[Here]))
               ELSE [writer EXCEPT !.anchors = Append(@, writer.seen),
                       !.at = IF Len(writer.anchors) = Depth THEN "identity" ELSE "lstat"]
  /\ UNCHANGED <<files, temps, failures>> /\ Unmoved

\* Where the run goes once the whole chain is what it was: the checks come before the
\* staging, after it, and after the last rename.
Checked(w) ==
  LET next == CASE w.round = 1 -> "validate" [] w.round = 2 -> "revalidate" [] OTHER -> "fsync"
  IN [w EXCEPT !.at = next, !.level = 1, !.round = @ + 1]

\* Mutant: the identity of the chain is required before the renames only.
Identity_NotAtTheEnd ==
  /\ writer.at = "identity"
  /\ LET entry == child[writer.anchors[writer.level]] IN
     writer' = IF entry # writer.anchors[writer.level + 1] /\ writer.round < 3
                 THEN Raised(writer, Refusal(entry))
               ELSE IF writer.level < Depth THEN [writer EXCEPT !.level = @ + 1]
               ELSE Checked(writer)
  /\ UNCHANGED <<files, temps, failures>> /\ Unmoved

\* _require_directory_chain_identity, one component a step.
Identity ==
  /\ writer.at = "identity"
  /\ LET entry == child[writer.anchors[writer.level]] IN
     writer' = IF entry # writer.anchors[writer.level + 1] THEN Raised(writer, Refusal(entry))
               ELSE IF writer.level < Depth THEN [writer EXCEPT !.level = @ + 1]
               ELSE Checked(writer)
  /\ UNCHANGED <<files, temps, failures>> /\ Unmoved

\* _validate_quality_destinations_at: every destination is a regular file or missing.
Validate ==
  /\ writer.at \in {"validate", "revalidate"}
  /\ LET there == files[Here]
         present == {n \in Names : there[n] # "absent"} IN
     writer' = IF \E n \in Names : there[n] \in {"link", "directory"}
                 THEN Raised(writer, "PATH_TYPE_NOT_ALLOWED")
               ELSE IF writer.at = "validate" THEN Goto(writer, "create")
               ELSE [writer EXCEPT !.at = "replace", !.present = present,
                                   !.todo = Payloads(writer.extras)]
  /\ UNCHANGED <<files, temps, failures>> /\ Unmoved

\* open(O_CREAT | O_EXCL) of a new name.
CreateTemporary ==
  /\ writer.at = "create"
  /\ \E n \in Following(writer.todo) :
       /\ temps' = [temps EXCEPT ![Here][n] = "partial"]
       /\ writer' = [writer EXCEPT !.at = "fill", !.name = n, !.staged = @ \cup {n}]
  /\ UNCHANGED <<files, failures>> /\ Unmoved

\* _write_all, fsync and close; after the last payload the chain is checked again.
FillTemporary ==
  /\ writer.at = "fill"
  /\ temps' = [temps EXCEPT ![Here][writer.name] = "complete"]
  /\ LET left == writer.todo \ {writer.name} IN
     writer' = [writer EXCEPT !.at = IF left = {} THEN "identity" ELSE "create", !.todo = left]
  /\ UNCHANGED <<files, failures>> /\ Unmoved

\* replace(temporary, name) in the anchored directory; a directory cannot be replaced,
\* and _raise_quality_mutation_error refuses it by its type.
Replace ==
  /\ writer.at = "replace" /\ writer.todo # {}
  /\ \E n \in Following(writer.todo) :
       IF files[Here][n] = "directory"
         THEN /\ writer' = Raised(writer, "PATH_TYPE_NOT_ALLOWED")
              /\ UNCHANGED <<files, temps, moved>>
         ELSE /\ files' = [files EXCEPT ![Here][n] = "new"]
              /\ temps' = [temps EXCEPT ![Here][n] = "none"]
              /\ writer' = [writer EXCEPT !.todo = @ \ {n}]
              /\ moved' = {}
  /\ UNCHANGED <<child, failures, moves>>

\* Mutant: the repair record is not a special case, nothing of an earlier run is removed.
UnlinkStaleRepair_Never ==
  /\ writer.at = "replace" /\ writer.todo = {}
  /\ writer' = Goto(writer, "identity")
  /\ UNCHANGED <<child, files, temps, failures, moves, moved>>

\* The repair record of an earlier run goes when this one has none; no other file does.
UnlinkStaleRepair ==
  /\ writer.at = "replace" /\ writer.todo = {}
  /\ IF Repair \in writer.extras \/ Repair \notin writer.present
       THEN writer' = Goto(writer, "identity") /\ UNCHANGED <<files, moved>>
     ELSE IF files[Here][Repair] = "directory"
       THEN writer' = Raised(writer, "PATH_TYPE_NOT_ALLOWED") /\ UNCHANGED <<files, moved>>
     ELSE /\ files' = [files EXCEPT ![Here][Repair] = "absent"]
          /\ writer' = Goto(writer, "identity")
          /\ moved' = {}
  /\ UNCHANGED <<child, temps, failures, moves>>

\* fsync of the directory; temporary_names.clear().
Fsync ==
  /\ writer.at = "fsync"
  /\ writer' = [writer EXCEPT !.at = "ended", !.staged = {}, !.answer = "written"]
  /\ UNCHANGED <<files, temps, failures>> /\ Unmoved

\* finally: unlink every name that was staged; a renamed one is missing, which is fine.
Cleanup ==
  /\ writer.at = "cleanup"
  /\ \E n \in writer.staged :
       /\ temps' = [temps EXCEPT ![Here][n] = "none"]
       /\ LET left == writer.staged \ {n} IN
          writer' = IF left # {} THEN [writer EXCEPT !.staged = left]
                    ELSE [writer EXCEPT !.staged = {}, !.at = "ended", !.answer = writer.failure]
  /\ UNCHANGED <<files, failures>> /\ Unmoved

\* A call of the run fails; in the cleanup the error leaves the finally at once.
CallFails ==
  /\ writer.at \notin {"start", "ended"} /\ failures < MaxFailures
  /\ failures' = failures + 1
  /\ writer' = IF writer.at = "cleanup" THEN [writer EXCEPT !.at = "ended", !.answer = "not cleaned up"]
                                        ELSE Raised(writer, "OSError")
  /\ UNCHANGED <<files, temps>> /\ Unmoved

Dies ==
  /\ writer.at # "ended"
  /\ writer' = [writer EXCEPT !.at = "ended", !.answer = "died"]
  /\ UNCHANGED <<files, temps, failures>> /\ Unmoved

\* Somebody puts a directory, something else or nothing where the path goes on in d; a
\* directory stands in one place only.
Move(d) ==
  /\ writer.at # "ended" /\ moves < MaxMoves
  /\ \E e \in {"absent", "other"} \cup {x \in Dirs : Level[x] = Level[d] + 1} :
       /\ e # child[d] /\ (e = Created => \E x \in Dirs : child[x] = Created)
       /\ LET after == [x \in Dirs |-> IF x = d THEN e
                                       ELSE IF child[x] = e /\ e \in Dirs THEN "absent"
                                       ELSE child[x]]
          IN /\ child' = after
             /\ moved' = moved \cup {x \in Dirs : after[x] # child[x]}
  /\ moves' = moves + 1
  /\ UNCHANGED <<files, temps, writer, failures>>

\* Somebody writes a file, or makes a link or a directory, at a destination.
Touch(d) ==
  /\ writer.at # "ended" /\ moves < MaxMoves /\ Level[d] = Depth
  /\ \E n \in Names, v \in {"theirs", "link", "directory"} :
       files' = [files EXCEPT ![d][n] = v]
  /\ moves' = moves + 1
  /\ UNCHANGED <<child, temps, writer, failures, moved>>

WriterInit ==
  /\ child \in [Dirs -> (Dirs \ {Created}) \cup {"absent"}]
  /\ child[Top] # "absent"
  /\ \A d \in Dirs : child[d] # "absent" =>
       /\ Level[child[d]] = Level[d] + 1
       /\ d = Top \/ \E e \in Dirs : child[e] = d
  /\ \E had \in {{}} \cup {Payloads(x) : x \in Extras} :     \* by an earlier run
       files = [d \in Dirs |-> [n \in Names |-> IF d # Created /\ n \in had THEN "old" ELSE "absent"]]
  /\ temps = [d \in Dirs |-> [n \in Names |-> "none"]]
  /\ \E capable \in BOOLEAN, extras \in Extras :
       writer = [at |-> "start", capable |-> capable, extras |-> extras, anchors |-> <<>>,
                 seen |-> Top, level |-> 1, round |-> 1, name |-> QualityReport,
                 todo |-> Payloads(extras), staged |-> {}, present |-> {},
                 failure |-> "none", answer |-> "none"]
  /\ failures = 0 /\ moves = 0 /\ moved = {}

WriterSteps ==
  \/ Unsupported \/ OpenRoot \/ Lookup \/ Mkdir \/ OpenComponent
  \/ Identity \/ Validate \/ CreateTemporary \/ FillTemporary
  \/ Replace \/ UnlinkStaleRepair \/ Fsync \/ Cleanup \/ CallFails \/ Dies

WriterNext == WriterSteps \/ \E d \in Dirs : Move(d) \/ Touch(d)

WriterSpec == WriterInit /\ [][WriterNext]_writerVars

(***************************************************************************)
(* Properties                                                              *)
(***************************************************************************)
\* Whatever the new report gives the hash of was written by this run or changed by
\* somebody else since: it is not the file of an earlier run and it is not missing.
HashedAreNew ==
  \A d \in Dirs : files[d][QualityReport] = "new" =>
    \A n \in Payloads(writer.extras) : files[d][n] \notin {"old", "absent"}

\* The run is past the unlink that follows its renames.
PastUnlink == writer.at = "fsync" \/ (writer.at = "identity" /\ writer.round = 3)
              \/ writer.answer = "written"

\* Past the unlink no repair record of an earlier run is beside the new report.
RepairIsUnlinked ==
  PastUnlink => \A d \in Dirs : files[d][QualityReport] = "new" => files[d][Repair] # "old"

\* The report is renamed after all that it gives the hashes of, so it describes the
\* files of its own run even after a failed call, a refused rename or the loss of the
\* process in the middle of the renames.  It says nothing of the files it does not
\* hash, and these may be of an earlier run: the repair record until the unlink, which
\* comes after the renames and may not be reached, and for good the diagnostics and
\* the review record of a run that had them, which nothing removes.
ReportIsWrittenLast == HashedAreNew /\ RepairIsUnlinked

\* However a run ends, it has removed every temporary file it created, unless a call
\* of the removal itself failed or the process died.
NothingIsLeftBehind ==
  writer.at = "ended" /\ writer.answer \notin {"died", "not cleaned up"}
    => \A d \in Dirs, n \in Names : temps[d][n] = "none"

\* A run that reports success wrote all payloads into a directory to which the path
\* still led after the last of the renames, and into no other directory.  It left no
\* repair record of an earlier run there; diagnostics and a review record of an earlier
\* run may have stayed.
SuccessIsInPlace ==
  writer.answer = "written" =>
    LET q == writer.anchors[Depth + 1] IN
    /\ \A i \in 1..Depth : \/ child[writer.anchors[i]] = writer.anchors[i + 1]
                           \/ writer.anchors[i] \in moved
    /\ \A n \in Payloads(writer.extras) : files[q][n] \notin {"old", "absent"}
    /\ files[q][Repair] # "old"
    /\ \A d \in Dirs \ {q}, n \in Names : files[d][n] # "new"

\* What a run says of itself is what it leaves behind.
EndsAreClean == SuccessIsInPlace /\ NothingIsLeftBehind
==============================================================================
