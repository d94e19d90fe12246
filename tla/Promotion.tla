------------------------------ MODULE Promotion ------------------------------
(***************************************************************************)
(* process_product from the registry snapshot to the promoted directories: *)
(* staging of the candidates, _promote_directories with its rollback, the  *)
(* removal of backups.  One process works on a clone at a time; a call may *)
(* raise at every step, and the process may die at every step, which also  *)
(* stands for a rollback that itself raises.                               *)
(***************************************************************************)
EXTENDS Naturals, FiniteSets

CONSTANTS N, Others, Inputs, NoInput, NoDirectory, MaxCrashes

ASSUME PromotionAssumption ==
  /\ N \in Nat \ {0}
  /\ NoInput \notin Inputs
  /\ MaxCrashes \in Nat

VARIABLES
  target,      \* registry/, generated/, quality/
  backup,      \* .<name>.backup-<token>; the token is the input's hash
  candidate,   \* the staged directories of the current run
  input,       \* what the current run processes
  pc,          \* the statement the run is at
  k,           \* the directory of the loop
  installed, backups,   \* the lists of _promote_directories, as sets
  outcome,     \* how the last run ended
  before,      \* the targets when the last promotion began
  crashes

dirs == <<target, backup, candidate>>
locals  == <<input, k, installed, backups, before>>
promotionVars == <<dirs, locals, pc, outcome, crashes>>

Slots == 1..N

Promoting == {"stale", "save", "install"}
RollingBack == {"remove", "restore"}

\* What a reader who ignores unfinished runs sees.
Published == IF pc \in Promoting \cup RollingBack THEN before ELSE target

Atomic == INSTANCE AtomicPromotion WITH published <- Published, died <- crashes > 0

ASSUME AbsentAssumption == NoDirectory \notin Atomic!Content

\* The registry snapshot: an absent registry is an empty one.
Snapshot(dir) == IF dir = NoDirectory THEN [others |-> {}, made |-> NoInput] ELSE dir

\* Stage every candidate; nothing under the targets changes.
Stage(i) ==
  /\ pc = "idle"
  /\ candidate' = Atomic!Updated(Snapshot(target[1]), i)
  /\ input' = i /\ before' = target
  /\ k' = 1 /\ installed' = {} /\ backups' = {}
  /\ pc' = "stale" /\ outcome' = "running"
  /\ UNCHANGED <<target, backup, crashes>>

\* if backup.exists(): rmtree(backup)
DropStaleBackup ==
  /\ pc = "stale"
  /\ backup' = [backup EXCEPT ![input][k] = NoDirectory]
  /\ pc' = "save"
  /\ UNCHANGED <<target, candidate, locals, outcome, crashes>>

\* Mutant: the old directory is removed rather than moved aside.
SaveTarget_Removes ==
  /\ pc = "save"
  /\ target' = [target EXCEPT ![k] = NoDirectory]
  /\ pc' = "install"
  /\ UNCHANGED <<backup, backups, candidate, input, k, installed, before, outcome, crashes>>

\* if target.exists(): replace(target, backup)
SaveTarget ==
  /\ pc = "save"
  /\ IF target[k] # NoDirectory
       THEN /\ backup' = [backup EXCEPT ![input][k] = target[k]]
            /\ target' = [target EXCEPT ![k] = NoDirectory]
            /\ backups' = backups \cup {k}
       ELSE UNCHANGED <<target, backup, backups>>
  /\ pc' = "install"
  /\ UNCHANGED <<candidate, input, k, installed, before, outcome, crashes>>

\* replace(candidate, target): the last one completes the promotion.
Install ==
  /\ pc = "install"
  /\ target' = [target EXCEPT ![k] = candidate[k]]
  /\ candidate' = [candidate EXCEPT ![k] = NoDirectory]
  /\ installed' = installed \cup {k}
  /\ IF k = N THEN pc' = "cleanup" /\ k' = k
              ELSE pc' = "stale" /\ k' = k + 1
  /\ UNCHANGED <<backup, input, backups, before, outcome, crashes>>

\* Mutant: the exception leaves _promote_directories without a rollback.
Raise_NoRollback ==
  /\ pc \in Promoting
  /\ pc' = "idle" /\ outcome' = "raised"
  /\ UNCHANGED <<dirs, locals, crashes>>

\* A statement of the loop raises.
Raise ==
  /\ pc \in Promoting
  /\ pc' = "remove"
  /\ UNCHANGED <<dirs, locals, outcome, crashes>>

\* for target in reversed(installed): rmtree(target)
RemoveInstalled ==
  /\ pc = "remove"
  /\ \/ \E s \in installed :
          /\ \A r \in installed : r <= s
          /\ target' = [target EXCEPT ![s] = NoDirectory]
          /\ installed' = installed \ {s}
          /\ UNCHANGED pc
     \/ installed = {} /\ pc' = "restore" /\ UNCHANGED <<target, installed>>
  /\ UNCHANGED <<backup, candidate, input, k, backups, before, outcome, crashes>>

\* for target, backup in reversed(backups): replace(backup, target); then raise,
\* and the finally of process_product removes the registry candidate.
RestoreBackups ==
  /\ pc = "restore"
  /\ \/ \E s \in backups :
          /\ \A r \in backups : r <= s
          /\ target' = [target EXCEPT ![s] = backup[input][s]]
          /\ backup' = [backup EXCEPT ![input][s] = NoDirectory]
          /\ backups' = backups \ {s}
          /\ UNCHANGED <<candidate, pc, outcome>>
     \/ /\ backups = {}
        /\ candidate' = [candidate EXCEPT ![1] = NoDirectory]
        /\ pc' = "idle" /\ outcome' = "raised"
        /\ UNCHANGED <<target, backup, backups>>
  /\ UNCHANGED <<input, k, installed, before, crashes>>

\* else: rmtree of every backup; a failure here raises after the promotion.
RemoveBackups ==
  /\ pc = "cleanup"
  /\ \/ \E s \in backups :
          /\ \A r \in backups : s <= r
          /\ backup' = [backup EXCEPT ![input][s] = NoDirectory]
          /\ backups' = backups \ {s}
          /\ UNCHANGED <<pc, outcome>>
     \/ backups = {} /\ pc' = "idle" /\ outcome' = "success" /\ UNCHANGED <<backup, backups>>
     \/ backups # {} /\ pc' = "idle" /\ outcome' = "raised late" /\ UNCHANGED <<backup, backups>>
  /\ UNCHANGED <<target, candidate, input, k, installed, before, crashes>>

\* The process dies, or the rollback raises: what is on disk stays.
Crash ==
  /\ pc # "idle" /\ crashes < MaxCrashes
  /\ crashes' = crashes + 1
  /\ pc' = "idle" /\ outcome' = "crashed"
  /\ UNCHANGED <<dirs, locals>>

PromotionInit ==
  /\ target = Atomic!Initially
  /\ backup = [i \in Inputs |-> [s \in Slots |-> NoDirectory]]
  /\ candidate = [s \in Slots |-> NoDirectory]
  /\ input \in Inputs
  /\ pc = "idle" /\ k = 1
  /\ installed = {} /\ backups = {}
  /\ outcome = "none" /\ before = target
  /\ crashes = 0

PromotionNext ==
  \/ \E i \in Inputs : Stage(i)
  \/ DropStaleBackup \/ SaveTarget \/ Install \/ Raise
  \/ RemoveInstalled \/ RestoreBackups \/ RemoveBackups \/ Crash

PromotionSpec == PromotionInit /\ [][PromotionNext]_promotionVars

(***************************************************************************)
(* Properties                                                              *)
(***************************************************************************)
MaybeContent == Atomic!Content \cup {NoDirectory}

\* Every variable has its type.
PromotionTypeOK ==
  /\ target \in [Slots -> MaybeContent]
  /\ backup \in [Inputs -> [Slots -> MaybeContent]]
  /\ candidate \in [Slots -> MaybeContent]
  /\ input \in Inputs
  /\ pc \in {"idle", "cleanup"} \cup Promoting \cup RollingBack
  /\ k \in Slots
  /\ installed \subseteq Slots /\ backups \subseteq Slots
  /\ outcome \in {"none", "running", "success", "raised", "raised late", "crashed"}
  /\ before \in [Slots -> MaybeContent]
  /\ crashes \in 0..MaxCrashes

\* After a run that failed in the loop, the three directories are what they were
\* before it; after one that succeeded they are exactly its candidates.
AllOrNothing ==
  pc = "idle" =>
    /\ outcome = "raised" => target = before
    /\ outcome \in {"success", "raised late"} =>
         target = Atomic!Updated(Snapshot(before[1]), input)

\* The records of the other products are on disk in every state, in the registry
\* or in a backup from which the rollback or an operator can restore them.
OtherRecordsSurvive ==
  \/ target[1] # NoDirectory /\ target[1].others = Others
  \/ \E i \in Inputs : backup[i][1] # NoDirectory /\ backup[i][1].others = Others

\* If the process dies, each directory is the old or the new one, or the old one is
\* in the backup of the run's token: an operator can still undo or finish the run.
CrashIsRecoverable ==
  outcome = "crashed" /\ crashes = 1 =>
    \A s \in Slots : \/ target[s] \in {before[s], Atomic!Updated(Snapshot(before[1]), input)[s]}
                     \/ backup[input][s] = before[s]

\* As long as no process dies the promotion is atomic: the install of the last
\* directory is the one step at which the published directories change, all together.
PromotesAtomically == Atomic!Spec

(***************************************************************************)
(* The inductive invariant behind them                                     *)
(***************************************************************************)
Staged == Atomic!Updated(Snapshot(before[1]), input)

\* Where the old and the new directory of every slot are while a run is under way.
Recoverable ==
  \A s \in Slots :
    /\ s \in installed => target[s] = Staged[s]
    /\ s \in backups => /\ backup[input][s] = before[s]
                        /\ s \notin installed => target[s] = NoDirectory
    /\ s \notin backups /\ s \in installed => before[s] = NoDirectory
    /\ s \notin backups /\ s \notin installed => target[s] = before[s]

LoopInv ==
  /\ installed = 1..(k - 1)
  /\ backups \subseteq 1..k
  /\ pc \in {"stale", "save"} => k \notin backups
  /\ pc = "install" /\ k \notin backups => before[k] = NoDirectory
  /\ \A s \in Slots \ installed : candidate[s] = Staged[s]

\* Every point of a run, and of its rollback, can reach the old or the new state.
PromotionInv ==
  /\ pc \in Promoting \cup RollingBack => Recoverable
  /\ pc \in Promoting => LoopInv
  /\ pc = "restore" => installed = {}
  /\ pc = "cleanup" => target = Staged
  /\ AllOrNothing
==============================================================================
