--------------------------- MODULE PromotionProofs ---------------------------
(***************************************************************************)
(* Proofs about Promotion, for any number of directories and inputs, and   *)
(* about QualityWriter, for any tree of directories, any reports and any   *)
(* number of failing calls and of moves made by others.                    *)
(***************************************************************************)
EXTENDS Promotion, QualityWriter, TLAPS

\* What is staged is made of directories.
LEMMA UpdatedType ==
  ASSUME NEW d \in MaybeContent, NEW i \in Inputs
  PROVE  Atomic!Updated(Snapshot(d), i) \in [Slots -> MaybeContent]
  BY PromotionAssumption DEF MaybeContent, Snapshot, Atomic!Content, Atomic!Updated, Slots

LEMMA Basics == 1 \in Slots /\ N \in Slots /\ Slots \subseteq Nat /\ NoDirectory \in MaybeContent
<1>1. 1 \in Slots /\ N \in Slots /\ Slots \subseteq Nat
  BY PromotionAssumption DEF Slots
<1>2. NoDirectory \in MaybeContent
  BY Zenon DEF MaybeContent
<1> QED BY <1>1, <1>2

LEMMA SlotFacts ==
  ASSUME NEW x \in Slots
  PROVE  /\ x # N => x + 1 \in Slots
         /\ x \in Nat \ {0}
         /\ 1..x = (1..(x - 1)) \cup {x}
         /\ x \notin 1..(x - 1)
BY PromotionAssumption DEF Slots

LEMMA CrashFacts ==
  ASSUME NEW n \in 0..MaxCrashes, n < MaxCrashes PROVE n + 1 \in 0..MaxCrashes
BY PromotionAssumption

\* What one assignment to a backup changes.
LEMMA BackupFacts ==
  ASSUME NEW b \in [Inputs -> [Slots -> MaybeContent]], NEW i \in Inputs, NEW s \in Slots,
         NEW d \in MaybeContent
  PROVE  LET c == [b EXCEPT ![i][s] = d] IN
         /\ c \in [Inputs -> [Slots -> MaybeContent]]
         /\ c[i][s] = d
         /\ \A r \in Slots : r # s => c[i][r] = b[i][r]
OBVIOUS

LEMMA InitType == PromotionInit => PromotionTypeOK
<1> SUFFICES ASSUME PromotionInit PROVE PromotionTypeOK
  OBVIOUS
<1>1. Atomic!Initially \in [Slots -> Atomic!Content]
  BY DEF Atomic!Initially, Atomic!Content, Slots
<1>2. 1 \in Slots
  BY PromotionAssumption DEF Slots
<1> QED
  BY <1>1, <1>2, PromotionAssumption DEF PromotionInit, PromotionTypeOK, MaybeContent, Promoting, RollingBack

\* Type correctness of every statement of a run.
LEMMA TypeStep == ASSUME PromotionTypeOK, [PromotionNext]_promotionVars PROVE PromotionTypeOK'
<1> USE PromotionAssumption DEF PromotionTypeOK, dirs, locals, Promoting, RollingBack
<1>0. 1 \in Slots /\ NoDirectory \in MaybeContent
  BY Basics
<1>1. ASSUME NEW i \in Inputs, Stage(i) PROVE PromotionTypeOK'
  <2>1. candidate' \in [Slots -> MaybeContent]
    BY <1>0, <1>1, UpdatedType DEF Stage
  <2> QED BY <1>0, <1>1, <2>1 DEF Stage
<1>2. CASE DropStaleBackup
  BY <1>0, <1>2 DEF DropStaleBackup
<1>3. CASE SaveTarget
  <2>1. CASE target[k] = NoDirectory
    BY <1>3, <2>1 DEF SaveTarget
  <2>2. CASE target[k] # NoDirectory
    <3>1. backup' \in [Inputs -> [Slots -> MaybeContent]]
      <4>1. backup' = [backup EXCEPT ![input][k] = target[k]] /\ target[k] \in MaybeContent
        BY <1>3, <2>2 DEF SaveTarget
      <4> QED BY <4>1, BackupFacts
    <3>2. target' \in [Slots -> MaybeContent] /\ backups' \subseteq Slots
      BY ZenonT(40), <1>0, <1>3, <2>2 DEF SaveTarget
    <3> QED BY <1>3, <2>2, <3>1, <3>2 DEF SaveTarget
  <2> QED BY <2>1, <2>2
<1>4. CASE Install
  <2>0. \/ k = N /\ k' = k /\ pc' = "cleanup"
        \/ k # N /\ k' = k + 1 /\ pc' = "stale"
    BY <1>4 DEF Install
  <2>1. k' \in Slots /\ pc' \in {"cleanup", "stale"}
    <3>1. k \in Slots
      OBVIOUS
    <3>2. k # N => k + 1 \in Slots
      BY <3>1, SlotFacts
    <3> HIDE DEF PromotionTypeOK
    <3> QED BY <2>0, <3>1, <3>2
  <2> QED BY <1>0, <1>4, <2>1 DEF Install
<1>5. CASE Raise
  BY <1>5 DEF Raise
<1>6. CASE RemoveInstalled
  BY ZenonT(40), <1>0, <1>6 DEF RemoveInstalled
<1>7. CASE RestoreBackups
  <2>1. CASE UNCHANGED <<target, backup, backups>>
    BY <1>0, <1>7, <2>1 DEF RestoreBackups
  <2>2. ASSUME NEW s \in backups,
               target' = [target EXCEPT ![s] = backup[input][s]],
               backup' = [backup EXCEPT ![input][s] = NoDirectory],
               backups' = backups \ {s}, UNCHANGED <<candidate, pc, outcome>>
        PROVE  PromotionTypeOK'
    <3>1. backup[input][s] \in MaybeContent
      BY ZenonT(40)
    <3>2. target' \in [Slots -> MaybeContent]
      BY <2>2, <3>1
    <3>3. backup' \in [Inputs -> [Slots -> MaybeContent]]
      BY <1>0, <2>2
    <3> QED BY <1>7, <2>2, <3>2, <3>3 DEF RestoreBackups
  <2> QED BY <1>7, <2>1, <2>2 DEF RestoreBackups
<1>8. CASE RemoveBackups
  <2>1. \/ backup' = backup
        \/ \E s \in backups : backup' = [backup EXCEPT ![input][s] = NoDirectory]
    BY <1>8 DEF RemoveBackups
  <2>2. backup' \in [Inputs -> [Slots -> MaybeContent]]
    <3>1. /\ backup \in [Inputs -> [Slots -> MaybeContent]] /\ input \in Inputs
          /\ backups \subseteq Slots
      OBVIOUS
    <3> HIDE DEF PromotionTypeOK
    <3>2. \A s \in Slots :
            [backup EXCEPT ![input][s] = NoDirectory] \in [Inputs -> [Slots -> MaybeContent]]
      BY <1>0, <3>1, BackupFacts
    <3> QED BY <2>1, <3>1, <3>2
  <2>3. backups' \subseteq Slots
    BY <1>8 DEF RemoveBackups
  <2>4. /\ pc' \in {"idle", "cleanup"}
        /\ outcome' \in {outcome, "success", "raised late"}
    BY <1>8 DEF RemoveBackups
  <2> QED BY <1>8, <2>2, <2>3, <2>4 DEF RemoveBackups
<1>9. CASE Crash
  <2>1. crashes \in 0..MaxCrashes /\ crashes < MaxCrashes /\ crashes' = crashes + 1
    BY <1>9 DEF Crash
  <2>2. crashes' \in 0..MaxCrashes
    BY <2>1, CrashFacts
  <2> QED BY <1>9, <2>2 DEF Crash
<1>10. CASE UNCHANGED promotionVars
  BY <1>10 DEF promotionVars
<1> QED BY <1>1, <1>2, <1>3, <1>4, <1>5, <1>6, <1>7, <1>8, <1>9, <1>10 DEF PromotionNext

\* PromotionTypeOK holds in every reachable state.
THEOREM TypeCorrect == PromotionSpec => []PromotionTypeOK
BY InitType, TypeStep, PTL DEF PromotionSpec

\* Every statement keeps the old or the new state within reach.
LEMMA InvStep == ASSUME PromotionTypeOK, PromotionInv, [PromotionNext]_promotionVars PROVE PromotionInv'
<1> USE PromotionAssumption DEF dirs, locals, Promoting, RollingBack
<1>0. 1 \in Slots /\ k \in Nat /\ N \in Nat
  BY Basics DEF PromotionTypeOK
<1>1. ASSUME NEW i \in Inputs, Stage(i) PROVE PromotionInv'
  <2>1. Recoverable'
    BY <1>1 DEF Stage, Recoverable
  <2>2. LoopInv'
    BY <1>1 DEF Stage, LoopInv, Staged
  <2> QED BY <1>1, <2>1, <2>2 DEF Stage, PromotionInv, AllOrNothing
<1>2. CASE DropStaleBackup
  <2>1. Recoverable'
    BY <1>2 DEF DropStaleBackup, Recoverable, PromotionInv, LoopInv, PromotionTypeOK, Staged
  <2>2. LoopInv'
    BY <1>2 DEF DropStaleBackup, PromotionInv, LoopInv, Staged
  <2> QED BY <1>2, <2>1, <2>2 DEF DropStaleBackup, PromotionInv, AllOrNothing
<1>3. CASE SaveTarget
  <2>0. LoopInv /\ Recoverable /\ k \in Slots
    BY <1>3 DEF SaveTarget, PromotionInv, PromotionTypeOK
  <2>1. k \notin installed /\ k \notin backups /\ target[k] = before[k]
    <3>1. k \notin installed
      BY <1>0, <2>0 DEF LoopInv
    <3>2. k \notin backups
      BY <1>3, <2>0 DEF LoopInv, SaveTarget
    <3> QED BY <2>0, <3>1, <3>2 DEF Recoverable
  <2>c. Staged' = Staged
    BY <1>3 DEF SaveTarget, Staged
  <2>2. Recoverable'
    <3>1. CASE target[k] = NoDirectory
      BY <1>3, <2>0, <2>c, <3>1 DEF SaveTarget, Recoverable
    <3>2. CASE target[k] # NoDirectory
      <4>1. /\ target' = [target EXCEPT ![k] = NoDirectory]
            /\ backups' = backups \cup {k}
            /\ installed' = installed /\ before' = before /\ input' = input
        BY <1>3, <3>2 DEF SaveTarget
      <4>2. /\ backup'[input][k] = target[k]
            /\ \A s \in Slots : s # k => backup'[input][s] = backup[input][s]
        <5>1. backup' = [backup EXCEPT ![input][k] = target[k]]
          BY <1>3, <3>2 DEF SaveTarget
        <5>2. /\ backup \in [Inputs -> [Slots -> MaybeContent]] /\ input \in Inputs
              /\ target[k] \in MaybeContent
          BY <2>0 DEF PromotionTypeOK
        <5> QED BY <2>0, <5>1, <5>2, BackupFacts
      <4>3. /\ target'[k] = NoDirectory
            /\ \A s \in Slots : s # k => target'[s] = target[s]
        BY <4>1 DEF PromotionTypeOK
      <4> QED BY <2>0, <2>1, <2>c, <4>1, <4>2, <4>3 DEF Recoverable
    <3> QED BY <3>1, <3>2
  <2>3. LoopInv'
    <3>1. backups' \subseteq 1..k
      <4>1. backups' \subseteq backups \cup {k} /\ backups \subseteq 1..k
        BY <1>3, <2>0 DEF SaveTarget, LoopInv
      <4> QED BY <2>0, <4>1, SlotFacts
    <3>2. k \notin backups' => before[k] = NoDirectory
      BY <1>3, <2>1 DEF SaveTarget
    <3> QED BY <1>3, <2>0, <2>c, <3>1, <3>2 DEF SaveTarget, LoopInv
  <2> QED BY <1>3, <2>2, <2>3 DEF SaveTarget, PromotionInv, AllOrNothing
<1>4. CASE Install
  <2>1. LoopInv /\ Recoverable /\ k \notin installed /\ candidate[k] = Staged[k]
    <3>1. LoopInv /\ Recoverable /\ k \in Slots
      BY <1>4 DEF Install, PromotionInv, PromotionTypeOK
    <3>2. k \notin installed
      BY <1>0, <3>1 DEF LoopInv
    <3> QED BY <3>1, <3>2 DEF LoopInv
  <2>2. Recoverable'
    BY <1>4, <2>1 DEF Install, Recoverable, LoopInv, PromotionTypeOK, Staged
  <2>3. CASE k = N
    <3>1. \A s \in Slots : s \in installed'
      BY <1>0, <1>4, <2>1, <2>3 DEF Install, LoopInv, Slots
    <3>2. \A s \in Slots : target'[s] = Staged'[s]
      BY <2>2, <3>1 DEF Recoverable
    <3>3. target' = Staged'
      <4>1. target' = [s \in Slots |-> target'[s]]
        BY <1>4 DEF Install, PromotionTypeOK
      <4>2. Staged' = [s \in Slots |-> Staged'[s]]
        BY DEF Staged, Atomic!Updated, Slots
      <4> QED BY <3>2, <4>1, <4>2
    <3> QED BY <1>4, <2>2, <2>3, <3>3 DEF Install, PromotionInv, AllOrNothing
  <2>4. CASE k # N
    <3>1. LoopInv'
      <4>1. installed' = 1..(k' - 1) /\ k' = k + 1
        <5>1. k' = k + 1 /\ installed' = (1..(k - 1)) \cup {k}
          BY <1>4, <2>1, <2>4 DEF Install, LoopInv
        <5>2. /\ k \in Slots /\ k \in Nat
              /\ 1..k = (1..(k - 1)) \cup {k}
          BY SlotFacts DEF PromotionTypeOK
        <5>3. k + 1 - 1 = k
          BY <5>2
        <5> QED BY <5>1, <5>2, <5>3
      <4>2. backups' \subseteq 1..k' /\ k' \notin backups'
        BY <1>0, <1>4, <2>1, <2>4 DEF Install, LoopInv
      <4>3. \A s \in Slots \ installed' : candidate'[s] = Staged'[s]
        BY <1>4, <2>1, <2>4 DEF Install, LoopInv, PromotionTypeOK, Staged
      <4> QED BY <1>4, <2>4, <4>1, <4>2, <4>3 DEF Install, LoopInv
    <3> QED BY <1>4, <2>2, <2>4, <3>1 DEF Install, PromotionInv, AllOrNothing
  <2> QED BY <2>3, <2>4
<1>5. CASE Raise
  BY <1>5 DEF Raise, PromotionInv, Recoverable, AllOrNothing, Staged
<1>6. CASE RemoveInstalled
  <2>1. Recoverable'
    BY <1>6 DEF RemoveInstalled, PromotionInv, Recoverable, PromotionTypeOK, Staged
  <2> QED BY <1>6, <2>1 DEF RemoveInstalled, PromotionInv, AllOrNothing
<1>7. CASE RestoreBackups
  <2>1. Recoverable /\ installed = {}
    BY <1>7 DEF RestoreBackups, PromotionInv
  <2>2. CASE backups = {}
    <3>1. target = before
      <4>1. \A s \in Slots : target[s] = before[s]
        BY <2>1, <2>2 DEF Recoverable
      <4>2. /\ target = [s \in Slots |-> target[s]]
            /\ before = [s \in Slots |-> before[s]]
        BY DEF PromotionTypeOK
      <4> QED BY <4>1, <4>2
    <3>2. target' = before' /\ pc' = "idle" /\ outcome' = "raised"
      BY <1>7, <2>2, <3>1 DEF RestoreBackups
    <3> QED BY <3>2 DEF PromotionInv, AllOrNothing
  <2>3. CASE backups # {}
    <3>1. PICK s \in backups :
             /\ target' = [target EXCEPT ![s] = backup[input][s]]
             /\ backup' = [backup EXCEPT ![input][s] = NoDirectory]
             /\ backups' = backups \ {s}
             /\ UNCHANGED <<candidate, pc, outcome>>
      BY <1>7, <2>3 DEF RestoreBackups
    <3>2. Recoverable'
      BY ZenonT(40), <1>7, <2>1, <3>1 DEF RestoreBackups, Recoverable, PromotionTypeOK, Staged
    <3> QED BY <1>7, <2>1, <3>1, <3>2 DEF RestoreBackups, PromotionInv, AllOrNothing
  <2> QED BY <2>2, <2>3
<1>8. CASE RemoveBackups
  BY <1>8 DEF RemoveBackups, PromotionInv, AllOrNothing, Staged
<1>9. CASE Crash
  BY <1>9 DEF Crash, PromotionInv, AllOrNothing
<1>10. CASE UNCHANGED promotionVars
  BY <1>10 DEF promotionVars, PromotionInv, Recoverable, LoopInv, AllOrNothing, Staged
<1> QED BY <1>1, <1>2, <1>3, <1>4, <1>5, <1>6, <1>7, <1>8, <1>9, <1>10 DEF PromotionNext

\* PromotionInv is an invariant, crashes included.
THEOREM PromotionInvariant == PromotionSpec => []PromotionInv
<1>1. PromotionInit => PromotionInv
  BY DEF PromotionInit, PromotionInv, Promoting, RollingBack, AllOrNothing
<1> QED BY <1>1, InvStep, TypeCorrect, PTL DEF PromotionSpec

\* A run that ends without dying changed all of its directories or none.
THEOREM RunIsAllOrNothing == PromotionSpec => []AllOrNothing
<1>1. PromotionInv => AllOrNothing
  BY DEF PromotionInv
<1> QED BY <1>1, PromotionInvariant, PTL

(***************************************************************************)
(* The loss of the process                                                 *)
(***************************************************************************)
\* What Recoverable says once the lists of the run are lost with the process.
WithinReach ==
  \A s \in Slots : target[s] \in {before[s], Staged[s]} \/ backup[input][s] = before[s]

CrashInv == outcome = "crashed" => pc = "idle" /\ WithinReach

LEMMA RunIsWithinReach == PromotionInv /\ pc # "idle" /\ PromotionTypeOK => WithinReach
<1> SUFFICES ASSUME PromotionInv, pc # "idle", PromotionTypeOK, NEW s \in Slots
             PROVE  target[s] \in {before[s], Staged[s]} \/ backup[input][s] = before[s]
  BY DEF WithinReach
<1>1. CASE pc = "cleanup"
  BY <1>1 DEF PromotionInv
<1>2. CASE pc # "cleanup"
  <2>1. Recoverable
    BY <1>2 DEF PromotionInv, PromotionTypeOK
  <2> QED BY <2>1 DEF Recoverable
<1> QED BY <1>1, <1>2

LEMMA CrashStep == ASSUME PromotionTypeOK, PromotionInv, CrashInv, [PromotionNext]_promotionVars PROVE CrashInv'
<1> USE DEF dirs, locals
<1>1. CASE Crash
  <2>1. WithinReach /\ pc' = "idle" /\ UNCHANGED <<target, backup, input, before>>
    BY <1>1, RunIsWithinReach DEF Crash
  <2> QED BY <2>1 DEF CrashInv, WithinReach, Staged
<1>2. CASE UNCHANGED promotionVars
  BY <1>2 DEF promotionVars, CrashInv, WithinReach, Staged
<1>3. CASE \E i \in Inputs : Stage(i)
  BY <1>3 DEF Stage, CrashInv
<1>4. CASE DropStaleBackup \/ SaveTarget \/ Install \/ Raise \/ RemoveInstalled \/ RestoreBackups \/ RemoveBackups
  <2>1. pc # "idle" /\ outcome # "crashed"
    BY <1>4 DEF DropStaleBackup, SaveTarget, Install, Raise, RemoveInstalled, RestoreBackups,
       RemoveBackups, CrashInv, Promoting
  <2>2. outcome' \in {outcome, "raised", "success", "raised late"}
    BY <1>4 DEF DropStaleBackup, SaveTarget, Install, Raise, RemoveInstalled, RestoreBackups, RemoveBackups
  <2> QED BY <2>1, <2>2 DEF CrashInv
<1> QED BY <1>1, <1>2, <1>3, <1>4 DEF PromotionNext

\* For any number of directories, wherever the process dies: each directory is the old or
\* the new one, or its backup holds what the run found.
THEOREM CrashesAreRecoverable == PromotionSpec => []CrashIsRecoverable
<1>1. PromotionInit => CrashInv
  BY DEF PromotionInit, CrashInv
<1>2. CrashInv => CrashIsRecoverable
  BY DEF CrashInv, CrashIsRecoverable, WithinReach, Staged
<1> QED BY <1>1, <1>2, CrashStep, TypeCorrect, PromotionInvariant, PTL DEF PromotionSpec

(***************************************************************************)
(* The implementation of AtomicPromotion                                   *)
(***************************************************************************)

\* Without crashes there is always a registry: what a run reads is what it replaces.
RegistryExists ==
  /\ pc \in Promoting \cup RollingBack => before[1] # NoDirectory
  /\ pc \in {"idle", "cleanup"} => target[1] # NoDirectory

LEMMA ExistsStep ==
  ASSUME crashes = 0, crashes' = 0, PromotionTypeOK, PromotionTypeOK', PromotionInv, PromotionInv', RegistryExists,
         [PromotionNext]_promotionVars
  PROVE  RegistryExists'
<1> USE DEF dirs, locals, Promoting, RollingBack
<1>0. ~Crash
  BY DEF Crash
<1>1. ASSUME NEW i \in Inputs, Stage(i) PROVE RegistryExists'
  BY <1>1 DEF Stage, RegistryExists
<1>2. CASE DropStaleBackup \/ SaveTarget \/ Raise \/ RemoveInstalled
  BY <1>2 DEF DropStaleBackup, SaveTarget, Raise, RemoveInstalled, RegistryExists
<1>3. CASE Install
  <2>1. pc' \in {"stale", "cleanup"} /\ before' = before /\ before[1] # NoDirectory
    BY <1>3 DEF Install, RegistryExists
  <2>2. pc' = "cleanup" => target'[1] # NoDirectory
    <3> HIDE DEF dirs, locals, Promoting, RollingBack
    <3>2. /\ pc' = "cleanup" => target' = Staged'
          /\ 1 \in Slots /\ before'[1] \in MaybeContent /\ input' \in Inputs
      BY Basics DEF PromotionInv, PromotionTypeOK
    <3>3. Snapshot(before'[1]) \in Atomic!Content
      BY <3>2, PromotionAssumption DEF Snapshot, MaybeContent, Atomic!Content
    <3>4. Staged'[1] \in Atomic!Content
      BY <3>2, <3>3 DEF Staged, Snapshot, Atomic!Updated, Atomic!Content, Slots
    <3> QED BY <3>2, <3>4, AbsentAssumption
  <2> QED BY <2>1, <2>2 DEF RegistryExists
<1>4. CASE RestoreBackups
  <2>1. CASE pc' = "restore"
    BY <1>4, <2>1 DEF RestoreBackups, RegistryExists
  <2>2. CASE pc' # "restore"
    <3>1. /\ backups = {} /\ pc' = "idle" /\ target' = target /\ before[1] # NoDirectory
      BY <1>4, <2>2 DEF RestoreBackups, RegistryExists
    <3>2. target[1] = before[1]
      BY <1>4, <3>1, Basics DEF RestoreBackups, PromotionInv, Recoverable
    <3> QED BY <3>1, <3>2 DEF RegistryExists
  <2> QED BY <2>1, <2>2
<1>5. CASE RemoveBackups
  BY <1>5 DEF RemoveBackups, RegistryExists
<1>6. CASE UNCHANGED promotionVars
  BY <1>6 DEF promotionVars, RegistryExists
<1> QED BY <1>0, <1>1, <1>2, <1>3, <1>4, <1>5, <1>6 DEF PromotionNext

\* Every statement is a stutter, but the last install, which promotes the input.
LEMMA RefineStep ==
  ASSUME crashes = 0, crashes' = 0, PromotionTypeOK, PromotionInv, PromotionInv', RegistryExists, [PromotionNext]_promotionVars
  PROVE  UNCHANGED Published \/ \E i \in Inputs : Published' = Atomic!Updated(Published[1], i)
<1> USE DEF dirs, locals, Promoting, RollingBack
<1>0. ~Crash
  BY DEF Crash
<1>1. ASSUME NEW i \in Inputs, Stage(i) PROVE UNCHANGED Published
  BY <1>1 DEF Stage, Published
<1>2. CASE DropStaleBackup \/ SaveTarget \/ Raise \/ RemoveInstalled
  <2>1. UNCHANGED Published
    BY <1>2 DEF DropStaleBackup, SaveTarget, Raise, RemoveInstalled, Published
  <2> QED BY <2>1
<1>3. CASE Install
  <2>1. CASE k # N
    <3>1. UNCHANGED Published
      BY <1>3, <2>1 DEF Install, Published
    <3> QED BY <3>1
  <2>2. CASE k = N
    <3>1. /\ pc' = "cleanup" /\ before' = before /\ input' = input
          /\ Published = before /\ Published' = target' /\ before[1] # NoDirectory
      BY <1>3, <2>2 DEF Install, Published, RegistryExists
    <3>2. target' = Atomic!Updated(Snapshot(before[1]), input)
      BY <3>1 DEF PromotionInv, Staged
    <3>3. Published' = Atomic!Updated(Published[1], input)
      BY <3>1, <3>2 DEF Snapshot
    <3>4. input \in Inputs
      BY DEF PromotionTypeOK
    <3> QED BY <3>3, <3>4
  <2> QED BY <2>1, <2>2
<1>4. CASE RestoreBackups
  <2>1. CASE pc' = "restore"
    <3>1. UNCHANGED Published
      BY <1>4, <2>1 DEF RestoreBackups, Published
    <3> QED BY <3>1
  <2>2. CASE pc' # "restore"
    <3>1. /\ backups = {} /\ installed = {} /\ Recoverable
          /\ pc' = "idle" /\ target' = target /\ Published = before /\ Published' = target'
      BY <1>4, <2>2 DEF RestoreBackups, Published, PromotionInv
    <3>2. \A s \in Slots : target[s] = before[s]
      BY <3>1 DEF Recoverable
    <3>3. /\ target = [s \in Slots |-> target[s]]
          /\ before = [s \in Slots |-> before[s]]
      BY DEF PromotionTypeOK
    <3> QED BY <3>1, <3>2, <3>3
  <2> QED BY <2>1, <2>2
<1>5. CASE RemoveBackups
  <2>1. UNCHANGED Published
    BY <1>5 DEF RemoveBackups, Published
  <2> QED BY <2>1
<1>6. CASE UNCHANGED promotionVars
  BY <1>6 DEF promotionVars, Published
<1> QED BY <1>0, <1>1, <1>2, <1>3, <1>4, <1>5, <1>6 DEF PromotionNext

\* While no process died, process_product implements the atomic promotion of all of its
\* directories.
THEOREM Refinement == PromotionSpec => PromotesAtomically
<1> DEFINE Exists == crashes = 0 => RegistryExists
<1>1. PromotionInit => Atomic!Init /\ Exists
  <2> SUFFICES ASSUME PromotionInit PROVE Atomic!Init /\ RegistryExists
    OBVIOUS
  <2>1. Published = target
    BY DEF PromotionInit, Published, Promoting, RollingBack
  <2>2. target[1] \in Atomic!Content
    BY PromotionAssumption DEF PromotionInit, Atomic!Initially, Atomic!Content
  <2>3. (crashes > 0) = FALSE
    BY DEF PromotionInit
  <2> QED
    BY <2>1, <2>2, <2>3, AbsentAssumption
       DEF PromotionInit, Atomic!Init, RegistryExists, Promoting, RollingBack
<1>2. ASSUME PromotionTypeOK, PromotionTypeOK', [PromotionNext]_promotionVars
      PROVE  /\ crashes \in Nat /\ crashes' \in Nat
             /\ crashes' = 0 => crashes = 0
  <2>1. crashes \in Nat /\ crashes' \in Nat
    <3>1. crashes \in 0..MaxCrashes /\ crashes' \in 0..MaxCrashes
      BY <1>2 DEF PromotionTypeOK
    <3>2. 0..MaxCrashes \subseteq Nat
      BY PromotionAssumption
    <3> QED BY <3>1, <3>2
  <2>2. CASE Crash
    BY <2>1, <2>2 DEF Crash
  <2>3. CASE ~Crash
    <3>1. crashes' = crashes
      BY <1>2, <2>3 DEF PromotionNext, Stage, DropStaleBackup, SaveTarget, Install, Raise,
                RemoveInstalled, RestoreBackups, RemoveBackups, promotionVars
    <3> QED BY <2>1, <3>1
  <2> QED BY <2>1, <2>2, <2>3
<1>3. PromotionTypeOK /\ PromotionTypeOK' /\ PromotionInv /\ PromotionInv' /\ Exists /\ [PromotionNext]_promotionVars => Exists'
  BY <1>2, ExistsStep
<1>4. ASSUME PromotionTypeOK, PromotionTypeOK', PromotionInv, PromotionInv', Exists, [PromotionNext]_promotionVars
      PROVE  [Atomic!Next]_<<Published, crashes > 0>>
  <2>1. CASE crashes' = 0
    <3>1. crashes = 0
      BY <2>1, <1>2, <1>4
    <3>2. UNCHANGED Published \/ \E i \in Inputs : Published' = Atomic!Updated(Published[1], i)
      BY <2>1, <3>1, <1>4, RefineStep
    <3>3. ~(crashes > 0) /\ (crashes > 0)' = (crashes > 0)
      BY <2>1, <3>1
    <3> QED BY <3>2, <3>3 DEF Atomic!Next, Atomic!Promote
  <2>2. CASE crashes' # 0
    <3>1. (crashes > 0)' = TRUE
      BY <2>2, <1>2, <1>4
    <3> QED BY <3>1 DEF Atomic!Next, Atomic!Die
  <2> QED BY <2>1, <2>2
<1> HIDE DEF Exists
<1> QED
  BY <1>1, <1>3, <1>4, TypeCorrect, PromotionInvariant, PTL
     DEF PromotionSpec, PromotesAtomically, Atomic!Spec

-----------------------------------------------------------------------------
(* The reports of a product that failed *)

WriterFields == {"at", "capable", "extras", "anchors", "seen", "level", "round", "name",
                 "todo", "staged", "present", "failure", "answer"}

Opening  == {"start", "lstat", "lstat again", "mkdir", "open"}
Staging  == {"validate", "create", "fill"}
Renaming == {"revalidate", "replace"}
Working  == {"identity", "fsync"} \cup Staging \cup Renaming

WriterShape ==
  /\ DOMAIN writer = WriterFields
  /\ writer.at \in Opening \cup Working \cup {"cleanup", "ended"}
  /\ writer.anchors \in Seq(Dirs) /\ writer.extras \in Extras
  /\ writer.level \in Nat /\ writer.round \in Nat
  /\ writer.todo \subseteq Payloads(writer.extras)
  /\ writer.staged \subseteq Payloads(writer.extras)
  /\ DOMAIN files = Dirs /\ DOMAIN temps = Dirs
  /\ \A d \in Dirs : DOMAIN files[d] = Names /\ DOMAIN temps[d] = Names

\* What the place of the run says of its locals.
WriterPlace ==
  /\ writer.at \in Opening => writer.staged = {} /\ writer.round = 1 /\ writer.level = 1
  /\ writer.at \in Opening \ {"start"} => Len(writer.anchors) \in 1..Depth
  /\ writer.at = "open" => writer.seen \in Dirs
  /\ writer.at \in Working \/ writer.staged # {} => Len(writer.anchors) = Depth + 1
  /\ writer.at \in Working \ {"identity"} => writer.level = 1
  /\ writer.at = "identity" => writer.level \in 1..Depth /\ writer.round \in 1..3
  /\ writer.at \in Staging => writer.round = 2
  /\ writer.at \in Renaming => writer.round = 3
  /\ writer.at = "fill" => writer.name \in writer.staged
  /\ writer.at = "cleanup" => writer.staged # {} /\ writer.failure # "written"
  /\ writer.at # "ended" => writer.answer = "none"

Renamed == writer.at = "fsync" \/ (writer.at = "identity" /\ writer.round = 3)

\* A temporary file is in the directory the run holds, and its name is staged; once
\* every payload is renamed there is none.
WriterTemps ==
  \A d \in Dirs, n \in Names : temps[d][n] # "none" =>
    /\ d = Here /\ n \in writer.staged /\ ~Renamed
    /\ writer.at = "replace" => n \in writer.todo

Kept(n) == files[Here][n] \notin {"old", "absent"}

WriterFiles ==
  /\ \A d \in Dirs, n \in Names : files[d][n] = "new" => d = Here /\ writer.round >= 3
  /\ HashedAreNew
  /\ writer.at = "replace" => \A n \in Payloads(writer.extras) \ writer.todo : Kept(n)
  /\ Renamed => \A n \in Payloads(writer.extras) : Kept(n)
  /\ writer.at = "replace" /\ Repair \notin writer.extras /\ Repair \notin writer.present
       => files[Here][Repair] # "old"
  /\ Renamed => files[Here][Repair] # "old"

\* A component of the chain leads on, or was moved after the last rename.
Leads(i) == child[writer.anchors[i]] = writer.anchors[i + 1] \/ writer.anchors[i] \in moved

WriterChain ==
  /\ writer.at = "identity" /\ writer.round = 3 => \A i \in 1..(writer.level - 1) : Leads(i)
  /\ writer.at = "fsync" => \A i \in 1..Depth : Leads(i)

WriterInv ==
  /\ WriterShape /\ WriterPlace /\ WriterTemps /\ WriterFiles /\ WriterChain /\ EndsAreClean

LEMMA PayloadNames ==
  \A x \in Extras : /\ Payloads(x) \subseteq Names /\ QualityReport \in Payloads(x)
                    /\ Repair \notin x => Repair \notin Payloads(x)
BY WriterAssumption DEF Extras, Payloads, Names, QualityReport, Repair

LEMMA HereIsADirectory ==
  ASSUME WriterShape, Len(writer.anchors) > 0
  PROVE  Here \in Dirs
BY DEF WriterShape, Here

\* Before a run has staged anything there is nothing of it on the disk.
LEMMA NothingYet ==
  ASSUME WriterInv, writer.at \in Opening \/ writer.round < 3
  PROVE  /\ \A d \in Dirs, n \in Names : files[d][n] # "new"
         /\ writer.at \in Opening => \A d \in Dirs, n \in Names : temps[d][n] = "none"
BY DEF WriterInv, WriterShape, WriterPlace, WriterTemps, WriterFiles

LEMMA OpeningKeeps ==
  ASSUME WriterInv, writer.at \in Opening, files' = files, temps' = temps,
         WriterShape', WriterPlace', writer'.at \in Opening \cup {"identity"}, writer'.round = 1
  PROVE  WriterInv'
<1>1. \A d \in Dirs, n \in Names : files'[d][n] # "new" /\ temps'[d][n] = "none"
  BY NothingYet
<1>0. /\ writer'.at \notin {"fsync", "replace", "ended"} /\ writer'.round # 3
      /\ writer'.answer = "none"
  <2>1. writer'.at \notin {"fsync", "replace", "ended"}
    BY DEF Opening
  <2>2. writer'.round # 3
    OBVIOUS
  <2> QED BY <2>1, <2>2 DEF WriterPlace
<1>2. ~Renamed' /\ writer'.at # "replace" /\ writer'.answer = "none" /\ writer'.at # "ended"
  BY <1>0 DEF Renamed
<1>3. HashedAreNew'
  BY <1>1 DEF HashedAreNew, Names
<1>4. WriterTemps' /\ WriterFiles'
  BY <1>1, <1>2, <1>3 DEF WriterTemps, WriterFiles
<1>5. WriterChain'
  BY <1>0 DEF WriterChain
<1>6. EndsAreClean'
  BY <1>2 DEF EndsAreClean, SuccessIsInPlace, NothingIsLeftBehind
<1> QED BY <1>4, <1>5, <1>6 DEF WriterInv

\* A run that ends without success, or goes to clean up first.
LEMMA EndingKeeps ==
  ASSUME WriterInv, writer.at # "ended", UNCHANGED <<files, temps>>,
         DOMAIN writer' = WriterFields,
         \A f \in WriterFields \ {"at", "failure", "answer"} : writer'[f] = writer[f],
         \/ writer'.at = "cleanup" /\ writer.staged # {} /\ writer'.failure # "written"
              /\ writer'.answer = "none"
         \/ writer'.at = "ended" /\ writer'.answer # "written"
              /\ (writer.staged = {} \/ writer'.answer \in {"died", "not cleaned up"})
  PROVE  WriterInv'
<1>1. /\ writer'.anchors = writer.anchors /\ writer'.extras = writer.extras
      /\ writer'.level = writer.level /\ writer'.round = writer.round
      /\ writer'.todo = writer.todo /\ writer'.staged = writer.staged
      /\ writer'.at \in {"cleanup", "ended"} /\ writer'.answer # "written"
  BY DEF WriterFields
<1>2. WriterShape'
  BY <1>1 DEF WriterInv, WriterShape
<1>3. WriterPlace'
  BY <1>1 DEF WriterInv, WriterPlace, Opening, Working, Staging, Renaming
<1>4. ~Renamed' /\ Here' = Here
  BY <1>1 DEF Renamed, Here
<1>5. WriterTemps'
  BY <1>1, <1>4 DEF WriterInv, WriterTemps
<1>6. WriterFiles'
  BY <1>1, <1>4 DEF WriterInv, WriterFiles, HashedAreNew
<1>7. WriterChain'
  BY <1>1 DEF WriterChain
<1>8. EndsAreClean'
  <2>1. SuccessIsInPlace'
    BY <1>1 DEF SuccessIsInPlace
  <2>2. NothingIsLeftBehind'
    BY <1>1 DEF WriterInv, WriterTemps, NothingIsLeftBehind
  <2> QED BY <2>1, <2>2 DEF EndsAreClean
<1> QED BY <1>2, <1>3, <1>5, <1>6, <1>7, <1>8 DEF WriterInv

LEMMA RaisedKeeps ==
  ASSUME WriterInv, writer.at \notin {"cleanup", "ended"}, UNCHANGED <<files, temps>>,
         NEW code, code \notin {"written"}, writer' = Raised(writer, code)
  PROVE  WriterInv'
<1>1. DOMAIN writer = WriterFields /\ writer.answer = "none"
  BY DEF WriterInv, WriterShape, WriterPlace
<1>2. /\ DOMAIN writer' = WriterFields
      /\ \A f \in WriterFields \ {"at", "failure", "answer"} : writer'[f] = writer[f]
      /\ writer'.failure = code
      /\ writer.staged = {} => writer'.at = "ended" /\ writer'.answer = code
      /\ writer.staged # {} => writer'.at = "cleanup" /\ writer'.answer = "none"
  BY <1>1 DEF Raised, WriterFields
<1> QED BY <1>2, EndingKeeps

LEMMA OpeningSteps ==
  ASSUME WriterInv, Unsupported \/ OpenRoot \/ Lookup \/ Mkdir \/ OpenComponent
  PROVE  WriterInv'
<1>0. WriterShape /\ WriterPlace /\ DOMAIN writer = WriterFields
  BY DEF WriterInv, WriterShape
<1>1. files' = files /\ temps' = temps /\ writer.at \in Opening
  BY DEF Unsupported, OpenRoot, Lookup, Mkdir, OpenComponent, Opening
<1>2. \A e : Refusal(e) # "written"
  BY DEF Refusal
<1>3. CASE \E e : writer' = Raised(writer, Refusal(e))
  BY <1>1, <1>2, <1>3, RaisedKeeps DEF Opening
<1>4. CASE Unsupported
  <2>1. /\ DOMAIN writer' = WriterFields
        /\ \A f \in WriterFields \ {"at", "failure", "answer"} : writer'[f] = writer[f]
        /\ writer'.at = "ended" /\ writer'.answer # "written"
    BY <1>0, <1>4 DEF Unsupported, WriterFields
  <2>2. writer.staged = {}
    BY <1>0, <1>1 DEF WriterPlace
  <2> QED BY <1>1, <2>1, <2>2, EndingKeeps DEF Opening
<1>5. CASE OpenRoot
  <2>1. /\ DOMAIN writer' = WriterFields /\ writer'.at = "lstat" /\ writer'.anchors = <<Top>>
        /\ \A f \in WriterFields \ {"at", "anchors"} : writer'[f] = writer[f]
    BY <1>0, <1>5 DEF OpenRoot, WriterFields
  <2>2. /\ writer'.extras = writer.extras /\ writer'.level = writer.level
        /\ writer'.round = writer.round /\ writer'.todo = writer.todo
        /\ writer'.staged = writer.staged /\ writer'.answer = writer.answer
    BY <2>1 DEF WriterFields
  <2>3. writer'.anchors \in Seq(Dirs) /\ Len(writer'.anchors) = 1
    BY <2>1, WriterAssumption
  <2>4. WriterShape'
    BY <1>0, <1>1, <2>1, <2>2, <2>3 DEF WriterShape, Opening
  <2>5. WriterPlace'
    <3>1. 1 \in 1..Depth
      BY WriterAssumption
    <3>2. writer.staged = {} /\ writer.round = 1 /\ writer.level = 1 /\ writer.answer = "none"
      BY <1>0, <1>1 DEF WriterPlace, Opening
    <3>3. writer'.at = "lstat" /\ writer'.at \notin Working
      BY <2>1 DEF Working, Staging, Renaming
    <3> QED BY <2>2, <2>3, <3>1, <3>2, <3>3 DEF WriterPlace, Staging, Renaming
  <2>6. writer'.round = 1 /\ writer'.at \in Opening
    BY <1>0, <1>1, <2>1, <2>2 DEF WriterPlace, Opening
  <2> QED BY <1>1, <2>4, <2>5, <2>6, OpeningKeeps
<1>6. ASSUME NEW place \in {"open", "mkdir", "lstat again"}, NEW s, s = writer.seen \/ s \in Dirs,
             place = "open" => s \in Dirs,
             DOMAIN writer' = WriterFields, writer'.at = place, writer'.seen = s,
             \A f \in WriterFields \ {"at", "seen"} : writer'[f] = writer[f],
             writer.at # "start"
      PROVE  WriterInv'
  <2>1. /\ writer'.extras = writer.extras /\ writer'.level = writer.level
        /\ writer'.round = writer.round /\ writer'.todo = writer.todo
        /\ writer'.staged = writer.staged /\ writer'.answer = writer.answer
        /\ writer'.anchors = writer.anchors
    BY <1>6 DEF WriterFields
  <2>2. WriterShape'
    BY <1>0, <1>1, <1>6, <2>1 DEF WriterShape, Opening
  <2>3. WriterPlace'
    BY <1>0, <1>1, <1>6, <2>1 DEF WriterPlace, Opening, Working, Staging, Renaming
  <2>4. writer'.round = 1 /\ writer'.at \in Opening
    BY <1>0, <1>1, <1>6, <2>1 DEF WriterPlace, Opening
  <2> QED BY <1>1, <2>2, <2>3, <2>4, OpeningKeeps
<1>7. CASE Lookup
  <2>1. CASE child[Here] \in Dirs
    <3>1. /\ DOMAIN writer' = WriterFields /\ writer'.at = "open" /\ writer'.seen = child[Here]
          /\ \A f \in WriterFields \ {"at", "seen"} : writer'[f] = writer[f]
      BY <1>0, <1>7, <2>1 DEF Lookup, WriterFields
    <3> QED BY <1>6, <1>7, <2>1, <3>1 DEF Lookup
  <2>2. CASE child[Here] \notin Dirs /\ writer' = Goto(writer, "mkdir")
    <3>1. /\ DOMAIN writer' = WriterFields /\ writer'.at = "mkdir" /\ writer'.seen = writer.seen
          /\ \A f \in WriterFields \ {"at", "seen"} : writer'[f] = writer[f]
      BY <1>0, <2>2 DEF Goto, WriterFields
    <3> QED BY <1>6, <1>7, <3>1 DEF Lookup
  <2> QED BY <1>3, <1>7, <2>1, <2>2 DEF Lookup
<1>8. CASE Mkdir
  <2>1. CASE writer' = Goto(writer, "lstat again")
    <3>1. /\ DOMAIN writer' = WriterFields /\ writer'.at = "lstat again" /\ writer'.seen = writer.seen
          /\ \A f \in WriterFields \ {"at", "seen"} : writer'[f] = writer[f]
      BY <1>0, <2>1 DEF Goto, WriterFields
    <3> QED BY <1>6, <1>8, <3>1 DEF Mkdir
  <2> QED BY <1>3, <1>8, <2>1 DEF Mkdir
<1>9. CASE OpenComponent
  <2>1. CASE child[Here] # writer.seen
    BY <1>3, <1>9, <2>1 DEF OpenComponent
  <2>2. CASE child[Here] = writer.seen
    <3> DEFINE last == Len(writer.anchors) = Depth
    <3>1. /\ DOMAIN writer' = WriterFields
          /\ writer'.at = IF last THEN "identity" ELSE "lstat"
          /\ writer'.anchors = Append(writer.anchors, writer.seen)
          /\ \A f \in WriterFields \ {"at", "anchors"} : writer'[f] = writer[f]
      BY <1>0, <1>9, <2>2 DEF OpenComponent, WriterFields
    <3>2. /\ writer'.extras = writer.extras /\ writer'.level = writer.level
          /\ writer'.round = writer.round /\ writer'.todo = writer.todo
          /\ writer'.staged = writer.staged /\ writer'.answer = writer.answer
      BY <3>1 DEF WriterFields
    <3>3. /\ writer.at = "open" /\ writer.seen \in Dirs /\ Len(writer.anchors) \in 1..Depth
          /\ writer.staged = {} /\ writer.round = 1 /\ writer.level = 1
      BY <1>0, <1>9 DEF OpenComponent, WriterPlace, Opening
    <3>4. writer'.anchors \in Seq(Dirs) /\ Len(writer'.anchors) = Len(writer.anchors) + 1
      BY <1>0, <3>1, <3>3 DEF WriterShape
    <3>5. WriterShape'
      BY <1>0, <1>1, <3>1, <3>2, <3>4 DEF WriterShape, Opening, Working
    <3>6. Depth \in Nat \ {0}
      BY WriterAssumption
    <3>7. CASE last
      <4>1. writer'.at = "identity" /\ Len(writer'.anchors) = Depth + 1
        BY <3>1, <3>4, <3>7
      <4>2. WriterPlace'
        BY <1>0, <3>2, <3>3, <3>6, <4>1 DEF WriterPlace, Opening, Working, Staging, Renaming
      <4> QED BY <1>1, <3>2, <3>3, <3>5, <4>1, <4>2, OpeningKeeps
    <3>8. CASE ~last
      <4>1. writer'.at = "lstat" /\ Len(writer'.anchors) \in 1..Depth
        BY <3>1, <3>3, <3>4, <3>6, <3>8
      <4>2. WriterPlace'
        BY <1>0, <3>2, <3>3, <3>6, <4>1 DEF WriterPlace, Opening, Working, Staging, Renaming
      <4> QED BY <1>1, <3>2, <3>3, <3>5, <4>1, <4>2, OpeningKeeps DEF Opening
    <3> QED BY <3>7, <3>8
  <2> QED BY <2>1, <2>2
<1> QED BY <1>4, <1>5, <1>7, <1>8, <1>9

\* Where a run works, its chain is complete and Here is quality/.
LEMMA AtWork ==
  ASSUME WriterShape, WriterPlace, writer.at \in Working \/ writer.staged # {}
  PROVE  /\ Len(writer.anchors) = Depth + 1 /\ Here = writer.anchors[Depth + 1] /\ Here \in Dirs
         /\ \A i \in 1..(Depth + 1) : writer.anchors[i] \in Dirs
<1>1. Len(writer.anchors) = Depth + 1 /\ Depth \in Nat \ {0} /\ writer.anchors \in Seq(Dirs)
  BY WriterAssumption DEF WriterPlace, WriterShape
<1> QED BY <1>1 DEF Here

\* A step that writes nothing and goes on.
LEMMA LocalKeeps ==
  ASSUME WriterInv, writer.at \in Working, UNCHANGED <<files, temps>>,
         WriterShape', WriterPlace', WriterChain', writer'.at \in Working,
         writer'.anchors = writer.anchors, writer'.extras = writer.extras,
         writer'.staged = writer.staged,
         writer'.round >= writer.round, Renamed' => Renamed,
         writer'.at = "replace" =>
           /\ writer'.todo = Payloads(writer.extras)
           /\ Repair \notin writer.extras /\ Repair \notin writer'.present => files[Here][Repair] # "old"
  PROVE  WriterInv'
<1>1. Here' = Here /\ writer'.at # "ended" /\ writer'.answer = "none"
      /\ writer.round \in Nat /\ writer'.round \in Nat
  BY DEF Here, Working, Staging, Renaming, WriterPlace, WriterInv, WriterShape
<1>2. writer.staged \subseteq Payloads(writer.extras)
  BY DEF WriterInv, WriterShape
<1>3. WriterTemps'
  BY <1>1, <1>2 DEF WriterInv, WriterTemps
<1>4. \A d \in Dirs, n \in Names : files'[d][n] = "new" => d = Here' /\ writer'.round >= 3
  BY <1>1 DEF WriterInv, WriterFiles
<1>5. HashedAreNew'
  BY DEF WriterInv, WriterFiles, HashedAreNew
<1>6. /\ writer'.at = "replace" => \A n \in Payloads(writer'.extras) \ writer'.todo : Kept(n)'
      /\ Renamed' => \A n \in Payloads(writer'.extras) : Kept(n)'
      /\ writer'.at = "replace" /\ Repair \notin writer'.extras /\ Repair \notin writer'.present
           => files'[Here'][Repair] # "old"
      /\ Renamed' => files'[Here'][Repair] # "old"
  BY <1>1 DEF WriterInv, WriterFiles, Kept
<1>7. WriterFiles'
  BY <1>4, <1>5, <1>6 DEF WriterFiles
<1>8. EndsAreClean'
  BY <1>1 DEF EndsAreClean, SuccessIsInPlace, NothingIsLeftBehind
<1> QED BY <1>3, <1>7, <1>8 DEF WriterInv

LEMMA IdentityKeeps ==
  ASSUME WriterInv, Identity
  PROVE  WriterInv'
<1> DEFINE entry == child[writer.anchors[writer.level]]
<1>0. /\ WriterShape /\ WriterPlace /\ WriterChain /\ DOMAIN writer = WriterFields
      /\ writer.at = "identity" /\ writer.level \in 1..Depth /\ writer.round \in 1..3
      /\ Len(writer.anchors) = Depth + 1 /\ writer.answer = "none"
      /\ UNCHANGED <<files, temps, child, moved>> /\ Depth \in Nat
  BY WriterAssumption DEF WriterInv, WriterShape, WriterPlace, Identity, Unmoved, Working
<1>1. CASE entry # writer.anchors[writer.level + 1]
  <2>1. writer' = Raised(writer, Refusal(entry)) /\ Refusal(entry) # "written"
    BY <1>1 DEF Identity, Refusal
  <2> QED BY <1>0, <2>1, RaisedKeeps
<1>2. CASE entry = writer.anchors[writer.level + 1] /\ writer.level < Depth
  <2>1. /\ DOMAIN writer' = WriterFields /\ writer'.level = writer.level + 1
        /\ \A f \in WriterFields \ {"level"} : writer'[f] = writer[f]
    BY <1>0, <1>2 DEF Identity, WriterFields
  <2>2. /\ writer'.at = writer.at /\ writer'.anchors = writer.anchors
        /\ writer'.extras = writer.extras /\ writer'.round = writer.round
        /\ writer'.todo = writer.todo /\ writer'.staged = writer.staged
        /\ writer'.answer = writer.answer
    BY <2>1 DEF WriterFields
  <2>3. writer'.level \in 1..Depth
    BY <1>0, <1>2, <2>1
  <2>4. WriterShape'
    BY <1>0, <2>1, <2>2, <2>3 DEF WriterShape
  <2>5. WriterPlace'
    BY <1>0, <2>2, <2>3 DEF WriterPlace, Opening, Working, Staging, Renaming
  <2>6. WriterChain'
    <3>1. Leads(writer.level)
      BY <1>2 DEF Leads
    <3>2. \A i : Leads(i)' = Leads(i)
      BY <1>0, <2>2 DEF Leads
    <3>3. writer.round = 3 => \A i \in 1..(writer'.level - 1) : Leads(i)
      BY <1>0, <2>1, <3>1 DEF WriterChain
    <3>4. \A i \in 1..(writer'.level - 1) : Leads(i) => Leads(i)'
      BY <3>2
    <3>5. writer'.at = "identity" /\ writer'.round = writer.round
      BY <1>0, <2>2
    <3>6. writer'.round = 3 => \A i \in 1..(writer'.level - 1) : Leads(i)'
      BY <3>3, <3>4, <3>5
    <3> QED BY <3>5, <3>6 DEF WriterChain
  <2>7. writer'.round >= writer.round /\ (Renamed' => Renamed)
    BY <1>0, <2>2 DEF Renamed
  <2>8. writer.at \in Working /\ writer'.at \in Working /\ writer'.at # "replace"
    BY <1>0, <2>2 DEF Working
  <2> QED BY <1>0, <2>2, <2>4, <2>5, <2>6, <2>7, <2>8, LocalKeeps
<1>3. CASE entry = writer.anchors[writer.level + 1] /\ writer.level = Depth
  <2> DEFINE place == CASE writer.round = 1 -> "validate" [] writer.round = 2 -> "revalidate" [] OTHER -> "fsync"
  <2>1. writer' = Checked(writer)
    BY <1>0, <1>3 DEF Identity
  <2>2. writer' = [writer EXCEPT !.at = place, !.level = 1, !.round = @ + 1]
    BY <2>1 DEF Checked
  <2> HIDE DEF place
  <2>3. /\ DOMAIN writer' = WriterFields /\ writer'.level = 1 /\ writer'.at = place
        /\ writer'.round = writer.round + 1
        /\ \A f \in WriterFields \ {"level", "at", "round"} : writer'[f] = writer[f]
    BY <1>0, <2>2 DEF WriterFields
  <2>4. /\ writer'.anchors = writer.anchors /\ writer'.extras = writer.extras
        /\ writer'.todo = writer.todo /\ writer'.staged = writer.staged
        /\ writer'.answer = writer.answer
    BY <2>3 DEF WriterFields
  <2>5. \/ writer.round = 1 /\ place = "validate" /\ writer'.round = 2
        \/ writer.round = 2 /\ place = "revalidate" /\ writer'.round = 3
        \/ writer.round = 3 /\ place = "fsync" /\ writer'.round = 4
    BY <1>0, <2>3 DEF place
  <2>6. WriterShape'
    <3>1. writer'.round \in Nat /\ writer'.at \in Working
      BY <2>3, <2>5 DEF Working, Staging, Renaming
    <3> QED BY <1>0, <2>3, <2>4, <3>1 DEF WriterShape
  <2>7. WriterPlace'
    BY <1>0, <2>3, <2>4, <2>5 DEF WriterPlace, Opening, Working, Staging, Renaming
  <2>8. WriterChain'
    <3>1. Leads(writer.level)
      BY <1>3 DEF Leads
    <3>2. \A i \in 1..Depth : Leads(i)' = Leads(i)
      BY <1>0, <2>4 DEF Leads
    <3>3. writer.round = 3 => \A i \in 1..Depth : Leads(i)
      BY <1>0, <1>3, <3>1 DEF WriterChain
    <3>4. writer'.at # "identity" /\ (writer'.at = "fsync" => writer.round = 3)
      BY <2>3, <2>5
    <3>5. writer'.at = "fsync" => \A i \in 1..Depth : Leads(i)'
      BY <3>2, <3>3, <3>4
    <3> QED BY <3>4, <3>5 DEF WriterChain
  <2>9. writer'.round >= writer.round /\ (Renamed' => Renamed)
    <3>1. Renamed' => writer'.at = "fsync"
      BY <2>3, <2>5 DEF Renamed
    <3> QED BY <1>0, <2>3, <2>5, <3>1 DEF Renamed
  <2>10. writer.at \in Working /\ writer'.at \in Working /\ writer'.at # "replace"
    BY <1>0, <2>3, <2>5 DEF Working, Staging, Renaming
  <2> QED BY <1>0, <2>4, <2>6, <2>7, <2>8, <2>9, <2>10, LocalKeeps
<1> QED BY <1>0, <1>1, <1>2, <1>3

LEMMA ValidateKeeps ==
  ASSUME WriterInv, Validate
  PROVE  WriterInv'
<1> DEFINE present == {n \in Names : files[Here][n] # "absent"}
<1>0. /\ WriterShape /\ WriterPlace /\ DOMAIN writer = WriterFields
      /\ writer.at \in {"validate", "revalidate"} /\ writer.at \in Working
      /\ writer.level = 1 /\ writer.round \in {2, 3} /\ writer.answer = "none"
      /\ Len(writer.anchors) = Depth + 1
      /\ UNCHANGED <<files, temps, child, moved>>
  BY DEF WriterInv, WriterShape, WriterPlace, Validate, Unmoved, Working, Staging, Renaming
<1>1. CASE writer' = Raised(writer, "PATH_TYPE_NOT_ALLOWED")
  BY <1>0, <1>1, RaisedKeeps
<1>2. CASE writer.at = "validate" /\ writer' = Goto(writer, "create")
  <2>1. /\ DOMAIN writer' = WriterFields /\ writer'.at = "create"
        /\ \A f \in WriterFields \ {"at"} : writer'[f] = writer[f]
    BY <1>0, <1>2 DEF Goto, WriterFields
  <2>2. /\ writer'.anchors = writer.anchors /\ writer'.extras = writer.extras
        /\ writer'.todo = writer.todo /\ writer'.staged = writer.staged
        /\ writer'.answer = writer.answer /\ writer'.level = writer.level
        /\ writer'.round = writer.round
    BY <2>1 DEF WriterFields
  <2>3. writer.round = 2
    BY <1>0, <1>2 DEF WriterPlace, Staging
  <2>4. WriterShape'
    BY <1>0, <2>1, <2>2 DEF WriterShape, Working, Staging
  <2>5. WriterPlace'
    BY <1>0, <2>1, <2>2, <2>3 DEF WriterPlace, Opening, Working, Staging, Renaming
  <2>6. WriterChain' /\ ~Renamed' /\ writer'.at \in Working
    BY <2>1 DEF WriterChain, Renamed, Working, Staging
  <2>7. writer'.round >= writer.round /\ writer'.at # "replace"
    BY <2>1, <2>2, <2>3
  <2> QED BY <1>0, <2>2, <2>4, <2>5, <2>6, <2>7, LocalKeeps
<1>3. CASE writer.at = "revalidate"
           /\ writer' = [writer EXCEPT !.at = "replace", !.present = present, !.todo = Payloads(writer.extras)]
  <2>0. \A n \in Names : n \notin present => files[Here][n] = "absent"
    OBVIOUS
  <2> HIDE DEF present
  <2>1. /\ DOMAIN writer' = WriterFields /\ writer'.at = "replace" /\ writer'.present = present
        /\ writer'.todo = Payloads(writer.extras)
        /\ \A f \in WriterFields \ {"at", "present", "todo"} : writer'[f] = writer[f]
    BY <1>0, <1>3 DEF WriterFields
  <2>2. /\ writer'.anchors = writer.anchors /\ writer'.extras = writer.extras
        /\ writer'.staged = writer.staged
        /\ writer'.answer = writer.answer /\ writer'.level = writer.level
        /\ writer'.round = writer.round
    BY <2>1 DEF WriterFields
  <2>3. writer.round = 3
    BY <1>0, <1>3 DEF WriterPlace, Renaming
  <2>4. WriterShape'
    BY <1>0, <2>1, <2>2 DEF WriterShape, Working, Renaming
  <2>5. WriterPlace'
    BY <1>0, <2>1, <2>2, <2>3 DEF WriterPlace, Opening, Working, Staging, Renaming
  <2>6. WriterChain' /\ ~Renamed' /\ writer'.at \in Working
    BY <2>1 DEF WriterChain, Renamed, Working, Renaming
  <2>7. writer'.round >= writer.round
    BY <2>2, <2>3
  <2>8. Repair \notin writer'.present => files[Here][Repair] # "old"
    BY <2>0, <2>1 DEF Names
  <2> QED BY <1>0, <2>1, <2>2, <2>4, <2>5, <2>6, <2>7, <2>8, LocalKeeps
<1> QED BY <1>0, <1>1, <1>2, <1>3 DEF Validate

\* While the payloads are staged no report changes.
LEMMA StagingKeeps ==
  ASSUME WriterInv, writer.at \in Staging, files' = files, WriterShape', WriterPlace', WriterTemps',
         writer'.at \in {"fill", "create", "identity"}, writer'.round = 2
  PROVE  WriterInv'
<1>1. writer.round = 2
  BY DEF WriterInv, WriterPlace
<1>2. \A d \in Dirs, n \in Names : files'[d][n] # "new"
  BY <1>1, NothingYet
<1>3. /\ writer'.at \notin {"fsync", "replace", "ended"} /\ writer'.round # 3
      /\ writer'.answer = "none"
  <2>1. writer'.at \notin {"fsync", "replace", "ended"}
    OBVIOUS
  <2>2. writer'.round # 3
    OBVIOUS
  <2> QED BY <2>1, <2>2 DEF WriterPlace
<1>4. ~Renamed'
  BY <1>3 DEF Renamed
<1>5. HashedAreNew'
  BY <1>2 DEF HashedAreNew, Names
<1>6. WriterFiles'
  BY <1>2, <1>3, <1>4, <1>5 DEF WriterFiles
<1>7. WriterChain'
  BY <1>3 DEF WriterChain
<1>8. EndsAreClean'
  BY <1>3 DEF EndsAreClean, SuccessIsInPlace, NothingIsLeftBehind
<1> QED BY <1>6, <1>7, <1>8 DEF WriterInv

LEMMA CreateKeeps ==
  ASSUME WriterInv, CreateTemporary
  PROVE  WriterInv'
<1>0. /\ WriterShape /\ WriterPlace /\ WriterTemps /\ DOMAIN writer = WriterFields
      /\ writer.at = "create" /\ writer.level = 1 /\ writer.round = 2 /\ writer.answer = "none"
      /\ Len(writer.anchors) = Depth + 1 /\ files' = files /\ Here \in Dirs
  BY AtWork DEF WriterInv, WriterShape, WriterPlace, CreateTemporary, Working, Staging
<1>1. PICK n \in Following(writer.todo) :
        /\ temps' = [temps EXCEPT ![Here][n] = "partial"]
        /\ writer' = [writer EXCEPT !.at = "fill", !.name = n, !.staged = @ \cup {n}]
  BY DEF CreateTemporary
<1>2. n \in Payloads(writer.extras)
  BY <1>0 DEF Following, WriterShape
<1>3. /\ DOMAIN writer' = WriterFields /\ writer'.at = "fill" /\ writer'.name = n
      /\ writer'.staged = writer.staged \cup {n}
      /\ \A f \in WriterFields \ {"at", "name", "staged"} : writer'[f] = writer[f]
  BY <1>0, <1>1 DEF WriterFields
<1>4. /\ writer'.anchors = writer.anchors /\ writer'.extras = writer.extras
      /\ writer'.todo = writer.todo /\ writer'.answer = writer.answer
      /\ writer'.level = writer.level /\ writer'.round = writer.round
  BY <1>3 DEF WriterFields
<1>5. /\ DOMAIN temps' = Dirs
      /\ \A d \in Dirs : /\ DOMAIN temps'[d] = Names
                         /\ \A m \in Names : temps'[d][m] # temps[d][m] => d = Here /\ m = n
  BY <1>0, <1>1 DEF WriterShape
<1>6. WriterShape'
  BY <1>0, <1>2, <1>3, <1>4, <1>5 DEF WriterShape, Working, Staging
<1>7. WriterPlace'
  BY <1>0, <1>3, <1>4 DEF WriterPlace, Opening, Working, Staging, Renaming
<1>8. Here' = Here /\ ~Renamed'
  BY <1>3, <1>4 DEF Here, Renamed
<1>9. WriterTemps'
  BY <1>0, <1>3, <1>5, <1>8 DEF WriterTemps
<1> QED BY <1>0, <1>3, <1>4, <1>6, <1>7, <1>9, StagingKeeps DEF Staging

LEMMA FillKeeps ==
  ASSUME WriterInv, FillTemporary
  PROVE  WriterInv'
<1> DEFINE left == writer.todo \ {writer.name}
           place == IF left = {} THEN "identity" ELSE "create"
<1>0. /\ WriterShape /\ WriterPlace /\ WriterTemps /\ DOMAIN writer = WriterFields
      /\ writer.at = "fill" /\ writer.level = 1 /\ writer.round = 2 /\ writer.answer = "none"
      /\ writer.name \in writer.staged
      /\ Len(writer.anchors) = Depth + 1 /\ files' = files /\ Here \in Dirs
  BY AtWork DEF WriterInv, WriterShape, WriterPlace, FillTemporary, Working, Staging
<1>1. /\ temps' = [temps EXCEPT ![Here][writer.name] = "complete"]
      /\ writer' = [writer EXCEPT !.at = place, !.todo = left]
  BY DEF FillTemporary
<1>2. left \subseteq writer.todo /\ place \in {"identity", "create"} /\ 1 \in 1..Depth
  BY WriterAssumption
<1> HIDE DEF left, place
<1>3. /\ DOMAIN writer' = WriterFields /\ writer'.at = place /\ writer'.todo = left
      /\ \A f \in WriterFields \ {"at", "todo"} : writer'[f] = writer[f]
  BY <1>0, <1>1 DEF WriterFields
<1>4. /\ writer'.anchors = writer.anchors /\ writer'.extras = writer.extras
      /\ writer'.staged = writer.staged /\ writer'.answer = writer.answer
      /\ writer'.level = writer.level /\ writer'.round = writer.round
  BY <1>3 DEF WriterFields
<1>5. /\ DOMAIN temps' = Dirs
      /\ \A d \in Dirs : /\ DOMAIN temps'[d] = Names
                         /\ \A m \in Names : temps'[d][m] # temps[d][m] => d = Here /\ m = writer.name
  BY <1>0, <1>1 DEF WriterShape
<1>6. WriterShape'
  BY <1>0, <1>2, <1>3, <1>4, <1>5 DEF WriterShape, Working, Staging
<1>7. WriterPlace'
  <2>1. writer'.at \in {"identity", "create"} /\ writer'.level = 1 /\ writer'.round = 2
        /\ writer'.answer = "none" /\ Len(writer'.anchors) = Depth + 1
    BY <1>0, <1>2, <1>3, <1>4
  <2>2. writer'.level \in 1..Depth /\ writer'.round \in 1..3
    BY <1>2, <2>1
  <2> QED BY <2>1, <2>2 DEF WriterPlace, Opening, Working, Staging, Renaming
<1>8. Here' = Here /\ ~Renamed' /\ writer'.at # "replace"
  <2>1. writer'.at \in {"identity", "create"} /\ writer'.round # 3
    <3>1. writer'.round = 2
      BY <1>0, <1>4
    <3> QED BY <1>2, <1>3, <3>1
  <2> QED BY <1>4, <2>1 DEF Here, Renamed
<1>9. WriterTemps'
  BY <1>0, <1>4, <1>5, <1>8 DEF WriterTemps
<1>10. writer'.at \in {"fill", "create", "identity"} /\ writer'.round = 2
  BY <1>0, <1>2, <1>3, <1>4
<1> QED BY <1>0, <1>6, <1>7, <1>9, <1>10, StagingKeeps DEF Staging

LEMMA ReplaceKeeps ==
  ASSUME WriterInv, Replace
  PROVE  WriterInv'
<1>0. /\ WriterShape /\ WriterPlace /\ WriterTemps /\ WriterFiles /\ DOMAIN writer = WriterFields
      /\ writer.at = "replace" /\ writer.level = 1 /\ writer.round = 3 /\ writer.answer = "none"
      /\ Len(writer.anchors) = Depth + 1 /\ Here \in Dirs
      /\ writer.todo \subseteq Payloads(writer.extras)
  BY AtWork DEF WriterInv, WriterShape, WriterPlace, Replace, Working, Renaming
<1>1. PICK n \in Following(writer.todo) :
        IF files[Here][n] = "directory"
        THEN /\ writer' = Raised(writer, "PATH_TYPE_NOT_ALLOWED")
             /\ UNCHANGED <<files, temps, moved>>
        ELSE /\ files' = [files EXCEPT ![Here][n] = "new"]
             /\ temps' = [temps EXCEPT ![Here][n] = "none"]
             /\ writer' = [writer EXCEPT !.todo = @ \ {n}]
             /\ moved' = {}
  BY DEF Replace
<1>2. CASE writer' = Raised(writer, "PATH_TYPE_NOT_ALLOWED") /\ UNCHANGED <<files, temps>>
  BY <1>0, <1>2, RaisedKeeps
<1>3. CASE /\ files' = [files EXCEPT ![Here][n] = "new"]
           /\ temps' = [temps EXCEPT ![Here][n] = "none"]
           /\ writer' = [writer EXCEPT !.todo = @ \ {n}]
  <2>1. n \in writer.todo /\ (n = QualityReport => writer.todo = {QualityReport})
    BY DEF Following
  <2>2. /\ DOMAIN writer' = WriterFields /\ writer'.todo = writer.todo \ {n}
        /\ \A f \in WriterFields \ {"todo"} : writer'[f] = writer[f]
    BY <1>0, <1>3 DEF WriterFields
  <2>3. /\ writer'.anchors = writer.anchors /\ writer'.extras = writer.extras
        /\ writer'.staged = writer.staged /\ writer'.answer = writer.answer
        /\ writer'.level = writer.level /\ writer'.round = writer.round
        /\ writer'.at = writer.at /\ writer'.present = writer.present
    BY <2>2 DEF WriterFields
  <2>4. /\ n \in Names /\ QualityReport \in Names /\ Payloads(writer.extras) \subseteq Names
        /\ Repair \in Names
    BY <1>0, <2>1, PayloadNames DEF WriterShape, Names
  <2>5. /\ DOMAIN temps' = Dirs /\ temps'[Here][n] = "none"
        /\ \A d \in Dirs : /\ DOMAIN temps'[d] = Names
                           /\ \A m \in Names : temps'[d][m] # temps[d][m] => d = Here /\ m = n
    BY <1>0, <1>3, <2>4 DEF WriterShape
  <2>6. /\ DOMAIN files' = Dirs /\ files'[Here][n] = "new"
        /\ \A d \in Dirs : /\ DOMAIN files'[d] = Names
                           /\ \A m \in Names : files'[d][m] # files[d][m] => d = Here /\ m = n
    BY <1>0, <1>3, <2>4 DEF WriterShape
  <2>7. WriterShape'
    BY <1>0, <2>2, <2>3, <2>5, <2>6 DEF WriterShape, Working, Renaming
  <2>8. WriterPlace'
    BY <1>0, <2>3 DEF WriterPlace, Opening, Working, Staging, Renaming
  <2>9. Here' = Here /\ ~Renamed' /\ writer'.at = "replace"
    BY <1>0, <2>3 DEF Here, Renamed
  <2>10. WriterTemps'
    BY <1>0, <2>2, <2>3, <2>5, <2>9 DEF WriterTemps
  <2>11. \A m \in Payloads(writer.extras) \ writer'.todo : files'[Here][m] \notin {"old", "absent"}
    BY <1>0, <2>2, <2>4, <2>6 DEF WriterFiles, Kept
  <2>12. ASSUME NEW d \in Dirs, files'[d][QualityReport] = "new", NEW m \in Payloads(writer.extras)
         PROVE  files'[d][m] \notin {"old", "absent"}
    <3>1. CASE files[d][QualityReport] = "new"
      <4>1. files[d][m] \notin {"old", "absent"}
        BY <1>0, <2>12, <3>1 DEF WriterFiles, HashedAreNew
      <4> QED BY <2>4, <2>6, <2>12, <4>1
    <3>2. CASE files[d][QualityReport] # "new"
      <4>1. d = Here /\ n = QualityReport
        BY <2>4, <2>6, <2>12, <3>2
      <4>2. writer'.todo = {}
        BY <2>1, <2>2, <4>1
      <4> QED BY <2>11, <2>12, <4>1, <4>2
    <3> QED BY <3>1, <3>2
  <2>13. HashedAreNew'
    BY <2>3, <2>12 DEF HashedAreNew
  <2>14. \A d \in Dirs, m \in Names : files'[d][m] = "new" => d = Here' /\ writer'.round >= 3
    BY <1>0, <2>3, <2>6, <2>9 DEF WriterFiles
  <2>15. Repair \notin writer.extras /\ Repair \notin writer.present => files'[Here][Repair] # "old"
    BY <1>0, <2>4, <2>6 DEF WriterFiles
  <2>16. WriterFiles'
    BY <2>3, <2>9, <2>11, <2>13, <2>14, <2>15 DEF WriterFiles, Kept
  <2>17. WriterChain' /\ EndsAreClean'
    BY <1>0, <2>3 DEF WriterChain, EndsAreClean, SuccessIsInPlace, NothingIsLeftBehind
  <2> QED BY <2>7, <2>8, <2>10, <2>16, <2>17 DEF WriterInv
<1> QED BY <1>1, <1>2, <1>3

\* Every payload is in place: the chain is looked at for the last time.
LEMMA UnlinkKeeps ==
  ASSUME WriterInv, UnlinkStaleRepair
  PROVE  WriterInv'
<1>0. /\ WriterShape /\ WriterPlace /\ WriterTemps /\ WriterFiles /\ DOMAIN writer = WriterFields
      /\ writer.at = "replace" /\ writer.level = 1 /\ writer.round = 3 /\ writer.answer = "none"
      /\ Len(writer.anchors) = Depth + 1 /\ Here \in Dirs /\ writer.todo = {}
      /\ temps' = temps
  BY AtWork DEF WriterInv, WriterShape, WriterPlace, UnlinkStaleRepair, Working, Renaming
<1>1. CASE writer' = Raised(writer, "PATH_TYPE_NOT_ALLOWED") /\ files' = files
  BY <1>0, <1>1, RaisedKeeps
<1>2. CASE /\ writer' = Goto(writer, "identity")
           /\ \/ (Repair \in writer.extras \/ Repair \notin writer.present) /\ files' = files
              \/ Repair \notin writer.extras /\ files' = [files EXCEPT ![Here][Repair] = "absent"]
  <2>1. /\ DOMAIN writer' = WriterFields /\ writer'.at = "identity"
        /\ \A f \in WriterFields \ {"at"} : writer'[f] = writer[f]
    BY <1>0, <1>2 DEF Goto, WriterFields
  <2>2. /\ writer'.anchors = writer.anchors /\ writer'.extras = writer.extras
        /\ writer'.staged = writer.staged /\ writer'.answer = writer.answer
        /\ writer'.level = writer.level /\ writer'.round = writer.round
        /\ writer'.todo = writer.todo
    BY <2>1 DEF WriterFields
  <2>3. Repair \in Names /\ QualityReport \in Names /\ QualityReport # Repair
        /\ Payloads(writer.extras) \subseteq Names
        /\ (Repair \notin writer.extras => Repair \notin Payloads(writer.extras))
    BY <1>0, PayloadNames DEF WriterShape, Names, QualityReport, Repair
  <2>4. /\ DOMAIN files' = Dirs
        /\ \A d \in Dirs :
             /\ DOMAIN files'[d] = Names
             /\ \A m \in Names : files'[d][m] # files[d][m] =>
                  Repair \notin writer.extras /\ m = Repair /\ files'[d][m] = "absent"
    BY <1>0, <1>2, <2>3 DEF WriterShape
  <2>5. Repair \notin writer.extras => files'[Here][Repair] # "old"
    BY <1>0, <1>2, <2>3 DEF WriterFiles, WriterShape
  <2>6. WriterShape'
    BY <1>0, <2>1, <2>2, <2>4 DEF WriterShape, Working
  <2>7. WriterPlace'
    <3>1. 1 \in 1..Depth /\ 3 \in 1..3
      BY WriterAssumption
    <3> QED BY <1>0, <2>1, <2>2, <3>1 DEF WriterPlace, Opening, Working, Staging, Renaming
  <2>8. Here' = Here /\ writer'.at # "replace" /\ writer'.round = 3
    BY <1>0, <2>1, <2>2 DEF Here
  <2>9. WriterTemps'
    BY <1>0, <2>2, <2>8 DEF WriterTemps
  <2>10. \A m \in Payloads(writer.extras) : files'[Here][m] \notin {"old", "absent"}
    BY <1>0, <2>3, <2>4 DEF WriterFiles, Kept
  <2>11. HashedAreNew'
    BY <1>0, <2>2, <2>3, <2>4 DEF WriterFiles, HashedAreNew
  <2>12. \A d \in Dirs, m \in Names : files'[d][m] = "new" => d = Here' /\ writer'.round >= 3
    BY <1>0, <2>2, <2>4, <2>8 DEF WriterFiles
  <2>13. WriterFiles'
    <3>1. Repair \in writer.extras => Repair \in Payloads(writer.extras)
      BY DEF Payloads
    <3>2. files'[Here][Repair] # "old"
      BY <2>5, <2>10, <3>1
    <3> QED BY <2>2, <2>8, <2>10, <2>11, <2>12, <3>2 DEF WriterFiles, Kept
  <2>14. WriterChain'
    BY <1>0, <2>1, <2>2 DEF WriterChain
  <2>15. EndsAreClean'
    BY <1>0, <2>1, <2>2 DEF EndsAreClean, SuccessIsInPlace, NothingIsLeftBehind
  <2> QED BY <2>6, <2>7, <2>9, <2>13, <2>14, <2>15 DEF WriterInv
<1> QED BY <1>1, <1>2 DEF UnlinkStaleRepair

LEMMA FsyncKeeps ==
  ASSUME WriterInv, Fsync
  PROVE  WriterInv'
<1>0. /\ WriterShape /\ WriterPlace /\ WriterTemps /\ WriterFiles /\ WriterChain
      /\ DOMAIN writer = WriterFields
      /\ writer.at = "fsync"
      /\ Len(writer.anchors) = Depth + 1 /\ Here \in Dirs /\ Here = writer.anchors[Depth + 1]
      /\ UNCHANGED <<files, temps, child, moved>>
  BY AtWork DEF WriterInv, WriterShape, WriterPlace, Fsync, Unmoved, Working
<1>1. /\ DOMAIN writer' = WriterFields /\ writer'.at = "ended" /\ writer'.staged = {}
      /\ writer'.answer = "written"
      /\ \A f \in WriterFields \ {"at", "staged", "answer"} : writer'[f] = writer[f]
  BY <1>0 DEF Fsync, WriterFields
<1>2. /\ writer'.anchors = writer.anchors /\ writer'.extras = writer.extras
      /\ writer'.level = writer.level /\ writer'.round = writer.round /\ writer'.todo = writer.todo
  BY <1>1 DEF WriterFields
<1>3. Renamed /\ ~Renamed' /\ Here' = Here
  BY <1>0, <1>1, <1>2 DEF Renamed, Here
<1>4. \A d \in Dirs, n \in Names : temps[d][n] = "none"
  BY <1>0, <1>3 DEF WriterTemps
<1>5. WriterShape'
  BY <1>0, <1>1, <1>2 DEF WriterShape
<1>6. WriterPlace'
  BY <1>1 DEF WriterPlace, Opening, Working, Staging, Renaming
<1>7. WriterTemps'
  BY <1>0, <1>4 DEF WriterTemps
<1>8. WriterFiles'
  BY <1>0, <1>1, <1>2, <1>3 DEF WriterFiles, HashedAreNew
<1>9. WriterChain'
  BY <1>1 DEF WriterChain
<1>10. SuccessIsInPlace'
  <2>1. \A i \in 1..Depth : \/ child[writer.anchors[i]] = writer.anchors[i + 1]
                            \/ writer.anchors[i] \in moved
    BY <1>0 DEF WriterChain, Leads
  <2>2. \A n \in Payloads(writer.extras) : files[Here][n] \notin {"old", "absent"}
    BY <1>0, <1>3 DEF WriterFiles, Kept
  <2>3. files[Here][Repair] # "old"
    BY <1>0, <1>3 DEF WriterFiles
  <2>4. \A d \in Dirs \ {Here}, n \in Names : files[d][n] # "new"
    BY <1>0 DEF WriterFiles
  <2> QED BY <1>0, <1>2, <2>1, <2>2, <2>3, <2>4 DEF SuccessIsInPlace
<1>11. NothingIsLeftBehind'
  BY <1>0, <1>4 DEF NothingIsLeftBehind
<1> QED BY <1>5, <1>6, <1>7, <1>8, <1>9, <1>10, <1>11 DEF WriterInv, EndsAreClean

LEMMA CleanupKeeps ==
  ASSUME WriterInv, Cleanup
  PROVE  WriterInv'
<1>0. /\ WriterShape /\ WriterPlace /\ WriterTemps /\ WriterFiles /\ DOMAIN writer = WriterFields
      /\ writer.at = "cleanup" /\ writer.staged # {} /\ writer.answer = "none"
      /\ writer.failure # "written"
      /\ Len(writer.anchors) = Depth + 1 /\ Here \in Dirs
      /\ UNCHANGED <<files, child, moved>>
  BY AtWork DEF WriterInv, WriterShape, WriterPlace, Cleanup, Unmoved
<1>1. PICK n \in writer.staged :
        /\ temps' = [temps EXCEPT ![Here][n] = "none"]
        /\ writer' = IF writer.staged \ {n} # {} THEN [writer EXCEPT !.staged = writer.staged \ {n}]
                     ELSE [writer EXCEPT !.staged = {}, !.at = "ended", !.answer = writer.failure]
  BY DEF Cleanup
<1>2. /\ DOMAIN writer' = WriterFields /\ writer'.staged = writer.staged \ {n}
      /\ \/ writer'.at = "cleanup" /\ writer'.answer = "none" /\ writer'.staged # {}
         \/ writer'.at = "ended" /\ writer'.answer # "written" /\ writer'.staged = {}
      /\ \A f \in WriterFields \ {"at", "staged", "answer"} : writer'[f] = writer[f]
  BY <1>0, <1>1 DEF WriterFields
<1>3. /\ writer'.anchors = writer.anchors /\ writer'.extras = writer.extras
      /\ writer'.level = writer.level /\ writer'.round = writer.round
      /\ writer'.todo = writer.todo /\ writer'.failure = writer.failure
  BY <1>2 DEF WriterFields
<1>4. n \in Names
  BY <1>0, PayloadNames DEF WriterShape
<1>5. /\ DOMAIN temps' = Dirs /\ temps'[Here][n] = "none"
      /\ \A d \in Dirs : /\ DOMAIN temps'[d] = Names
                         /\ \A m \in Names : temps'[d][m] # temps[d][m] => d = Here /\ m = n
  BY <1>0, <1>1, <1>4 DEF WriterShape
<1>6. ~Renamed' /\ Here' = Here /\ writer'.at \notin {"replace", "identity", "fsync"}
  BY <1>2, <1>3 DEF Renamed, Here
<1>7. WriterShape'
  BY <1>0, <1>2, <1>3, <1>5 DEF WriterShape
<1>8. WriterPlace'
  BY <1>0, <1>2, <1>3 DEF WriterPlace, Opening, Working, Staging, Renaming
<1>9. WriterTemps'
  BY <1>0, <1>2, <1>5, <1>6 DEF WriterTemps
<1>10. WriterFiles'
  BY <1>0, <1>3, <1>6 DEF WriterFiles, HashedAreNew
<1>11. WriterChain'
  BY <1>6 DEF WriterChain
<1>12. SuccessIsInPlace'
  BY <1>2 DEF SuccessIsInPlace
<1>13. NothingIsLeftBehind'
  BY <1>2, <1>9 DEF NothingIsLeftBehind, WriterTemps
<1> QED BY <1>7, <1>8, <1>9, <1>10, <1>11, <1>12, <1>13 DEF WriterInv, EndsAreClean

LEMMA MishapKeeps ==
  ASSUME WriterInv, CallFails \/ Dies
  PROVE  WriterInv'
<1>0. /\ WriterShape /\ WriterPlace /\ DOMAIN writer = WriterFields /\ writer.at # "ended"
      /\ UNCHANGED <<files, temps>>
  BY DEF WriterInv, WriterShape, CallFails, Dies
<1>1. CASE writer.at # "cleanup" /\ writer' = Raised(writer, "OSError")
  BY <1>0, <1>1, RaisedKeeps
<1>2. CASE \E a \in {"died", "not cleaned up"} : writer' = [writer EXCEPT !.at = "ended", !.answer = a]
  <2>1. /\ DOMAIN writer' = WriterFields /\ writer'.at = "ended"
        /\ writer'.answer \in {"died", "not cleaned up"}
        /\ \A f \in WriterFields \ {"at", "failure", "answer"} : writer'[f] = writer[f]
    BY <1>0, <1>2 DEF WriterFields
  <2> QED BY <1>0, <2>1, EndingKeeps
<1> QED BY <1>1, <1>2 DEF CallFails, Dies

\* What others do: a directory of the chain that no longer leads on has been moved.
LEMMA MoveKeeps ==
  ASSUME WriterInv, NEW d \in Dirs, Move(d)
  PROVE  WriterInv'
<1>1. /\ UNCHANGED <<files, temps, writer>> /\ writer.at # "ended" /\ moved \subseteq moved'
      /\ \A x \in Dirs : child'[x] = child[x] \/ x \in moved'
  BY DEF Move
<1>2. \A i \in 1..Depth : writer.at \in Working /\ Leads(i) => Leads(i)'
  <2> SUFFICES ASSUME NEW i \in 1..Depth, writer.at \in Working, Leads(i) PROVE Leads(i)'
    OBVIOUS
  <2>1. writer.anchors[i] \in Dirs
    BY AtWork, WriterAssumption DEF WriterInv
  <2> QED BY <1>1, <2>1 DEF Leads
<1>3. WriterChain'
  <2>1. writer.at \in {"identity", "fsync"} => writer.at \in Working
    BY DEF Working
  <2>2. writer.at = "identity" => \A i \in 1..(writer.level - 1) : i \in 1..Depth
    BY WriterAssumption DEF WriterInv, WriterPlace
  <2> QED BY <1>1, <1>2, <2>1, <2>2 DEF WriterInv, WriterChain
<1>4. WriterShape' /\ WriterPlace'
  BY <1>1 DEF WriterInv, WriterShape, WriterPlace
<1>5. Here' = Here /\ Renamed' = Renamed
  BY <1>1 DEF Here, Renamed
<1>6. WriterTemps' /\ WriterFiles'
  BY <1>1, <1>5 DEF WriterInv, WriterTemps, WriterFiles, Kept, HashedAreNew
<1>7. EndsAreClean'
  BY <1>1 DEF WriterInv, WriterPlace, EndsAreClean, SuccessIsInPlace, NothingIsLeftBehind
<1> QED BY <1>3, <1>4, <1>6, <1>7 DEF WriterInv

LEMMA TouchKeeps ==
  ASSUME WriterInv, NEW d \in Dirs, Touch(d)
  PROVE  WriterInv'
<1>1. PICK n \in Names, v \in {"theirs", "link", "directory"} : files' = [files EXCEPT ![d][n] = v]
  BY DEF Touch
<1>2. UNCHANGED <<child, temps, writer, moved>> /\ writer.at # "ended"
  BY DEF Touch
<1>3. /\ DOMAIN files' = Dirs
      /\ \A e \in Dirs : /\ DOMAIN files'[e] = Names
                         /\ \A m \in Names : \/ files'[e][m] = files[e][m]
                                             \/ files'[e][m] \notin {"new", "old", "absent"}
  BY <1>1 DEF WriterInv, WriterShape
<1>4. WriterShape' /\ WriterPlace'
  BY <1>2, <1>3 DEF WriterInv, WriterShape, WriterPlace
<1>5. Here' = Here /\ Renamed' = Renamed
  BY <1>2 DEF Here, Renamed
<1>6. WriterTemps' /\ WriterChain'
  BY <1>2, <1>5 DEF WriterInv, WriterTemps, WriterChain, Leads
<1>7. /\ QualityReport \in Names /\ Repair \in Names /\ Payloads(writer.extras) \subseteq Names
  BY PayloadNames DEF WriterInv, WriterShape, Names
<1>8. HashedAreNew'
  BY <1>2, <1>3, <1>7 DEF WriterInv, WriterFiles, HashedAreNew
<1>9. writer.at \in Working => Here \in Dirs
  BY AtWork DEF WriterInv
<1>10. writer.at = "replace" \/ Renamed => writer.at \in Working
  BY DEF Renamed, Working, Renaming
<1>11. /\ writer.at = "replace" => \A m \in Payloads(writer.extras) \ writer.todo : files'[Here][m] \notin {"old", "absent"}
       /\ Renamed => \A m \in Payloads(writer.extras) : files'[Here][m] \notin {"old", "absent"}
       /\ writer.at = "replace" /\ Repair \notin writer.extras /\ Repair \notin writer.present
            => files'[Here][Repair] # "old"
       /\ Renamed => files'[Here][Repair] # "old"
  BY <1>3, <1>7, <1>9, <1>10 DEF WriterInv, WriterFiles, Kept
<1>12. \A e \in Dirs, m \in Names : files'[e][m] = "new" => e = Here /\ writer.round >= 3
  BY <1>3 DEF WriterInv, WriterFiles
<1>13. WriterFiles'
  BY <1>2, <1>5, <1>8, <1>11, <1>12 DEF WriterFiles, Kept
<1>14. EndsAreClean'
  BY <1>2 DEF WriterInv, WriterPlace, EndsAreClean, SuccessIsInPlace, NothingIsLeftBehind
<1> QED BY <1>4, <1>6, <1>13, <1>14 DEF WriterInv

LEMMA WriterInitially ==
  ASSUME WriterInit
  PROVE  WriterInv
<1>1. PICK capable \in BOOLEAN, extras \in Extras :
        writer = [at |-> "start", capable |-> capable, extras |-> extras, anchors |-> <<>>,
                  seen |-> Top, level |-> 1, round |-> 1, name |-> QualityReport,
                  todo |-> Payloads(extras), staged |-> {}, present |-> {},
                  failure |-> "none", answer |-> "none"]
  BY DEF WriterInit
<1>2. /\ DOMAIN writer = WriterFields /\ writer.at = "start" /\ writer.extras = extras
      /\ writer.anchors = <<>> /\ writer.level = 1 /\ writer.round = 1
      /\ writer.todo = Payloads(extras) /\ writer.staged = {} /\ writer.answer = "none"
  BY <1>1 DEF WriterFields
<1>3. PICK had \in {{}} \cup {Payloads(x) : x \in Extras} :
        files = [d \in Dirs |-> [n \in Names |-> IF d # Created /\ n \in had THEN "old" ELSE "absent"]]
  BY DEF WriterInit
<1>4. /\ DOMAIN files = Dirs
      /\ \A d \in Dirs : DOMAIN files[d] = Names /\ \A n \in Names : files[d][n] # "new"
  BY <1>3
<1>5. /\ DOMAIN temps = Dirs
      /\ \A d \in Dirs : DOMAIN temps[d] = Names /\ \A n \in Names : temps[d][n] = "none"
  BY DEF WriterInit
<1>6. WriterShape
  BY <1>2, <1>4, <1>5 DEF WriterShape, Opening
<1>7. WriterPlace
  BY <1>2 DEF WriterPlace, Opening, Working, Staging, Renaming
<1>8. ~Renamed /\ writer.at \notin {"replace", "ended", "identity", "fsync"}
  BY <1>2 DEF Renamed
<1>9. HashedAreNew
  BY <1>4 DEF HashedAreNew, Names
<1>10. WriterTemps /\ WriterFiles /\ WriterChain
  BY <1>4, <1>5, <1>8, <1>9 DEF WriterTemps, WriterFiles, WriterChain
<1>11. EndsAreClean
  BY <1>2, <1>8 DEF EndsAreClean, SuccessIsInPlace, NothingIsLeftBehind
<1> QED BY <1>6, <1>7, <1>10, <1>11 DEF WriterInv

\* Whatever is moved or written meanwhile, whichever call fails and wherever the process
\* dies: the temporary files and reports of _secure_write_quality are where it is.
THEOREM WriterInvariant == WriterSpec => []WriterInv
<1>1. WriterInit => WriterInv
  BY WriterInitially
<1>2. WriterInv /\ [WriterNext]_writerVars => WriterInv'
  <2> SUFFICES ASSUME WriterInv, [WriterNext]_writerVars PROVE WriterInv'
    OBVIOUS
  <2>1. CASE UNCHANGED writerVars
    <3>1. UNCHANGED <<child, files, temps, writer, moved>>
      BY <2>1 DEF writerVars
    <3>2. Here' = Here /\ (Renamed' <=> Renamed)
      BY <3>1 DEF Here, Renamed
    <3>3. WriterShape' /\ WriterPlace'
      BY <3>1 DEF WriterInv, WriterShape, WriterPlace
    <3>4. WriterTemps'
      BY <3>1, <3>2 DEF WriterInv, WriterTemps
    <3>5. WriterFiles'
      BY <3>1, <3>2 DEF WriterInv, WriterFiles, Kept, HashedAreNew
    <3>6. WriterChain'
      BY <3>1 DEF WriterInv, WriterChain, Leads
    <3>7. EndsAreClean'
      BY <3>1 DEF WriterInv, EndsAreClean, SuccessIsInPlace, NothingIsLeftBehind
    <3> QED BY <3>3, <3>4, <3>5, <3>6, <3>7 DEF WriterInv
  <2>2. CASE WriterSteps
    BY <2>2, OpeningSteps, IdentityKeeps, ValidateKeeps, CreateKeeps, FillKeeps, ReplaceKeeps,
       UnlinkKeeps, FsyncKeeps, CleanupKeeps, MishapKeeps DEF WriterSteps
  <2>3. CASE \E d \in Dirs : Move(d) \/ Touch(d)
    BY <2>3, MoveKeeps, TouchKeeps
  <2> QED BY <2>1, <2>2, <2>3 DEF WriterNext
<1> QED BY <1>1, <1>2, PTL DEF WriterSpec

\* For any directories, reports and failures: the new report is beside files of its own
\* run for everything whose hash it carries, at any moment and however the run ends; and
\* once a run is past its unlink, beside no repair record of an earlier run.  (The repair
\* record until then, and the diagnostics and review record of an earlier run always, may
\* be beside a report that does not name them.)
THEOREM ReportsComeLast == WriterSpec => []ReportIsWrittenLast
<1>1. WriterInv => HashedAreNew
  BY DEF WriterInv, WriterFiles
<1>2. ASSUME WriterInv PROVE RepairIsUnlinked
  <2> SUFFICES ASSUME PastUnlink, NEW d \in Dirs, files[d][QualityReport] = "new"
               PROVE  files[d][Repair] # "old"
    BY DEF RepairIsUnlinked
  <2>1. QualityReport \in Names
    BY DEF Names
  <2>2. d = Here
    BY <1>2, <2>1 DEF WriterInv, WriterFiles
  <2>3. CASE writer.answer = "written"
    <3>1. writer.at = "ended"
      BY <1>2, <2>3 DEF WriterInv, WriterPlace
    <3>2. \A e \in Dirs \ {writer.anchors[Depth + 1]} : files[e][QualityReport] # "new"
      BY <1>2, <2>1, <2>3 DEF WriterInv, EndsAreClean, SuccessIsInPlace
    <3> QED BY <1>2, <2>3, <3>2 DEF WriterInv, EndsAreClean, SuccessIsInPlace
  <2>4. CASE Renamed
    <3>1. Repair \in writer.extras => Repair \in Payloads(writer.extras)
      BY DEF Payloads
    <3> QED BY <1>2, <2>2, <2>4, <3>1 DEF WriterInv, WriterFiles, Kept
  <2> QED BY <2>3, <2>4 DEF PastUnlink, Renamed
<1>3. WriterInv => ReportIsWrittenLast
  BY <1>1, <1>2 DEF ReportIsWrittenLast
<1> QED BY <1>3, WriterInvariant, PTL

\* A run that reports success wrote everything where the path led, and one that ends
\* otherwise leaves no temporary file, unless the removal itself failed or it died.
THEOREM EndsAreAlwaysClean == WriterSpec => []EndsAreClean
<1>1. WriterInv => EndsAreClean
  BY DEF WriterInv
<1> QED BY <1>1, WriterInvariant, PTL
=============================================================================
