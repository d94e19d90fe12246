---------------------------- MODULE MCGovernance ----------------------------
(***************************************************************************)
(* The settings of the repository and the gate of its code changes: they   *)
(* meet in the protection of main, which one writes and the merge obeys.   *)
(* How a verifier of the gate comes to its verdict is a behaviour apart.   *)
(***************************************************************************)
EXTENDS RepositoryGate, VerificationTools, TLC

CONSTANTS code1, code2, mixed, empty

MCChange == code1 :> {"code"} @@ code2 :> {"code"} @@ mixed :> {"code", "data"} @@ empty :> {}

Interchangeable == Permutations({code1, code2})

VARIABLE about
governanceVars == <<about, settingsVars, prVars, toolVars>>

\* Either a behaviour is about the settings alone, or the pull request comes after a
\* bootstrap that had only the protection to write and nobody changes it any more.
GovernanceInit ==
  /\ SettingsInit /\ GateInit /\ ToolsInit
  /\ about \in {"settings", "merges", "tools"}
  /\ about # "settings" => /\ settings = [s \in Settings |-> "desired"]
                           /\ protection = NoProtection

GovernanceNext ==
  /\ UNCHANGED about
  /\ \/ about = "settings" /\ SettingsNext /\ UNCHANGED <<prVars, toolVars>>
     \/ about = "merges" /\ ~sealed /\ SettingsNext /\ drifts' = 0 /\ UNCHANGED <<prVars, toolVars>>
     \/ about = "merges" /\ sealed /\ (ReadForReviews \/ EnableReviews) /\ UNCHANGED <<prVars, toolVars>>
     \/ about = "merges" /\ sealed /\ GateNext /\ UNCHANGED toolVars
     \/ about = "tools" /\ ToolsNext /\ UNCHANGED <<settingsVars, prVars>>

GovernanceSpec == GovernanceInit /\ [][GovernanceNext]_governanceVars
=============================================================================
