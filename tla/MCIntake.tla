------------------------------ MODULE MCIntake ------------------------------
(***************************************************************************)
(* Small instances of Intake: two issues for one product and changeset,    *)
(* one of them edited between two approvals, and one that creates. Beneath *)
(* it are the two ways the program waits for something it does not         *)
(* control: a command it started, as those of git and gh, and a request to *)
(* a model. The three share no state: a behaviour is about one of them and *)
(* the others stay where they began.                                       *)
(***************************************************************************)
EXTENDS Intake, SubprocessRunner, LLM

VARIABLE about

Asks(issue, op, version, description, sources) ==
  [issue |-> issue, op |-> op, pid |-> IF op = "update" THEN ExistingId ELSE None,
   version |-> version, description |-> description, sources |-> sources]

MCRequests ==
  {Asks("i1", "update", 2, "told", "a"), Asks("i1", "create", 1, None, "a"),
   Asks("i2", "update", 2, None, "b")}

RetryRequests == {Asks("i1", "update", 2, "told", "a")}

MCBytes == [s \in Streams |-> IF s = "stdout" THEN 3 ELSE 0]
MCConversation ==
  <<[role |-> "system", parts |-> <<"policy">>],
    [role |-> "user", parts |-> <<"question", "image">>]>>

OutsideInit ==
  /\ IntakeInit /\ Init /\ CallsInit
  /\ about \in {"intake", "command", "model"}
  /\ about # "command" => alive = {"leader"} /\ writer = "none"

OutsideNext ==
  /\ UNCHANGED about
  /\ \/ about = "intake" /\ IntakeNext /\ UNCHANGED <<vars, llmvars>>
     \/ about = "command" /\ Next /\ UNCHANGED <<intakeVars, llmvars>>
     \/ about = "model" /\ CallsNext /\ UNCHANGED <<intakeVars, vars>>

OutsideSpec == OutsideInit /\ [][OutsideNext]_<<about, intakeVars, vars, llmvars>>

\* A descendant in a session of its own may go on for ever,
HeldSpec == OutsideSpec /\ (about = "command" => Fairness)

\* or ends some day.
CallsSpec == OutsideSpec /\ (about = "command" => Fairness /\ WF_vars(ProcessEnds("orphan")))

(* Every command returns, by itself or by its deadline: CommandReturns of   *)
(* SubprocessRunner, for the behaviours that are about a command.           *)
CommandsReturn == about = "command" => CommandReturns
=============================================================================
