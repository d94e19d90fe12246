--------------------------------- MODULE LLM ---------------------------------
(***************************************************************************)
(* Calls of LLMService through the four provider adapters: which failures  *)
(* are tried again, which answers are repaired, what each request carries  *)
(* and what the call returns. A message is [role, parts]; the part that    *)
(* carries a repair instruction is the code it names. The contents of an   *)
(* answer are told apart only as far as the adapter and the service do.    *)
(***************************************************************************)
EXTENDS Integers, Sequences, SequencesExt, Selections

CONSTANTS MaxAttempts, MaxRepairs,  \* _MAX_TOTAL_ATTEMPTS, _MAX_REPAIRS
          NoCode,        \* no error code
          Providers,     \* the adapters of the profiles in use
          Conversation   \* the messages of the caller

VARIABLES
  provider,  \* the adapter factory.create built for the profile, or "none"
  service,   \* "unset", "idle", "calling", "ended"
  call,      \* "text", "structured" or "multimodal"
  sent,      \* the requests of the call, as the model reads them
  answers,   \* what came of each
  retries, repairs, codes,
  active,    \* the code of the repair instruction in active_messages
  outcome    \* what the call returns or raises

llmvars == <<provider, service, call, sent, answers, retries, repairs, codes, active, outcome>>
config == <<provider, call>>

OpenAI == {"openai_chat", "openai_responses"}
Calls  == {"text", "structured", "multimodal"}
NoOutcome == [code |-> NoCode, ok |-> FALSE, retries |-> 0, repairs |-> 0, codes |-> <<>>]

ASSUME LLMAssumption ==
  /\ MaxAttempts \in Nat \ {0} /\ MaxRepairs \in Nat
  /\ Providers \subseteq OpenAI \cup {"gemini", "claude"}
  /\ Conversation \in Seq([role : STRING, parts : Seq(STRING)])

-----------------------------------------------------------------------------
(* The adapters *)

\* _classify_provider_error: the exceptions of the OpenAI client.
OpenAICode ==
  [authentication |-> "LLM_PROVIDER_AUTHENTICATION_FAILED",
   permission     |-> "LLM_PROVIDER_PERMISSION_DENIED",
   not_found      |-> "LLM_PROVIDER_MODEL_NOT_FOUND",
   bad_request    |-> "LLM_PROVIDER_REQUEST_REJECTED",
   quota          |-> "LLM_PROVIDER_QUOTA_EXHAUSTED",
   rate_limit     |-> "LLM_PROVIDER_RATE_LIMITED",
   timeout        |-> "LLM_PROVIDER_TIMEOUT",
   connection     |-> "LLM_PROVIDER_CONNECTION_FAILED",
   server         |-> "LLM_PROVIDER_SERVER_ERROR",
   conflict       |-> "LLM_PROVIDER_CONFLICT",
   other_status   |-> "LLM_PROVIDER_REQUEST_REJECTED",
   unknown        |-> "LLM_PROVIDER_FAILURE"]

\* _classify_vertex_error goes by the status: 429 is one class, and a status
\* without a line of its own is a failure like any other.
VertexCode ==
  [OpenAICode EXCEPT !.quota = "LLM_PROVIDER_RATE_LIMITED",
                     !.other_status = "LLM_PROVIDER_FAILURE"]

Exceptions == DOMAIN OpenAICode

ConfigurationCodes ==
  {"LLM_PROVIDER_AUTHENTICATION_FAILED", "LLM_PROVIDER_PERMISSION_DENIED",
   "LLM_PROVIDER_MODEL_NOT_FOUND", "LLM_PROVIDER_REQUEST_REJECTED",
   "LLM_PROVIDER_QUOTA_EXHAUSTED", "LLM_PROVIDER_CONFIGURATION_FAILED",
   "LLM_PROVIDER_CAPABILITY_UNSUPPORTED", "LLM_PROFILE_NOT_FOUND"}

Error(c, k) == [code |-> c, kind |-> k, rejected |-> FALSE]

ProviderError(p, e) ==
  LET code == IF p \in OpenAI THEN OpenAICode[e] ELSE VertexCode[e]
  IN  Error(code, IF code \in ConfigurationCodes THEN "configuration" ELSE "transient")

Contents == {"broken", "list", "off_schema", "valid"}
Stops    == {"stop", "length", "filter", "refusal"}
Good     == [code |-> NoCode, kind |-> "result", rejected |-> FALSE]

\* _empty_output_code; a refusal hides whatever else stopped the answer.
EmptyCode(stop) ==
  CASE stop = "refusal" -> "LLM_RESPONSE_REFUSED"
    [] stop = "length"  -> "LLM_OUTPUT_TOKEN_LIMIT_EXCEEDED"
    [] stop = "filter"  -> "LLM_RESPONSE_FILTERED"
    [] OTHER            -> "LLM_EMPTY_RESPONSE"

\* _parse_structured: only what it rejects keeps the rejected result.
ParseCode == [broken |-> "LLM_INVALID_JSON", list |-> "LLM_RESPONSE_NOT_OBJECT",
              off_schema |-> "LLM_SCHEMA_VIOLATION"]

Parsed(kind, content) ==
  IF kind = "text" \/ content = "valid" THEN Good
  ELSE [Error(ParseCode[content], "output") EXCEPT !.rejected = TRUE]

\* A response of the OpenAI adapters: no choices at all (chat only), no text
\* for a reason it names, or text, whatever stopped it.
OpenAIOutcomes(p, kind) ==
  {Error(EmptyCode(stop), "output") : stop \in Stops}
  \cup {Parsed(kind, content) : content \in Contents}
  \cup (IF p = "openai_chat" THEN {Error("LLM_RESPONSE_CHOICES_MISSING", "output")} ELSE {})

\* One of the Vertex adapters names no reason for an empty answer.
GeminiOutcomes(kind) ==
  {Error("LLM_EMPTY_RESPONSE", "output")} \cup {Parsed(kind, content) : content \in Contents}
ClaudeOutcomes(kind) ==
  {Error("LLM_EMPTY_RESPONSE", "output")} \cup {Parsed(kind, content) : content \in Contents}

Outcomes(p, kind) ==
  {ProviderError(p, e) : e \in Exceptions}
  \cup (CASE p \in OpenAI   -> OpenAIOutcomes(p, kind)
         [] p = "gemini"   -> GeminiOutcomes(kind)
         [] p = "claude"   -> ClaudeOutcomes(kind))

Message(role, parts) == [role |-> role, parts |-> parts]

\* _repair_messages: an instruction that names the code, before the original
\* messages; the rejected answer is not part of it.
RepairMessages(code) == <<Message("system", <<code>>)>> \o Conversation

MessagesWith(code) == IF code = NoCode THEN Conversation ELSE RepairMessages(code)

SystemParts(messages) ==
  FlattenSeq([i \in 1..Len(messages) |->
                IF messages[i].role = "system" THEN messages[i].parts ELSE <<>>])

DialogueParts(messages) == Picked(messages, {i \in DOMAIN messages : messages[i].role # "system"})

\* The OpenAI adapters keep the list and pass the schema beside it.
OpenAIRequest(kind, messages) ==
  [system |-> <<>>, contents |-> messages, schema |-> kind # "text"]

\* The Vertex adapters collect the system texts in one instruction.
GeminiRequest(kind, messages) ==
  [system |-> SystemParts(messages), contents |-> DialogueParts(messages), schema |-> kind # "text"]

\* Claude has no schema parameter: the schema is the end of the instruction.
ClaudeRequest(kind, messages) ==
  LET asked == IF kind = "text" THEN <<>> ELSE <<"schema">>
  IN  [system |-> SystemParts(messages) \o asked, contents |-> DialogueParts(messages),
       schema |-> asked # <<>>]

Request(p, kind, messages) ==
  CASE p \in OpenAI -> OpenAIRequest(kind, messages)
    [] p = "gemini" -> GeminiRequest(kind, messages)
    [] p = "claude" -> ClaudeRequest(kind, messages)

-----------------------------------------------------------------------------
(* The service *)

CallsInit ==
  /\ provider = "none" /\ service = "unset" /\ call = "text"
  /\ sent = <<>> /\ answers = <<>> /\ retries = 0 /\ repairs = 0 /\ codes = <<>>
  /\ active = NoCode /\ outcome = NoOutcome

Capability(p) == IF p = "claude" THEN "prompt_json" ELSE "json_schema"

\* What keeps a profile from being used: it is not in the registry, a variable
\* it names is not set, or the adapter lacks the capability it asks for.
ProfileFailure(p, known, environment, expected) ==
  IF ~known THEN "LLM_PROFILE_NOT_FOUND"
  ELSE IF ~environment THEN "LLM_PROVIDER_CONFIGURATION_FAILED"
  ELSE IF expected # Capability(p) THEN "LLM_PROVIDER_CAPABILITY_UNSUPPORTED"
  ELSE NoCode

\* provider_from_environment and factory.create, once for a run.
CreateProvider(p, known, environment, expected) ==
  /\ service = "unset"
  /\ LET failure == ProfileFailure(p, known, environment, expected)
     IN  IF failure = NoCode
         THEN /\ provider' = p /\ service' = "idle" /\ UNCHANGED outcome
         ELSE /\ service' = "ended" /\ outcome' = [NoOutcome EXCEPT !.code = failure]
              /\ UNCHANGED provider
  /\ UNCHANGED <<call, sent, answers, retries, repairs, codes, active>>

\* A call of the smoke test, of a suggestion or of the adjudicator: one at a time.
StartCall(kind) ==
  /\ service \in {"idle", "ended"} /\ provider # "none"
  /\ service' = "calling" /\ call' = kind
  /\ sent' = <<>> /\ answers' = <<>> /\ retries' = 0 /\ repairs' = 0 /\ codes' = <<>>
  /\ active' = NoCode /\ outcome' = NoOutcome
  /\ UNCHANGED provider

AttemptNumber == Len(sent) + 1
LastAttempt == AttemptNumber = MaxAttempts

Sent == sent' = Append(sent, Request(provider, call, MessagesWith(active)))

CanRetry(answer)  == answer.kind = "transient" /\ ~LastAttempt
CanRepair(answer) ==
  /\ call # "text" /\ answer.kind = "output" /\ answer.rejected
  /\ repairs < MaxRepairs /\ ~LastAttempt

RetryCall_DropsInstruction(answer) ==
  /\ CanRetry(answer)
  /\ retries' = retries + 1 /\ active' = NoCode
  /\ UNCHANGED <<service, repairs, codes, outcome>>
\* A transient failure: wait, then the same messages again.
RetryCall(answer) ==
  /\ CanRetry(answer)
  /\ retries' = retries + 1
  /\ UNCHANGED <<service, repairs, codes, active, outcome>>

Repair_CountsAsRetry(answer) ==
  /\ CanRepair(answer)
  /\ retries' = retries + 1 /\ codes' = Append(codes, answer.code) /\ active' = answer.code
  /\ UNCHANGED <<service, repairs, outcome>>
\* An answer that can be repaired: the instruction names why it was rejected.
Repair(answer) ==
  /\ CanRepair(answer)
  /\ repairs' = repairs + 1 /\ codes' = Append(codes, answer.code) /\ active' = answer.code
  /\ UNCHANGED <<service, retries, outcome>>

\* _with_attempt_counts; _retry raises what the adapter raised, without counts.
RaiseCall(answer) ==
  /\ answer.kind # "result" /\ ~CanRetry(answer) /\ ~CanRepair(answer)
  /\ service' = "ended"
  /\ outcome' = [code |-> answer.code, ok |-> FALSE, codes |-> <<>>,
                 retries |-> IF call = "text" THEN 0 ELSE retries, repairs |-> repairs]
  /\ UNCHANGED <<retries, repairs, codes, active>>

\* _with_counts. _validate_result finds what the adapter has validated already.
Deliver(answer) ==
  /\ answer.kind = "result"
  /\ service' = "ended"
  /\ outcome' = [code |-> NoCode, ok |-> TRUE, codes |-> codes,
                 retries |-> retries, repairs |-> repairs]
  /\ UNCHANGED <<retries, repairs, codes, active>>

\* One pass of the loop: a request, and the answer or the client's timeout.
Generate ==
  /\ service = "calling"
  /\ \E answer \in Outcomes(provider, call) :
       /\ Sent /\ answers' = Append(answers, answer)
       /\ RetryCall(answer) \/ Repair(answer) \/ RaiseCall(answer) \/ Deliver(answer)
  /\ UNCHANGED config

CallsNext ==
  \/ \E p \in Providers, known, environment \in BOOLEAN, e \in {"json_schema", "prompt_json"} :
       CreateProvider(p, known, environment, e)
  \/ \E kind \in Calls : StartCall(kind)
  \/ Generate

LLMSpec == CallsInit /\ [][CallsNext]_llmvars

-----------------------------------------------------------------------------
LLMTypeOK ==
  /\ provider \in Providers \cup {"none"} /\ call \in Calls
  /\ service \in {"unset", "idle", "calling", "ended"}
  /\ Len(sent) = Len(answers) /\ Len(sent) <= MaxAttempts
  /\ retries \in 0..MaxAttempts /\ repairs \in 0..MaxRepairs /\ Len(codes) <= MaxRepairs

Rejections(n) == Picked(answers, {i \in 1..n : answers[i].rejected})
LastRejection(n) == IF Rejections(n) = <<>> THEN NoCode ELSE Last(Rejections(n)).code

\* What the model reads first.
Instruction(r) == IF r.system # <<>> THEN Head(r.system) ELSE Head(Head(r.contents).parts)

(* A repair instruction survives the transient failures after it, is        *)
(* replaced by the next one, and never pushes out the conversation: every   *)
(* request reads the last rejection first and the caller's messages after.  *)
RequestsFollowAnswers ==
  \A i \in DOMAIN sent :
    /\ DialogueParts(sent[i].contents) = DialogueParts(Conversation)
    /\ LastRejection(i - 1) # NoCode => Instruction(sent[i]) = LastRejection(i - 1)
    /\ sent[i].schema <=> call # "text"
    /\ i > 1 => answers[i - 1].kind = "transient" \/ answers[i - 1].rejected

(* The counts a call reports are those of the answers it got, and together *)
(* with the last request they are the requests it made.                    *)
CountsAreTrue ==
  service = "ended" /\ sent # <<>> =>
    LET before     == SubSeq(answers, 1, Len(answers) - 1)
        rejected   == Picked(before, {i \in DOMAIN before : before[i].rejected})
        transients == Picked(before, {i \in DOMAIN before : before[i].kind = "transient"})
    IN  /\ outcome.ok <=> Last(answers).kind = "result"
        /\ outcome.repairs = Len(rejected)
        /\ (outcome.ok \/ call # "text") => outcome.retries = Len(transients)
        /\ outcome.ok => outcome.codes = [k \in DOMAIN rejected |-> rejected[k].code]

(* What a call asks and what it reports both follow the answers it got.    *)
CallsFollowAnswers == RequestsFollowAnswers /\ CountsAreTrue
=============================================================================
