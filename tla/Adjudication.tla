----------------------------- MODULE Adjudication -----------------------------
(***************************************************************************)
(* CandidateAdjudicator: a closed set of candidates is decided by rule, by *)
(* a decision of an earlier run that still holds, or by votes of the model *)
(* and, for a spacing, by a proposal of its own that it verifies. A hash   *)
(* is the tuple of what goes into it. One decision is made per run; the    *)
(* record of a run is what the next one may trust.                         *)
(***************************************************************************)
EXTENDS Spacing, Selections

CONSTANTS
  Requests,      \* [set, evidence, policy, provider]: what the request hash covers
  Confidences,   \* the confidences a model gives
  Counts,        \* [retries, repairs] of one model call
  VerifierCodes, \* the sequences of codes a verifier may add
  MaxRuns        \* bound on runs

VARIABLES
  request,   \* of the run under way
  stage,     \* "idle", a phase of model calls, "done", or "raised"
  attempts,  \* the audit of its model calls
  record,    \* its DecisionRecord
  trusted,   \* the records of earlier runs, as the reports keep them
  runs       \* runs so far

vars == <<request, stage, attempts, record, trusted, runs>>

NoProvider == "none"
Turn       == [primary |-> 1, recovery |-> 2, tiebreak |-> 3]
VotePhases == DOMAIN Turn

CandidatesOf(q) ==
  LET sorted == ByScore(q.set.candidates)
  IN  SubSeq(sorted, 1, Min({Len(sorted), q.policy.max_candidates}))
candidates == CandidatesOf(request)
allowlist  == Ids(candidates)

\* Candidates have a score and ids of their own; nothing that is one is none.
ASSUME AdjudicationAssumption ==
  \A q \in Requests :
    LET all == ToSet(q.set.candidates)
    IN  /\ q.set.candidates \in Seq(all)
        /\ \A c \in all : c.score \in 0..100 /\ c.rank \in Nat
        /\ \A c, d \in all : c # d => c.rank # d.rank
        /\ NoCandidate \notin Ids(CandidatesOf(q))
        /\ \A rendering \in [q.set.text.gaps -> GapStates] :
             NoCandidate # [id |-> rendering, text |-> q.set.text]

IsConfident(confidence) == confidence >= request.policy.minimum_confidence

Retries(audit) == FoldSeq(LAMBDA a, sum : a.count.retries + sum, 0, audit)
Repairs(audit) == FoldSeq(LAMBDA a, sum : a.count.repairs + sum, 0, audit)

-----------------------------------------------------------------------------
(* Records                                                                  *)

NoRecord == [outcome |-> "none"]

Overlay(f, g) == [x \in DOMAIN f \cup DOMAIN g |-> IF x \in DOMAIN f THEN f[x] ELSE g[x]]

\* Everything a record holds except its decision_id, which is their hash. The
\* retries and repairs are those of all attempts.
Record(fields) ==
  LET empty == [request |-> request, selected |-> NoCandidate, outcome |-> "selected",
                source |-> "model", confidence |-> 0, codes |-> <<>>, attempts |-> attempts,
                recovery |-> "not_needed", method |-> "none", consensus |-> NoCandidate,
                recoveries |-> 0, generated |-> NoCandidate, snapshot |-> FALSE]
      r == Overlay(fields, empty)
      counted == Overlay([retries |-> Retries(r.attempts), repairs |-> Repairs(r.attempts)], r)
  IN  Overlay([id |-> counted], counted)

\* A snapshot keeps hashes in the place of the text and has the same identity.
Identity(r) == [f \in DOMAIN r \ {"id"} |-> IF f = "snapshot" THEN FALSE ELSE r[f]]
IdentityMatches(r) == r.id = Identity(r)

DeferralSource(audit) ==
  IF request.provider = NoProvider THEN "unavailable"
  ELSE IF audit # <<>> /\ Last(audit).status = "provider_rejected" THEN "provider" ELSE "model"

\* tuple(dict.fromkeys(codes))
WithoutRepeats(codes) ==
  FoldLeft(LAMBDA kept, code : IF Contains(kept, code) THEN kept ELSE Append(kept, code), <<>>, codes)

Deferred(codes, audit) ==
  LET fallback == Fallback(request.set)
      spacing  == request.set.type = "spacing"
  IN  IF fallback = NoCandidate
      THEN Record([outcome |-> "review_required", source |-> DeferralSource(audit),
                   recovery |-> "review_required", attempts |-> audit,
                   codes |-> WithoutRepeats(Append(codes, "SPACING_REPAIR_SAFE_FALLBACK_UNAVAILABLE"))])
      ELSE Record([outcome |-> "deferred_review", source |-> "fallback", selected |-> fallback.id,
                   confidence |-> fallback.score, recovery |-> "deferred_review", attempts |-> audit,
                   codes |-> WithoutRepeats(Append(codes,
                     IF spacing THEN "LLM_SPACING_REPAIR_DEFERRED"
                     ELSE "LLM_CANDIDATE_SELECTION_DEFERRED"))])

-----------------------------------------------------------------------------
(* Requests to the model                                                    *)

Attempt(phase, index, messages, id, confidence, status, codes, count) ==
  [phase |-> phase, index |-> index, hash |-> <<request, phase, index, messages>>,
   candidate |-> id, confidence |-> confidence, status |-> status, codes |-> codes, count |-> count]

\* The votes before this phase, as _messages repeats them, and the code of the
\* answer that is corrected.
Votes(audit) == Picked(audit, {i \in DOMAIN audit : audit[i].candidate # NoCandidate})
PriorVotes(audit) ==
  LET votes == Votes(audit)
  IN  [i \in DOMAIN votes |-> <<votes[i].phase, votes[i].candidate, votes[i].confidence, votes[i].codes>>]

InPhase(audit, phase) == Picked(audit, {i \in DOMAIN audit : audit[i].phase = phase})
Before(audit, phase)  == Picked(audit, {i \in DOMAIN audit : audit[i].phase # phase})

VoteMessages(phase, prior, code) == <<PriorVotes(prior), code>>
GenerationMessages(anchor)       == <<"generate", anchor>>
VerificationMessages(generated)  == <<"verify", generated>>

LastCode(audit) ==
  IF audit # <<>> /\ Last(audit).status = "candidate_unknown" /\ Last(audit).codes # <<>>
  THEN Last(Last(audit).codes) ELSE "none"

ActiveMessages(audit, phase) ==
  VoteMessages(phase, Before(audit, phase), LastCode(InPhase(audit, phase)))

LowCodes(low) == IF low THEN <<"LLM_CONFIDENCE_TOO_LOW">> ELSE <<>>

-----------------------------------------------------------------------------
(* Is a record of an earlier run still good for this request?               *)

\* The hash of every attempt is computed again, from the attempts before it, which
\* come phase by phase.
AttemptHashesMatch(r) ==
  LET audit == r.attempts
      votes == Picked(audit, {i \in DOMAIN audit : audit[i].phase \in VotePhases})
      rest  == SubSeq(audit, Len(votes) + 1, Len(audit))
      expected(i) == <<request, votes[i].phase, i, ActiveMessages(SubSeq(votes, 1, i - 1), votes[i].phase)>>
      primary == Votes(InPhase(votes, "primary"))
  IN  /\ \A i \in DOMAIN audit : audit[i].index = i
      /\ votes = SubSeq(audit, 1, Len(votes))
      /\ \A i, j \in DOMAIN votes : i < j => Turn[votes[i].phase] <= Turn[votes[j].phase]
      /\ \A i \in DOMAIN votes : votes[i].hash = expected(i)
      /\ rest # <<>> =>
           /\ request.set.type = "spacing"
           /\ primary # <<>> /\ Last(primary).candidate \in allowlist
           /\ rest[1].phase = "generation"
           /\ rest[1].hash = <<request, "generation", Len(votes) + 1,
                               GenerationMessages(Last(primary).candidate)>>
           /\ Len(rest) > 1 =>
                /\ Len(rest) = 2 /\ rest[2].phase = "verification" /\ r.generated # NoCandidate
                /\ rest[2].hash = <<request, "verification", Len(votes) + 2,
                                    VerificationMessages(r.generated.id)>>

\* The attempts of a phase: answers that named no candidate, and then a vote.
VoteOf(audit) ==
  /\ audit # <<>>
  /\ \A i \in 1..(Len(audit) - 1) : audit[i].status = "candidate_unknown"
  /\ Last(audit).candidate \in allowlist
  /\ Last(audit).status = IF IsConfident(Last(audit).confidence) THEN "accepted" ELSE "low_confidence"

CountsMatch(r) == r.retries = Retries(r.attempts) /\ r.repairs = Repairs(r.attempts)

PrimaryAuditMatches(r) ==
  /\ r.source \in {"model", "cache"} /\ r.method = "none" /\ r.recoveries = 0
  /\ Before(r.attempts, "primary") = <<>>
  /\ VoteOf(r.attempts) /\ Last(r.attempts).status = "accepted"
  /\ Last(r.attempts).candidate = r.selected /\ Last(r.attempts).confidence = r.confidence
  /\ r.codes = <<>> /\ CountsMatch(r)

RecoveryAuditMatches(r) ==
  LET phase(p)  == InPhase(r.attempts, p)
      primary   == Last(phase("primary"))
      recovery  == Last(phase("recovery"))
      tiebreak  == Last(phase("tiebreak"))
      terminal  == IF r.method = "same_candidate" THEN recovery ELSE tiebreak
  IN  /\ r.method \in {"same_candidate", "two_of_three"}
      /\ r.consensus = r.selected /\ r.consensus \in allowlist
      /\ \A i \in DOMAIN r.attempts : r.attempts[i].phase \in VotePhases
      /\ VoteOf(phase("primary")) /\ VoteOf(phase("recovery"))
      /\ primary.status = "low_confidence" /\ recovery.status = "accepted"
      /\ IF r.method = "same_candidate"
         THEN /\ phase("tiebreak") = <<>> /\ r.recoveries = 1
              /\ primary.candidate = recovery.candidate
         ELSE /\ VoteOf(phase("tiebreak")) /\ tiebreak.status = "accepted" /\ r.recoveries = 2
              /\ primary.candidate # recovery.candidate
              /\ tiebreak.candidate \in {primary.candidate, recovery.candidate}
      /\ terminal.candidate = r.consensus /\ terminal.confidence = r.confidence
      /\ r.codes = <<"LLM_LOW_CONFIDENCE_RECOVERED">> /\ CountsMatch(r)

GeneratedAuditMatches(r) ==
  LET n == Len(r.attempts)
      accepted(a) == /\ a.status = "accepted" /\ a.codes = <<>> /\ IsConfident(a.confidence)
                     /\ a.candidate = r.generated.id
  IN  /\ r.generated # NoCandidate /\ r.source \in {"generated", "cache"} /\ n >= 3
      /\ \A i \in 1..(n - 2) : r.attempts[i].phase = "primary"
      /\ VoteOf(SubSeq(r.attempts, 1, n - 2))
      /\ r.attempts[n - 2].codes = LowCodes(r.attempts[n - 2].status = "low_confidence")
      /\ r.attempts[n - 1].phase = "generation" /\ accepted(r.attempts[n - 1])
      /\ r.attempts[n].phase = "verification" /\ accepted(r.attempts[n])
      /\ r.confidence = Min({r.attempts[n - 1].confidence, r.attempts[n].confidence})
      /\ r.codes = <<"LLM_SPACING_REPAIR_APPLIED">> /\ CountsMatch(r)

SelectedIsCurrent(r) ==
  \/ r.selected \in allowlist
  \/ /\ r.generated # NoCandidate /\ request.set.type = "spacing"
     /\ r.generated.id = r.selected /\ r.generated.text = request.set.text
     /\ DefectCodes(request.set.text, r.generated.id) = <<>>

\* _materialize_generated_candidate: a snapshot is rendered again from the text
\* of this set, and must have the hashes of the one it was taken of.
Materializes(r) ==
  r.snapshot => /\ request.set.type = "spacing"
                /\ request.set.text = r.generated.text
Materialized(r) == [r EXCEPT !.snapshot = FALSE]

DecisionMatches(r) ==
  /\ r.request = request /\ r.outcome = "selected" /\ SelectedIsCurrent(r)
  /\ AttemptHashesMatch(r)
  /\ CASE r.recovery = "generated" -> GeneratedAuditMatches(r)
       [] r.recovery = "recovered" -> RecoveryAuditMatches(r)
       [] OTHER -> PrimaryAuditMatches(r)
  /\ IdentityMatches(r)

Usable(r) == Materializes(r) /\ DecisionMatches(Materialized(r))

Cached_KeepsIdentity(r) == [Materialized(r) EXCEPT !.source = "cache"]
Cached(r) == LET c == [Materialized(r) EXCEPT !.source = "cache"] IN [c EXCEPT !.id = Identity(c)]

-----------------------------------------------------------------------------
(* A run                                                                    *)

Init ==
  /\ request \in Requests
  /\ stage = "idle" /\ attempts = <<>> /\ record = NoRecord /\ trusted = <<>>
  /\ runs = 1

Decided(r) == stage' = "done" /\ record' = r

\* The tables whose structure the evidence proves, if it proves one structure.
ProvenTable(q) ==
  LET proven == {c \in ToSet(CandidatesOf(q)) : c.proof # "none"}
  IN  IF Cardinality({c.proof : c \in proven}) = 1 THEN Best(proven) ELSE NoCandidate

AutoAccepts(q) ==
  LET best   == CandidatesOf(q)[1]
      runner == IF Len(CandidatesOf(q)) > 1 THEN CandidatesOf(q)[2].score ELSE 0
  IN  /\ best.score >= q.policy.auto_accept_score
      /\ best.score - runner >= q.policy.auto_accept_margin
      /\ Defects(q.set, best) = <<>>

\* The rules come before the trusted records, and these before the model.
Decide ==
  /\ stage = "idle"
  /\ LET usable == Picked(trusted, {i \in DOMAIN trusted : Usable(trusted[i])})
         rule(c, confidence) == Record([source |-> "deterministic", selected |-> c.id,
                                        confidence |-> confidence])
         proven == ProvenTable(request)
     IN  IF proven # NoCandidate THEN Decided(rule(proven, 100))
         ELSE IF AutoAccepts(request) THEN Decided(rule(candidates[1], candidates[1].score))
         ELSE IF usable # <<>> THEN Decided(Cached(Head(usable)))
         ELSE IF request.provider = NoProvider
         THEN Decided(Deferred(<<"LLM_PROVIDER_UNAVAILABLE">>, <<>>))
         ELSE stage' = "primary" /\ UNCHANGED record
  /\ UNCHANGED <<request, attempts, trusted, runs>>

\* A model call. Bound: only the first run of a behaviour makes any.
Calls(phase) == stage = phase /\ runs = 1 /\ UNCHANGED <<request, trusted, runs>>

Audited(attempt) == attempts' = Append(attempts, attempt)
NextIndex == Len(attempts) + 1

\* Any call may fail, after the retries LLMService makes. The same in all phases.
ProviderFails(phase, messages) ==
  /\ Calls(phase)
  /\ \E count \in Counts :
       LET failed == Attempt(phase, NextIndex, messages, NoCandidate, 0, "provider_rejected",
                             <<"LLM_PROVIDER_FAILURE">>, count)
       IN  /\ Audited(failed)
           /\ Decided(Deferred(<<"LLM_PROVIDER_FAILURE">>, Append(attempts, failed)))

VoteFails == \E phase \in VotePhases : ProviderFails(phase, ActiveMessages(attempts, phase))

\* An answer outside the allowlist is corrected as often as the policy says.
UnknownVote(phase) ==
  /\ Calls(phase)
  /\ \E count \in Counts :
       LET code    == "LLM_CANDIDATE_UNKNOWN"
           unknown == Attempt(phase, NextIndex, ActiveMessages(attempts, phase), NoCandidate, 1,
                              "candidate_unknown", <<code>>, count)
           audit   == Append(attempts, unknown)
           tried   == Len(InPhase(audit, phase))
       IN  /\ Audited(unknown)
           /\ IF tried < request.policy.max_schema_attempts
              THEN UNCHANGED <<stage, record>>
              ELSE Decided(Deferred([i \in 1..tried |-> code], audit))

VoteIn(audit, phase) == Last(InPhase(audit, phase))

Recovered(audit, id, confidence, method, recoveries) ==
  Record([source |-> "recovered", selected |-> id, confidence |-> confidence, attempts |-> audit,
          codes |-> <<"LLM_LOW_CONFIDENCE_RECOVERED">>, recovery |-> "recovered",
          method |-> method, consensus |-> id, recoveries |-> recoveries])

NeedsRepair_ByConfidence(id, confidence) == request.set.type = "spacing" /\ ~IsConfident(confidence)
NeedsRepair(id, confidence) ==
  /\ request.set.type = "spacing"
  /\ ~IsConfident(confidence) \/ Defects(request.set, CandidateOf(candidates, id)) # <<>>

AfterPrimary(audit, id, confidence) ==
  IF NeedsRepair(id, confidence) THEN stage' = "generation" /\ UNCHANGED record
  ELSE IF IsConfident(confidence)
  THEN Decided(Record([selected |-> id, confidence |-> confidence, attempts |-> audit]))
  ELSE IF request.policy.recovery_attempts < 1
  THEN Decided(Deferred(<<"LLM_CONFIDENCE_TOO_LOW">>, audit))
  ELSE stage' = "recovery" /\ UNCHANGED record

AfterRecovery(audit, id, confidence) ==
  IF ~IsConfident(confidence)
  THEN Decided(Deferred(<<"LLM_CONFIDENCE_RECOVERY_EXHAUSTED">>, audit))
  ELSE IF id = VoteIn(audit, "primary").candidate
  THEN Decided(Recovered(audit, id, confidence, "same_candidate", 1))
  ELSE IF request.policy.recovery_attempts < 2
  THEN Decided(Deferred(<<"LLM_CONSENSUS_NOT_REACHED">>, audit))
  ELSE stage' = "tiebreak" /\ UNCHANGED record

\* The two votes before disagree, so two of three means one of them again.
AfterTiebreak(audit, id, confidence) ==
  IF IsConfident(confidence)
     /\ id \in {VoteIn(audit, "primary").candidate, VoteIn(audit, "recovery").candidate}
  THEN Decided(Recovered(audit, id, confidence, "two_of_three", 2))
  ELSE Decided(Deferred(<<"LLM_CONSENSUS_NOT_REACHED">>, audit))

Vote(phase) ==
  /\ Calls(phase)
  /\ \E id \in allowlist, confidence \in Confidences, count \in Counts :
       LET low   == ~IsConfident(confidence)
           vote  == Attempt(phase, NextIndex, ActiveMessages(attempts, phase), id, confidence,
                            IF low THEN "low_confidence" ELSE "accepted", LowCodes(low), count)
           audit == Append(attempts, vote)
       IN  /\ Audited(vote)
           /\ CASE phase = "primary"  -> AfterPrimary(audit, id, confidence)
                [] phase = "recovery" -> AfterRecovery(audit, id, confidence)
                [] phase = "tiebreak" -> AfterTiebreak(audit, id, confidence)

Anchor == VoteIn(attempts, "primary").candidate
GenerationFails == ProviderFails("generation", GenerationMessages(Anchor))

\* The proposal is the model's; what can be built from it is verified.
Generation ==
  /\ Calls("generation")
  /\ \E proposal \in Proposals(request.set.text), confidence \in Confidences, count \in Counts :
       LET code == RepairCode(request.set.text, Anchor, proposal)
           low  == ~IsConfident(confidence)
           attempt(id, status, codes) ==
             Attempt("generation", NextIndex, GenerationMessages(Anchor), id, confidence, status, codes, count)
       IN  CASE code = "invalid" ->
                  stage' = "raised" /\ UNCHANGED <<attempts, record>>
             [] code = "none" ->
                  /\ Audited(attempt(proposal.rendering, IF low THEN "low_confidence" ELSE "accepted", LowCodes(low)))
                  /\ stage' = "verification" /\ UNCHANGED record
             [] OTHER ->
                  LET rejected == attempt(NoCandidate, "validation_rejected", <<code>>)
                  IN  /\ Audited(rejected)
                      /\ Decided(Deferred(<<>>, Append(attempts, rejected)))

Generated == Last(attempts).candidate
VerificationFails == ProviderFails("verification", VerificationMessages(Generated))

\* The codes of the verifier, and those of the adjudicator after them. An attempt
\* has room for four, and only the last addition looks.
VerificationCodes(own, low, chosen) ==
  LET with == own \o LowCodes(low)
  IN  IF ~chosen /\ Len(with) < 4 THEN Append(with, "LLM_GENERATED_CANDIDATE_REJECTED") ELSE with

Verification ==
  /\ Calls("verification")
  /\ \E id \in allowlist \cup {Generated}, confidence \in Confidences,
        own \in VerifierCodes, count \in Counts :
       LET low      == ~IsConfident(confidence)
           codes    == VerificationCodes(own, low, id = Generated)
           accepted == Last(attempts).status = "accepted" /\ ~low /\ id = Generated /\ codes = <<>>
           attempt  == Attempt("verification", NextIndex, VerificationMessages(Generated), id, confidence,
                               IF accepted THEN "accepted" ELSE IF low THEN "low_confidence"
                               ELSE "validation_rejected", codes, count)
           audit    == Append(attempts, attempt)
       IN  IF Len(codes) > 4
           THEN stage' = "raised" /\ UNCHANGED <<attempts, record>>
           ELSE /\ Audited(attempt)
                /\ IF accepted
                   THEN Decided(Record(
                          [source |-> "generated", selected |-> id, attempts |-> audit,
                           confidence |-> Min({Last(attempts).confidence, confidence}),
                           codes |-> <<"LLM_SPACING_REPAIR_APPLIED">>, recovery |-> "generated",
                           generated |-> [id |-> id, text |-> request.set.text]]))
                   ELSE Decided(Deferred(<<>>, audit))

\* diagnostic_decision_record: the report keeps a snapshot of what was generated.
Stored(r) == [r EXCEPT !.snapshot = r.generated # NoCandidate]

\* Another run reads the report of this one, and those before it unless they were
\* of the same product. Bound: later runs than the second are about what one
\* before was about.
NextRun(new) ==
  /\ stage = "done" /\ runs < MaxRuns
  /\ runs > 1 => new \in {request} \cup {trusted[i].request : i \in DOMAIN trusted}
  /\ runs' = runs + 1 /\ request' = new
  /\ \E others \in {<<>>, trusted} : trusted' = <<Stored(record)>> \o others
  /\ stage' = "idle" /\ attempts' = <<>> /\ record' = NoRecord

Next ==
  \/ Decide \/ VoteFails \/ Generation \/ GenerationFails \/ Verification \/ VerificationFails
  \/ \E phase \in VotePhases : UnknownVote(phase) \/ Vote(phase)
  \/ \E new \in Requests : NextRun(new)

Spec == Init /\ [][Next]_vars

-----------------------------------------------------------------------------
Naming(id) ==
  LET audit == record.attempts
  IN  Picked(audit, {i \in DOMAIN audit : audit[i].candidate = id /\ audit[i].status # "validation_rejected"})
Confident(audit) == Picked(audit, {i \in DOMAIN audit : IsConfident(audit[i].confidence)})

\* What the answers of the model are enough for: one confident first vote for a
\* candidate without defects; two votes for it, the second one confident; or a
\* confident proposal and a confident verification of it.
Earned(id) ==
  LET named == Naming(id)
  IN  /\ named # <<>> /\ IsConfident(Last(named).confidence)
      /\ Last(named) = Last(record.attempts)
      /\ \/ Last(named).phase = "primary" /\ Defects(request.set, CandidateOf(candidates, id)) = <<>>
         \/ Last(named).phase \in {"recovery", "tiebreak"} /\ Len(named) > 1
         \/ /\ Last(named).phase = "verification" /\ Last(named).codes = <<>>
            /\ Len(Confident(InPhase(named, "generation"))) = 1
            /\ DefectCodes(request.set.text, id) = <<>>

(* A decision of the model is selected exactly when its answers earn it,   *)
(* whether it is made in this run or taken from an earlier one, and then   *)
(* it was made for this very request; whatever falls short is left to      *)
(* review with a fallback that has no defect, or with none.                *)
DecisionsAreEarned ==
  stage = "done" /\ record.source # "deterministic" =>
    /\ record.request = request
    /\ IF record.outcome = "selected" THEN Earned(record.selected)
       ELSE /\ \A i \in DOMAIN record.attempts :
                 record.attempts[i].candidate # NoCandidate => ~Earned(record.attempts[i].candidate)
            /\ record.outcome = "deferred_review" =>
                 Defects(request.set, CandidateOf(request.set.candidates, record.selected)) = <<>>

(* A selection stands: a run with the same request that may trust its      *)
(* report decides the same without a model call, also when what it trusts  *)
(* was itself taken from a report, and a generated candidate comes back    *)
(* from its snapshot.                                                      *)
DecisionsReplay ==
  \A i \in DOMAIN trusted :
    trusted[i].request = request /\ trusted[i].outcome = "selected" =>
      /\ stage \in {"idle", "done"}
      /\ stage = "done" => record.outcome = "selected" /\ record.selected = trusted[i].selected

(* Whatever the model answers, the run ends with a decision.               *)
EveryAnswerIsDecided == stage # "raised"
===============================================================================
