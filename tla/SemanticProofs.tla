--------------------------- MODULE SemanticProofs ---------------------------
(***************************************************************************)
(* Proofs about the semantic pipeline of a PDF.                            *)
(*                                                                         *)
(* Adjudication: what is selected is earned, and stands in the runs after  *)
(* it, for any requests, candidates, policies and answers. The invariant   *)
(* says what the audit of a run looks like in every stage (AuditIsOrderly),*)
(* that a record which is kept or trusted is a rule's, a deferral's or one *)
(* the model made with the very attempts it keeps (Sound), and that what   *)
(* the model made can be used again (Made, MadeIsUsable).                  *)
(*                                                                         *)
(* SemanticReplay: products with one document and one replay identity have *)
(* the same bytes, when branches are merged only on top of the default     *)
(* branch; and no run asks what a verified product of its base has decided.*)
(*                                                                         *)
(* Conversion: for any source that the extraction can make (Extracted) and *)
(* any hints over it (Sourced), whatever the model answers, the document   *)
(* holds every span once, keeps native tables whole and, when it is        *)
(* published, is settled; batches that are valid alone are valid together; *)
(* and a run over what a settled run left gives the same document. Most of *)
(* it is about the functions that build a document: that none puts a span  *)
(* into two blocks, what each leaves for the next, and that merging sorts  *)
(* the plans of consecutive batches into the order of the spans. The       *)
(* invariant (ConversionInv) says that each document of a run, or that it  *)
(* saved, is what these functions make of a plan that fits the source.     *)
(***************************************************************************)
EXTENDS Conversion, Adjudication, SemanticReplay, SequenceLemmas, FiniteSetTheorems, TLAPS

(***************************************************************************)
(* Records of the adjudicator                                              *)
(***************************************************************************)

BaseFields == {"request", "selected", "outcome", "source", "confidence", "codes", "attempts",
               "recovery", "method", "consensus", "recoveries", "generated", "snapshot"}
CountedFields == BaseFields \cup {"retries", "repairs"}
RecordFields  == CountedFields \cup {"id"}

\* What Record fills in where nothing is said.
EmptyRecord ==
  [request |-> request, selected |-> NoCandidate, outcome |-> "selected",
   source |-> "model", confidence |-> 0, codes |-> <<>>, attempts |-> attempts,
   recovery |-> "not_needed", method |-> "none", consensus |-> NoCandidate,
   recoveries |-> 0, generated |-> NoCandidate, snapshot |-> FALSE]

IsRecord(r) == DOMAIN r = RecordFields /\ r = [f \in RecordFields |-> r[f]]

\* A record has every field of its kind: those given, and the others empty.
LEMMA RecordFacts ==
  ASSUME NEW fields, DOMAIN fields \subseteq BaseFields \ {"snapshot"}
  PROVE  /\ IsRecord(Record(fields))
         /\ \A x \in DOMAIN fields : Record(fields)[x] = fields[x]
         /\ \A x \in BaseFields \ DOMAIN fields : Record(fields)[x] = EmptyRecord[x]
         /\ IdentityMatches(Record(fields)) /\ CountsMatch(Record(fields))
<1>. DEFINE r == Overlay(fields, EmptyRecord)
            counts == [retries |-> Retries(r.attempts), repairs |-> Repairs(r.attempts)]
            counted == Overlay(counts, r)
            complete == Overlay([id |-> counted], counted)
<1>1. Record(fields) = complete
  BY DEF Record, EmptyRecord
<1>2. DOMAIN EmptyRecord = BaseFields
  BY DEF EmptyRecord, BaseFields
<1>3. DOMAIN r = BaseFields
  BY <1>2 DEF Overlay
<1>4. /\ \A x \in DOMAIN fields : r[x] = fields[x]
      /\ \A x \in BaseFields \ DOMAIN fields : r[x] = EmptyRecord[x]
  BY <1>2 DEF Overlay
<1>5. r["snapshot"] = FALSE
  <2>1. "snapshot" \in BaseFields \ DOMAIN fields
    BY DEF BaseFields
  <2>2. EmptyRecord["snapshot"] = FALSE
    BY DEF EmptyRecord
  <2> QED BY <1>4, <2>1, <2>2
<1>. HIDE DEF r
<1>6. DOMAIN counts = {"retries", "repairs"} /\ counts["retries"] = Retries(r.attempts) /\ counts["repairs"] = Repairs(r.attempts)
  OBVIOUS
<1>. HIDE DEF counts
<1>7. DOMAIN counted = CountedFields /\ counted = [x \in CountedFields |-> counted[x]]
  <2>1. DOMAIN counted = CountedFields
    BY <1>3, <1>6 DEF Overlay, CountedFields
  <2> QED BY <2>1 DEF Overlay
<1>8. /\ counted["retries"] = Retries(r.attempts) /\ counted["repairs"] = Repairs(r.attempts)
      /\ \A x \in BaseFields : counted[x] = r[x]
  <2>1. \A x \in BaseFields : x # "retries" /\ x # "repairs"
    BY DEF BaseFields
  <2> QED BY <1>3, <1>6, <2>1 DEF Overlay
<1>. HIDE DEF counted
<1>9. DOMAIN [id |-> counted] = {"id"} /\ [id |-> counted]["id"] = counted
  OBVIOUS
<1>10. DOMAIN complete = RecordFields /\ complete = [x \in RecordFields |-> complete[x]]
  <2>1. DOMAIN complete = RecordFields
    BY <1>7, <1>9 DEF Overlay, RecordFields
  <2> QED BY <2>1 DEF Overlay
<1>11. "id" \notin CountedFields
  BY DEF CountedFields, BaseFields
<1>12. complete["id"] = counted /\ \A x \in CountedFields : complete[x] = counted[x]
  BY <1>7, <1>9, <1>11 DEF Overlay
<1>. HIDE DEF complete
<1>13. /\ \A x \in DOMAIN fields : complete[x] = fields[x]
       /\ \A x \in BaseFields \ DOMAIN fields : complete[x] = EmptyRecord[x]
  BY <1>4, <1>8, <1>12 DEF CountedFields
<1>14. IdentityMatches(complete)
  <2>. DEFINE identity == [f \in RecordFields \ {"id"} |-> IF f = "snapshot" THEN FALSE ELSE complete[f]]
  <2>1. RecordFields \ {"id"} = CountedFields
    BY <1>11 DEF RecordFields
  <2>2. \A f \in CountedFields : identity[f] = counted[f]
    BY <1>5, <1>8, <1>12, <2>1 DEF CountedFields, BaseFields
  <2>3. identity = counted
    BY <1>7, <2>1, <2>2
  <2>4. Identity(complete) = identity
    BY <1>10 DEF Identity
  <2> QED BY <1>12, <2>3, <2>4 DEF IdentityMatches
<1>15. CountsMatch(complete)
  <2>1. complete["attempts"] = r["attempts"] /\ complete["retries"] = counted["retries"] /\ complete["repairs"] = counted["repairs"]
    BY <1>8, <1>12 DEF CountedFields, BaseFields
  <2> QED BY <1>8, <2>1 DEF CountsMatch
<1> QED BY <1>1, <1>10, <1>13, <1>14, <1>15 DEF IsRecord

(***************************************************************************)
(* The fallback of a candidate set                                         *)
(***************************************************************************)

Above(c, d) == c.score > d.score \/ (c.score = d.score /\ c.rank > d.rank)

\* Among candidates with ranks of their own one is above all others.
LEMMA BestExists ==
  ASSUME NEW all, NEW s \in Seq(all),
         \A c \in all : c.score \in Int /\ c.rank \in Int,
         \A c, d \in all : c # d => c.rank # d.rank,
         NEW S \in SUBSET ToSet(s), S # {}
  PROVE  Best(S) \in S
<1>. DEFINE Has(V) == V # {} => \E c \in V : \A d \in V \ {c} : Above(c, d)
            T == {t \in Seq(all) : \A V \in SUBSET ToSet(t) : Has(V)}
<1>1. <<>> \in T
  BY DEF ToSet
<1>2. ASSUME NEW t \in Seq(all), NEW x \in all, t \in T PROVE Append(t, x) \in T
  <2>1. ToSet(Append(t, x)) = ToSet(t) \cup {x} /\ ToSet(t) \subseteq all
    <3>1. /\ Len(t) \in Nat /\ Len(Append(t, x)) = Len(t) + 1 /\ Append(t, x)[Len(t) + 1] = x
          /\ \A i \in 1..Len(t) : Append(t, x)[i] = t[i] /\ t[i] \in all
          /\ DOMAIN t = 1..Len(t) /\ DOMAIN Append(t, x) = 1..(Len(t) + 1)
      OBVIOUS
    <3>. DEFINE u == Append(t, x)
    <3>. HIDE DEF u
    <3>2. DOMAIN u = 1..(Len(t) + 1) /\ u[Len(t) + 1] = x /\ \A i \in 1..Len(t) : u[i] = t[i]
      BY <3>1 DEF u
    <3>3. \A i \in 1..(Len(t) + 1) : i \in 1..Len(t) \/ i = Len(t) + 1
      BY <3>1
    <3>4. \A i \in 1..Len(t) : i \in 1..(Len(t) + 1)
      BY <3>1
    <3>5. Len(t) + 1 \in 1..(Len(t) + 1)
      BY <3>1
    <3>6. ToSet(u) = ToSet(t) \cup {x} /\ ToSet(t) \subseteq all
      <4>1. \A y : y \in ToSet(u) <=> \E i \in 1..(Len(t) + 1) : y = u[i]
        BY <3>2 DEF ToSet
      <4>2. \A y : y \in ToSet(t) <=> \E i \in 1..Len(t) : y = t[i]
        BY <3>1 DEF ToSet
      <4>3. \A y : y \in ToSet(u) <=> y \in ToSet(t) \/ y = x
        BY <3>2, <3>3, <3>4, <3>5, <4>1, <4>2, SMTT(20)
      <4>4. ToSet(t) \subseteq all
        BY <3>1, <4>2
      <4> QED BY <4>3, <4>4
    <3> QED BY <3>6 DEF u
  <2>2. ASSUME NEW V \in SUBSET ToSet(Append(t, x)), V # {} PROVE \E c \in V : \A d \in V \ {c} : Above(c, d)
    <3>. DEFINE W == V \ {x}
    <3>1. W \in SUBSET ToSet(t) /\ V \subseteq all
      BY <2>1, <2>2
    <3>2. CASE W = {}
      BY <2>2, <3>2
    <3>3. CASE W # {} /\ x \notin V
      BY <1>2, <3>1, <3>3
    <3>4. CASE W # {} /\ x \in V
      <4>1. PICK c \in W : \A d \in W \ {c} : Above(c, d)
        BY <1>2, <3>1, <3>4
      <4>2. c \in all /\ c # x /\ c \in V
        BY <3>1
      <4>3. CASE Above(c, x)
        BY <4>1, <4>2, <4>3
      <4>4. CASE ~Above(c, x)
        <5>1. Above(x, c)
          BY <4>2, <4>4 DEF Above
        <5>2. ASSUME NEW d \in V \ {x} PROVE Above(x, d)
          <6>1. CASE d = c
            BY <5>1, <6>1
          <6>2. CASE d # c
            <7>1. Above(c, d) /\ d \in all
              BY <3>1, <4>1, <6>2
            <7> QED BY <4>2, <5>1, <7>1 DEF Above
          <6> QED BY <6>1, <6>2
        <5> QED BY <3>4, <5>2
      <4> QED BY <4>3, <4>4
    <3> QED BY <3>2, <3>3, <3>4
  <2>3. Append(t, x) \in Seq(all)
    OBVIOUS
  <2> QED BY <2>2, <2>3
<1>. HIDE DEF T
<1>3. s \in T
  BY <1>1, <1>2, SequenceInduction
<1>4. \E c \in S : \A d \in S \ {c} : Above(c, d)
  BY <1>3 DEF T
<1>5. Best(S) = CHOOSE c \in S : \A d \in S \ {c} : Above(c, d)
  BY DEF Best, Above
<1> QED BY <1>4, <1>5

\* A fallback is one of the candidates; that of a spacing has no defect.
LEMMA FallbackHasNoDefects ==
  ASSUME NEW q \in Requests, Fallback(q.set) # NoCandidate
  PROVE  Defects(q.set, CandidateOf(q.set.candidates, Fallback(q.set).id)) = <<>>
<1>. DEFINE all == ToSet(q.set.candidates)
            S == SafeFallbacks(q.set)
            c == Fallback(q.set)
            chosen == CandidateOf(q.set.candidates, c.id)
<1>1. /\ q.set.candidates \in Seq(all)
      /\ \A x \in all : x.score \in Int /\ x.rank \in Int
      /\ \A x, y \in all : x # y => x.rank # y.rank
  <2>1. q.set.candidates \in Seq(all)
    BY AdjudicationAssumption
  <2>2. \A x \in all : x.score \in 0..100 /\ x.rank \in Nat
    BY AdjudicationAssumption
  <2>3. \A x, y \in all : x # y => x.rank # y.rank
    BY AdjudicationAssumption
  <2>. HIDE DEF all
  <2>4. ASSUME NEW x \in all PROVE x.score \in Int /\ x.rank \in Int
    <3>1. x.score \in 0..100 /\ x.rank \in Nat
      BY <2>2
    <3> QED BY <3>1
  <2> QED BY <2>1, <2>3, <2>4
<1>2. S # {} /\ c = Best(S)
  BY DEF Fallback
<1>3. S \subseteq all
  BY DEF SafeFallbacks
<1>4. c \in S
  <2>. HIDE DEF S, c
  <2>1. S \in SUBSET ToSet(q.set.candidates)
    BY <1>3
  <2>. HIDE DEF all
  <2>2. Best(S) \in S
    BY <1>1, <1>2, <2>1, BestExists
  <2> QED BY <1>2, <2>2
<1>5. chosen \in all /\ chosen.id = c.id
  BY <1>3, <1>4 DEF CandidateOf
<1>6. CASE q.set.type # "spacing"
  BY <1>6 DEF Defects
<1>7. CASE q.set.type = "spacing"
  <2>1. Defects(q.set, c) = <<>>
    BY <1>4, <1>7 DEF SafeFallbacks, FallbackIsUnsafe
  <2> QED BY <1>5, <1>7, <2>1 DEF Defects
<1> QED BY <1>6, <1>7

(***************************************************************************)
(* What the audit of a run may look like                                   *)
(***************************************************************************)

IsSequence(s) == \E E : s \in Seq(E)

Confidently(q, confidence) == confidence >= q.policy.minimum_confidence
Allowed(q) == Ids(CandidatesOf(q))

\* The call at position i: a vote phase asks with the attempts before it.
AskedAt(q, a, i, p) ==
  /\ a[i].phase = p /\ a[i].index = i
  /\ a[i].hash = <<q, p, i, ActiveMessages(SubSeq(a, 1, i - 1), p)>>

\* An answer outside the allowlist, and a vote.
Try(q, a, i, p) ==
  AskedAt(q, a, i, p) /\ a[i].status = "candidate_unknown" /\ a[i].candidate = NoCandidate
VoteAt(q, a, i, p) ==
  /\ AskedAt(q, a, i, p) /\ a[i].candidate \in Allowed(q)
  /\ a[i].status = IF Confidently(q, a[i].confidence) THEN "accepted" ELSE "low_confidence"
  /\ a[i].codes = IF Confidently(q, a[i].confidence) THEN <<>> ELSE <<"LLM_CONFIDENCE_TOO_LOW">>

Tries(q, a, lo, hi, p)  == \A i \in lo..hi : Try(q, a, i, p)
Ballot(q, a, lo, hi, p) == Tries(q, a, lo, hi - 1, p) /\ VoteAt(q, a, hi, p)

\* A phase after the ballots before it.
LowPrimary(q, a, j) == Ballot(q, a, 1, j, "primary") /\ ~Confidently(q, a[j].confidence)
Disagreeing(q, a, j, k) ==
  /\ LowPrimary(q, a, j)
  /\ Ballot(q, a, j + 1, k, "recovery") /\ Confidently(q, a[k].confidence)
  /\ a[j].candidate # a[k].candidate

InPrimary(q, a) == Tries(q, a, 1, Len(a), "primary")
InRecovery(q, a) ==
  \E j \in 1..Len(a) : LowPrimary(q, a, j) /\ Tries(q, a, j + 1, Len(a), "recovery")
InTiebreak(q, a) ==
  \E j, k \in 1..Len(a) : j < k /\ Disagreeing(q, a, j, k) /\ Tries(q, a, k + 1, Len(a), "tiebreak")
InGeneration(q, a) ==
  Len(a) > 0 /\ Ballot(q, a, 1, Len(a), "primary") /\ q.set.type = "spacing"

\* A rendering without defects that the model proposed.
ProposedAt(q, a, n) ==
  /\ a[n].phase = "generation" /\ a[n].index = n
  /\ a[n].hash = <<q, "generation", n, GenerationMessages(a[n - 1].candidate)>>
  /\ a[n].status = IF Confidently(q, a[n].confidence) THEN "accepted" ELSE "low_confidence"
  /\ a[n].codes = IF Confidently(q, a[n].confidence) THEN <<>> ELSE <<"LLM_CONFIDENCE_TOO_LOW">>
  /\ a[n].candidate \in [q.set.text.gaps -> GapStates]
  /\ DefectCodes(q.set.text, a[n].candidate) = <<>>
InVerification(q, a) ==
  /\ Len(a) > 1 /\ Ballot(q, a, 1, Len(a) - 1, "primary") /\ ProposedAt(q, a, Len(a))
  /\ q.set.type = "spacing"

(***************************************************************************)
(* Selections the model made, by the audit they keep                       *)
(***************************************************************************)

MadeByPrimary(q, t, a, n) ==
  /\ Ballot(q, a, 1, n, "primary") /\ Confidently(q, a[n].confidence)
  /\ t.recovery = "not_needed" /\ t.method = "none" /\ t.recoveries = 0
  /\ t.source \in {"model", "cache"} /\ t.codes = <<>> /\ t.generated = NoCandidate
  /\ t.selected = a[n].candidate /\ t.confidence = a[n].confidence
  /\ Defects(q.set, CandidateOf(CandidatesOf(q), t.selected)) = <<>>

Recovering(t, a, n) ==
  /\ t.recovery = "recovered" /\ t.consensus = t.selected /\ t.generated = NoCandidate
  /\ t.codes = <<"LLM_LOW_CONFIDENCE_RECOVERED">> /\ t.source \in {"recovered", "cache"}
  /\ t.selected = a[n].candidate /\ t.confidence = a[n].confidence

MadeByRecovery(q, t, a, n) ==
  /\ Recovering(t, a, n) /\ t.method = "same_candidate" /\ t.recoveries = 1
  /\ \E j \in 1..(n - 1) :
       /\ LowPrimary(q, a, j)
       /\ Ballot(q, a, j + 1, n, "recovery") /\ Confidently(q, a[n].confidence)
       /\ a[j].candidate = a[n].candidate

MadeByTiebreak(q, t, a, n) ==
  /\ Recovering(t, a, n) /\ t.method = "two_of_three" /\ t.recoveries = 2
  /\ \E j, k \in 1..(n - 1) :
       /\ j < k /\ Disagreeing(q, a, j, k)
       /\ Ballot(q, a, k + 1, n, "tiebreak") /\ Confidently(q, a[n].confidence)
       /\ a[n].candidate \in {a[j].candidate, a[k].candidate}

MadeByGeneration(q, t, a, n) ==
  /\ n > 2 /\ q.set.type = "spacing"
  /\ Ballot(q, a, 1, n - 2, "primary")
  /\ ProposedAt(q, a, n - 1) /\ Confidently(q, a[n - 1].confidence)
  /\ a[n].phase = "verification" /\ a[n].index = n
  /\ a[n].hash = <<q, "verification", n, VerificationMessages(a[n - 1].candidate)>>
  /\ a[n].status = "accepted" /\ a[n].codes = <<>> /\ Confidently(q, a[n].confidence)
  /\ a[n].candidate = a[n - 1].candidate
  /\ t.recovery = "generated" /\ t.source \in {"generated", "cache"}
  /\ t.selected = a[n].candidate
  /\ t.generated = [id |-> a[n].candidate, text |-> q.set.text]
  /\ t.codes = <<"LLM_SPACING_REPAIR_APPLIED">>
  /\ t.confidence = Min({a[n - 1].confidence, a[n].confidence})

MadeBy(q, t, a, n) ==
  \/ MadeByPrimary(q, t, a, n) \/ MadeByRecovery(q, t, a, n)
  \/ MadeByTiebreak(q, t, a, n) \/ MadeByGeneration(q, t, a, n)

Made(t) ==
  /\ IsSequence(t.attempts) /\ Len(t.attempts) > 0
  /\ MadeBy(t.request, t, t.attempts, Len(t.attempts))

\* What a run whose answers are not enough leaves behind.
Unearned(q, a) ==
  a # <<>> =>
    LET n == Len(a)
    IN  \/ a[n].candidate = NoCandidate \/ a[n].status = "validation_rejected"
        \/ ~Confidently(q, a[n].confidence)
        \/ /\ a[n].phase \in {"recovery", "tiebreak"}
           /\ \A i \in 1..(n - 1) : a[i].candidate # a[n].candidate

(***************************************************************************)
(* The answers that earn a selection                                       *)
(***************************************************************************)

\* What a request allows is what the run of it allows.
LEMMA AllowedIsCurrent ==
  ASSUME NEW q, q = request
  PROVE  /\ allowlist = Allowed(q) /\ candidates = CandidatesOf(q)
         /\ \A c : IsConfident(c) <=> Confidently(q, c)
BY DEF allowlist, Allowed, candidates, IsConfident, Confidently

\* What names a candidate ends with the last attempt, when that names it.
LEMMA NamingFacts ==
  ASSUME NEW a, IsSequence(a), Len(a) > 0, a = record.attempts, NEW id
  PROVE  LET n == Len(a)
             t == SubSeq(a, 1, n - 1)
             I == {i \in DOMAIN a : a[i].candidate = id /\ a[i].status # "validation_rejected"}
         IN  /\ n \in Nat \ {0}
             /\ Naming(id) # <<>> /\ Last(Naming(id)) = Last(a) =>
                  a[n].candidate = id /\ a[n].status # "validation_rejected"
             /\ a[n].candidate = id /\ a[n].status # "validation_rejected" =>
                  /\ Naming(id) = Append(Picked(t, I), a[n])
                  /\ Naming(id) # <<>> /\ Last(Naming(id)) = a[n]
                  /\ \A E : a \in Seq(E) => Picked(t, I) \in Seq(E)
<1>. DEFINE n == Len(a)
            t == SubSeq(a, 1, n - 1)
            I == {i \in DOMAIN a : a[i].candidate = id /\ a[i].status # "validation_rejected"}
<1>1. PICK E : a \in Seq(E)
  BY DEF IsSequence
<1>2. n \in Nat \ {0} /\ a # <<>> /\ DOMAIN a = 1..n /\ n \in 1..n
  BY <1>1
<1>3. Naming(id) = Picked(a, I)
  BY DEF Naming
<1>4. ASSUME Naming(id) # <<>>, Last(Naming(id)) = Last(a)
      PROVE  a[n].candidate = id /\ a[n].status # "validation_rejected"
  <2>. DEFINE p == Picked(a, I)
  <2>1. p \in Seq(E)
    BY <1>1, PickedSeq
  <2>2. Len(p) \in 1..Len(p)
    <3>. HIDE DEF p
    <3>1. p # <<>>
      BY <1>3, <1>4 DEF p
    <3> QED BY <2>1, <3>1
  <2>3. PICK i \in 1..Len(a) : i \in I /\ p[Len(p)] = a[i]
    <3>. HIDE DEF I
    <3> QED BY <1>1, <2>2, PickedMembers
  <2>4. a[n] = a[i]
    BY <1>3, <1>4, <2>3 DEF Last
  <2> QED BY <2>3, <2>4
<1>5. ASSUME a[n].candidate = id, a[n].status # "validation_rejected"
      PROVE  /\ Naming(id) = Append(Picked(t, I), a[n])
             /\ Naming(id) # <<>> /\ Last(Naming(id)) = a[n]
  <2>1. Len(a) \in I
    BY <1>2, <1>5
  <2>. HIDE DEF I
  <2>2. /\ Picked(a, I) = Append(Picked(SubSeq(a, 1, Len(a) - 1), I), a[Len(a)])
        /\ Picked(a, I) # <<>> /\ Picked(a, I)[Len(Picked(a, I))] = a[Len(a)]
    BY <1>1, <1>2, <2>1, PickedLast
  <2> QED BY <1>3, <2>2 DEF Last
<1>6. ASSUME NEW F, a \in Seq(F) PROVE Picked(t, I) \in Seq(F)
  <2>1. t \in Seq(F)
    BY <1>2, <1>6
  <2>. HIDE DEF t, I
  <2> QED BY <2>1, PickedSeq
<1> QED BY <1>2, <1>4, <1>5, <1>6

\* An audit that earns nothing earns no candidate.
LEMMA UnearnedStays ==
  ASSUME IsSequence(record.attempts), Unearned(request, record.attempts), NEW id, id # NoCandidate
  PROVE  ~Earned(id)
<1>. DEFINE a == record.attempts
            n == Len(a)
            t == SubSeq(a, 1, n - 1)
            I == {i \in DOMAIN a : a[i].candidate = id /\ a[i].status # "validation_rejected"}
            named == Naming(id)
<1>1. SUFFICES ASSUME Earned(id) PROVE FALSE
  OBVIOUS
<1>2. named # <<>> /\ IsConfident(Last(named).confidence) /\ Last(named) = Last(a)
  BY <1>1 DEF Earned
<1>3. PICK E : a \in Seq(E)
  BY DEF IsSequence
<1>4. CASE a = <<>>
  <2>1. named = Picked(<<>>, I)
    BY <1>4 DEF Naming
  <2> QED BY <1>2, <2>1, PickedEmpty
<1>5. CASE a # <<>>
  <2>1. Len(a) > 0
    BY <1>3, <1>5
  <2>2. /\ n \in Nat \ {0}
        /\ a[n].candidate = id /\ a[n].status # "validation_rejected"
        /\ named = Append(Picked(t, I), a[n]) /\ Last(named) = a[n] /\ Picked(t, I) \in Seq(E)
    BY <1>2, <1>3, <2>1, NamingFacts, ZenonT(30)
  <2>3. Confidently(request, a[n].confidence)
    BY <1>2, <2>2, AllowedIsCurrent
  <2>4. a[n].phase \in {"recovery", "tiebreak"} /\ \A i \in 1..(n - 1) : a[i].candidate # a[n].candidate
    BY <1>5, <2>2, <2>3 DEF Unearned
  <2>5. Len(named) > 1
    BY <1>1, <2>2, <2>4 DEF Earned
  <2>6. Picked(t, I) = <<>>
    <3>1. t \in Seq(E) /\ Len(t) = n - 1
      BY <1>3, <2>2
    <3>2. \A i \in 1..(n - 1) : i \notin I
      BY <2>2, <2>4
    <3>. HIDE DEF t, I
    <3> QED BY <3>1, <3>2, PickedNone
  <2>7. named = Append(<<>>, a[n])
    BY <2>2, <2>6
  <2>8. Len(Append(<<>>, a[n])) = 1
    OBVIOUS
  <2> QED BY <2>5, <2>7, <2>8
<1> QED BY <1>4, <1>5

\* Whatever the model made is earned by the audit it keeps.
LEMMA MadeIsEarned ==
  ASSUME NEW t, Made(t), t.request = request, t.attempts = record.attempts PROVE Earned(t.selected)
<1>. DEFINE q == request
            a == record.attempts
            n == Len(a)
            id == t.selected
            front == SubSeq(a, 1, n - 1)
            I == {i \in DOMAIN a : a[i].candidate = id /\ a[i].status # "validation_rejected"}
            named == Naming(id)
<1>1. PICK E : a \in Seq(E)
  BY DEF Made, IsSequence
<1>2. n > 0 /\ MadeBy(q, t, a, n) /\ IsSequence(a)
  BY DEF Made
<1>3. n \in Nat \ {0} /\ DOMAIN a = 1..n /\ front \in Seq(E) /\ Len(front) = n - 1
      /\ \A i \in 1..(n - 1) : front[i] = a[i]
  BY <1>1, <1>2
<1>4. /\ a[n].candidate = id /\ Confidently(q, a[n].confidence)
      /\ a[n].status # "validation_rejected"
  BY <1>2 DEF MadeBy, MadeByPrimary, MadeByRecovery, MadeByTiebreak, MadeByGeneration, Recovering, Ballot, VoteAt
<1>5. /\ named = Append(Picked(front, I), a[n]) /\ named # <<>> /\ Last(named) = a[n]
      /\ Picked(front, I) \in Seq(E)
  <2>1. named = Picked(a, I)
    BY DEF Naming
  <2>2. Len(a) \in I
    BY <1>3, <1>4
  <2>3. Len(a) > 0
    BY <1>2
  <2>. HIDE DEF I
  <2>4. /\ Picked(a, I) = Append(Picked(SubSeq(a, 1, Len(a) - 1), I), a[Len(a)])
        /\ Picked(a, I) # <<>> /\ Picked(a, I)[Len(Picked(a, I))] = a[Len(a)]
    <3>. HIDE DEF a
    <3> QED BY <1>1, <2>2, <2>3, PickedLast
  <2>5. Picked(front, I) \in Seq(E)
    <3>. HIDE DEF front
    <3> QED BY <1>3, PickedSeq
  <2>6. named # <<>>
    BY <2>1, <2>4
  <2>7. Last(named) = a[n]
    BY <2>1, <2>4 DEF Last
  <2> QED BY <2>1, <2>4, <2>5, <2>6, <2>7
<1>6. Last(record.attempts) = a[n]
  BY DEF Last
<1>7. IsConfident(Last(named).confidence)
  BY <1>4, <1>5, AllowedIsCurrent
<1>8. ASSUME NEW i \in 1..(n - 1), a[i].candidate = id, a[i].status # "validation_rejected"
      PROVE  Len(named) > 1
  <2>. DEFINE p == Picked(front, I)
  <2>1. i \in I /\ i \in 1..Len(front)
    BY <1>3, <1>8
  <2>2. p # <<>>
    <3>. HIDE DEF I, front
    <3> QED BY <1>3, <2>1, PickedSome
  <2>. HIDE DEF p
  <2>3. Len(Append(p, a[n])) > 1
    BY <1>5, <2>2 DEF p
  <2> QED BY <1>5, <2>3 DEF p
<1>9. CASE MadeByPrimary(q, t, a, n)
  <2>1. a[n].phase = "primary" /\ Defects(q.set, CandidateOf(candidates, id)) = <<>>
    BY <1>9, AllowedIsCurrent DEF MadeByPrimary, Ballot, VoteAt, AskedAt
  <2> QED BY <1>5, <1>6, <1>7, <2>1 DEF Earned
<1>10. CASE MadeByRecovery(q, t, a, n)
  <2>1. PICK j \in 1..(n - 1) :
          /\ LowPrimary(q, a, j) /\ Ballot(q, a, j + 1, n, "recovery")
          /\ a[j].candidate = a[n].candidate
    BY <1>10 DEF MadeByRecovery
  <2>2. a[n].phase = "recovery" /\ a[j].candidate = id /\ a[j].status # "validation_rejected"
    BY <1>4, <2>1 DEF Ballot, VoteAt, AskedAt, LowPrimary
  <2>3. Len(named) > 1
    BY <1>8, <2>2
  <2> QED BY <1>5, <1>6, <1>7, <2>2, <2>3 DEF Earned
<1>11. CASE MadeByTiebreak(q, t, a, n)
  <2>1. PICK j \in 1..(n - 1), k \in 1..(n - 1) :
          /\ Disagreeing(q, a, j, k) /\ Ballot(q, a, k + 1, n, "tiebreak")
          /\ a[n].candidate \in {a[j].candidate, a[k].candidate}
    BY <1>11 DEF MadeByTiebreak
  <2>2. /\ a[n].phase = "tiebreak"
        /\ a[j].status # "validation_rejected" /\ a[k].status # "validation_rejected"
    BY <2>1 DEF Ballot, VoteAt, AskedAt, Disagreeing, LowPrimary
  <2>3. Len(named) > 1
    BY <1>4, <1>8, <2>1, <2>2
  <2> QED BY <1>5, <1>6, <1>7, <2>2, <2>3 DEF Earned
<1>12. CASE MadeByGeneration(q, t, a, n)
  <2>. DEFINE first == SubSeq(a, 1, n - 2)
              g == a[n - 1]
              v == a[n]
              p == Picked(first, I)
              pg == Append(p, g)
              J == {i \in DOMAIN named : named[i].phase = "generation"}
  <2>1. /\ n > 2 /\ Ballot(q, a, 1, n - 2, "primary") /\ ProposedAt(q, a, n - 1)
        /\ g.candidate = id /\ g.status = "accepted" /\ g.phase = "generation"
        /\ Confidently(q, g.confidence)
        /\ v.phase = "verification" /\ v.codes = <<>> /\ DefectCodes(q.set.text, id) = <<>>
    BY <1>4, <1>12 DEF MadeByGeneration, ProposedAt
  <2>2. /\ first \in Seq(E) /\ Len(first) = n - 2 /\ g \in E /\ v \in E
        /\ \A i \in 1..(n - 2) : first[i] = a[i]
        /\ n - 1 \in 1..n /\ n - 2 \in Nat
    BY <1>1, <1>3, <2>1
  <2>3. front = Append(first, g)
    <3>1. Append(first, g) \in Seq(E) /\ Len(Append(first, g)) = n - 1
      BY <2>2
    <3>2. \A i \in 1..(n - 1) : front[i] = Append(first, g)[i]
      BY <1>3, <2>2
    <3>. DEFINE s == Append(first, g)
    <3>. HIDE DEF s, front
    <3>3. front = s
      BY <1>3, <3>1, <3>2, SequencesEqual DEF s
    <3> QED BY <3>3 DEF s
  <2>4. n - 1 \in I
    BY <1>3, <2>1, <2>2
  <2>5. p \in Seq(E) /\ \A i \in 1..Len(p) : p[i].phase # "generation"
    <3>1. p \in Seq(E)
      <4>. HIDE DEF I, first
      <4> QED BY <2>2, PickedSeq
    <3>2. ASSUME NEW i \in 1..Len(p) PROVE p[i].phase # "generation"
      <4>1. PICK m \in 1..Len(first) : m \in I /\ p[i] = first[m]
        <5>. HIDE DEF I, first
        <5> QED BY <2>2, <3>2, PickedMembers, SMTT(20)
      <4>2. m \in 1..(n - 2) /\ p[i] = a[m]
        BY <2>2, <4>1
      <4>3. a[m].phase = "primary"
        <5>1. m \in 1..((n - 2) - 1) \/ m = n - 2
          BY <2>2, <4>2, SMTT(20)
        <5> QED BY <2>1, <5>1 DEF Ballot, Tries, Try, VoteAt, AskedAt
      <4> QED BY <4>2, <4>3
    <3> QED BY <3>1, <3>2
  <2>6. Picked(front, I) = pg
    <3>. HIDE DEF I, first, g
    <3>1. Picked(Append(first, g), I) = IF Len(first) + 1 \in I THEN Append(Picked(first, I), g) ELSE Picked(first, I)
      BY <2>2, PickedAppend
    <3>2. Len(first) + 1 = n - 1
      BY <1>3, <2>2
    <3> QED BY <2>3, <2>4, <3>1, <3>2
  <2>. HIDE DEF p, first, g, v
  <2>7. named = Append(pg, v)
    BY <1>5, <2>6 DEF v
  <2>8. /\ pg \in Seq(E) /\ Len(pg) = Len(p) + 1 /\ pg[Len(p) + 1] = g /\ \A i \in 1..Len(p) : pg[i] = p[i]
        /\ Len(p) \in Nat
    BY <2>2, <2>5
  <2>. HIDE DEF pg, named
  <2>9. /\ named \in Seq(E) /\ Len(named) = Len(pg) + 1 /\ named[Len(pg) + 1] = v
        /\ (\A i \in 1..Len(pg) : named[i] = pg[i]) /\ DOMAIN named = 1..Len(named)
    BY <2>2, <2>7, <2>8
  <2>10. Len(pg) + 1 \notin J
    BY <2>1, <2>9
  <2>11. Len(p) + 1 \in J
    BY <2>1, <2>8, <2>9
  <2>12. \A i \in 1..Len(p) : i \notin J
    <3>1. ASSUME NEW i \in 1..Len(p) PROVE named[i] = p[i]
      <4>1. i \in 1..Len(pg) /\ pg[i] = p[i]
        BY <2>8
      <4> QED BY <2>9, <4>1
    <3> QED BY <2>5, <3>1
  <2>. HIDE DEF J
  <2>13. Picked(named, J) = Picked(pg, J)
    <3>1. Picked(Append(pg, v), J) = IF Len(pg) + 1 \in J THEN Append(Picked(pg, J), v) ELSE Picked(pg, J)
      BY <2>2, <2>8, PickedAppend
    <3> QED BY <2>7, <2>10, <3>1
  <2>14. Picked(p, J) = <<>>
    BY <2>5, <2>12, PickedNone
  <2>15. Picked(pg, J) = Append(<<>>, g)
    <3>1. Picked(Append(p, g), J) = IF Len(p) + 1 \in J THEN Append(Picked(p, J), g) ELSE Picked(p, J)
      BY <2>2, <2>5, PickedAppend
    <3> QED BY <2>11, <2>14, <3>1 DEF pg
  <2>. DEFINE one == Append(<<>>, g)
  <2>16. one \in Seq(E) /\ Len(one) = 1 /\ one[1] = g /\ DOMAIN one = 1..1
    BY <2>2
  <2>. HIDE DEF one
  <2>17. InPhase(named, "generation") = one
    BY <2>13, <2>15 DEF InPhase, J, one
  <2>18. Confident(one) = one
    <3>. DEFINE K == {i \in DOMAIN one : IsConfident(one[i].confidence)}
    <3>1. \A i \in 1..Len(one) : i \in K
      BY <2>1, <2>16, AllowedIsCurrent
    <3>. HIDE DEF K
    <3>2. Picked(one, K) = one
      BY <2>16, <3>1, PickedAll
    <3> QED BY <3>2 DEF Confident, K
  <2>19. Len(Confident(InPhase(named, "generation"))) = 1
    BY <2>16, <2>17, <2>18
  <2> QED BY <1>5, <1>6, <1>7, <2>1, <2>19 DEF Earned, named, v
<1> QED BY <1>2, <1>9, <1>10, <1>11, <1>12 DEF MadeBy

(***************************************************************************)
(* What was made is usable again                                           *)
(***************************************************************************)

\* A stretch of the audit that is a ballot.
LEMMA BallotIsVote ==
  ASSUME NEW E, NEW a \in Seq(E), NEW lo \in 1..Len(a), NEW hi \in 1..Len(a), lo <= hi, NEW p,
         Ballot(request, a, lo, hi, p)
  PROVE  /\ VoteOf(SubSeq(a, lo, hi)) /\ Last(SubSeq(a, lo, hi)) = a[hi]
         /\ \A i \in lo..hi : AskedAt(request, a, i, p)
<1>. DEFINE s == SubSeq(a, lo, hi)
            m == hi - lo + 1
<1>1. /\ s \in Seq(E) /\ Len(s) = m /\ m \in Nat \ {0} /\ s # <<>>
      /\ \A i \in 1..m : s[i] = a[lo + i - 1]
  OBVIOUS
<1>2. s[m] = a[hi]
  BY <1>1
<1>3. Last(s) = a[hi]
  BY <1>1, <1>2 DEF Last
<1>4. ASSUME NEW i \in 1..(Len(s) - 1) PROVE s[i].status = "candidate_unknown"
  <2>1. i \in 1..m /\ lo + i - 1 \in lo..(hi - 1)
    BY <1>1
  <2>2. a[lo + i - 1].status = "candidate_unknown"
    BY <2>1 DEF Ballot, Tries, Try
  <2> QED BY <1>1, <2>1, <2>2
<1>5. /\ a[hi].candidate \in allowlist
      /\ a[hi].status = IF IsConfident(a[hi].confidence) THEN "accepted" ELSE "low_confidence"
  BY AllowedIsCurrent DEF Ballot, VoteAt
<1>6. ASSUME NEW i \in lo..hi PROVE AskedAt(request, a, i, p)
  <2>1. i \in lo..(hi - 1) \/ i = hi
    OBVIOUS
  <2> QED BY <2>1 DEF Ballot, Tries, Try, VoteAt
<1>. HIDE DEF s
<1>7. VoteOf(s)
  BY <1>1, <1>3, <1>4, <1>5 DEF VoteOf
<1> QED BY <1>3, <1>6, <1>7 DEF s

\* The hashes of an audit that holds votes only.
LEMMA HashesOfVotes ==
  ASSUME NEW t, NEW E, t.attempts \in Seq(E),
         \A i \in 1..Len(t.attempts) :
           t.attempts[i].phase \in VotePhases /\ AskedAt(request, t.attempts, i, t.attempts[i].phase),
         \A i, j \in 1..Len(t.attempts) :
           i < j => Turn[t.attempts[i].phase] <= Turn[t.attempts[j].phase]
  PROVE  AttemptHashesMatch(t)
<1>. DEFINE a == t.attempts
            n == Len(a)
            I == {i \in DOMAIN a : a[i].phase \in VotePhases}
            votes == Picked(a, I)
            rest == SubSeq(a, Len(votes) + 1, Len(a))
<1>1. n \in Nat /\ DOMAIN a = 1..n /\ SubSeq(a, 1, n) = a /\ SubSeq(a, n + 1, n) = <<>>
  OBVIOUS
<1>2. \A i \in 1..n : i \in I
  BY <1>1
<1>. HIDE DEF I
<1>3. votes = a
  <2>. HIDE DEF a
  <2>1. a \in Seq(E)
    BY DEF a
  <2> QED BY <1>2, <2>1, PickedAll
<1>4. rest = <<>>
  BY <1>1, <1>3
<1>. HIDE DEF votes, rest
<1>5. \A i \in DOMAIN a : a[i].index = i
  BY <1>1 DEF AskedAt
<1>6. votes = SubSeq(a, 1, Len(votes))
  BY <1>1, <1>3
<1>7. \A i, j \in DOMAIN votes : i < j => Turn[votes[i].phase] <= Turn[votes[j].phase]
  BY <1>1, <1>3
<1>8. ASSUME NEW i \in DOMAIN votes
      PROVE  votes[i].hash = <<request, votes[i].phase, i, ActiveMessages(SubSeq(votes, 1, i - 1), votes[i].phase)>>
  <2>1. AskedAt(request, a, i, a[i].phase)
    BY <1>1, <1>3, <1>8
  <2> QED BY <1>3, <2>1 DEF AskedAt
<1> QED BY <1>4, <1>5, <1>6, <1>7, <1>8 DEF AttemptHashesMatch, votes, rest, I

\* A selection of the primary vote matches its audit, one of a recovery and a tiebreak
\* (below) that of theirs, and a generated one that of a verified repair.
LEMMA PrimaryMatches ==
  ASSUME NEW t, NEW E, t.attempts \in Seq(E), Len(t.attempts) > 0,
         MadeByPrimary(request, t, t.attempts, Len(t.attempts)), CountsMatch(t)
  PROVE  t.selected \in allowlist /\ AttemptHashesMatch(t) /\ PrimaryAuditMatches(t)
<1>. DEFINE a == t.attempts
            n == Len(a)
<1>1. n \in Nat \ {0} /\ 1 \in 1..n /\ n \in 1..n /\ 1 <= n /\ SubSeq(a, 1, n) = a /\ DOMAIN a = 1..n
  OBVIOUS
<1>2. Ballot(request, a, 1, n, "primary") /\ Confidently(request, a[n].confidence)
  BY DEF MadeByPrimary
<1>3. /\ VoteOf(SubSeq(a, 1, n)) /\ Last(SubSeq(a, 1, n)) = a[n]
      /\ \A i \in 1..n : AskedAt(request, a, i, "primary")
  <2>. HIDE DEF a
  <2>1. a \in Seq(E)
    BY DEF a
  <2> QED BY <1>1, <1>2, <2>1, BallotIsVote
<1>4. \A i \in 1..n : a[i].phase = "primary"
  BY <1>3 DEF AskedAt
<1>5. AttemptHashesMatch(t)
  <2>1. "primary" \in VotePhases /\ Turn["primary"] <= Turn["primary"]
    BY DEF VotePhases, Turn
  <2> QED BY <1>3, <1>4, <2>1, HashesOfVotes
<1>6. Before(a, "primary") = <<>>
  <2>. DEFINE J == {i \in DOMAIN a : a[i].phase # "primary"}
  <2>1. \A i \in 1..Len(a) : i \notin J
    BY <1>4
  <2>. HIDE DEF J, a
  <2>2. a \in Seq(E)
    BY DEF a
  <2>3. Picked(a, J) = <<>>
    BY <2>1, <2>2, PickedNone
  <2> QED BY <2>3 DEF Before, J
<1>7. /\ a[n].candidate \in allowlist /\ a[n].status = "accepted"
      /\ t.selected = a[n].candidate /\ t.confidence = a[n].confidence
  BY <1>2, AllowedIsCurrent DEF Ballot, VoteAt, MadeByPrimary
<1>8. VoteOf(a) /\ Last(a) = a[n]
  BY <1>1, <1>3
<1>9. /\ t.source \in {"model", "cache"} /\ t.method = "none" /\ t.recoveries = 0 /\ t.codes = <<>>
  BY DEF MadeByPrimary
<1>10. PrimaryAuditMatches(t)
  BY <1>6, <1>7, <1>8, <1>9 DEF PrimaryAuditMatches
<1> QED BY <1>5, <1>7, <1>10

\* A phase that is a stretch of the audit, and one that is not there.
LEMMA PhaseIsStretch ==
  ASSUME NEW E, NEW a \in Seq(E), NEW lo \in Nat \ {0}, NEW hi \in Nat, lo <= hi + 1, hi <= Len(a), NEW p,
         \A i \in 1..Len(a) : a[i].phase = p <=> lo <= i /\ i <= hi
  PROVE  InPhase(a, p) = SubSeq(a, lo, hi)
<1>. DEFINE I == {i \in DOMAIN a : a[i].phase = p}
<1>1. \A i \in 1..Len(a) : i \in I <=> lo <= i /\ i <= hi
  OBVIOUS
<1>. HIDE DEF I
<1>2. Picked(a, I) = SubSeq(a, lo, hi)
  BY <1>1, PickedInterval
<1> QED BY <1>2 DEF InPhase, I

LEMMA AbsentPhase ==
  ASSUME NEW E, NEW a \in Seq(E), NEW p, \A i \in 1..Len(a) : a[i].phase # p
  PROVE  InPhase(a, p) = <<>>
<1>. DEFINE I == {i \in DOMAIN a : a[i].phase = p}
<1>1. \A i \in 1..Len(a) : i \notin I
  OBVIOUS
<1>. HIDE DEF I
<1>2. Picked(a, I) = <<>>
  BY <1>1, PickedNone
<1> QED BY <1>2 DEF InPhase, I

\* Two votes agree on what is selected.
LEMMA RecoveryMatches ==
  ASSUME NEW t, NEW E, t.attempts \in Seq(E), Len(t.attempts) > 0,
         MadeByRecovery(request, t, t.attempts, Len(t.attempts)), CountsMatch(t)
  PROVE  t.selected \in allowlist /\ AttemptHashesMatch(t) /\ RecoveryAuditMatches(t)
<1>. DEFINE n == Len(t.attempts)
<1>0. PICK a : a = t.attempts
  OBVIOUS
<1>1. PICK j \in 1..(n - 1) :
        /\ LowPrimary(request, a, j)
        /\ Ballot(request, a, j + 1, n, "recovery") /\ Confidently(request, a[n].confidence)
        /\ a[j].candidate = a[n].candidate
  BY <1>0 DEF MadeByRecovery
<1>2. /\ a \in Seq(E) /\ n = Len(a) /\ n \in Nat \ {0} /\ 1 \in 1..n /\ j \in 1..n /\ n \in 1..n /\ j + 1 \in 1..n
      /\ 1 <= j /\ j + 1 <= n /\ DOMAIN a = 1..n
  BY <1>0
<1>3. Ballot(request, a, 1, j, "primary") /\ ~Confidently(request, a[j].confidence)
  BY <1>1 DEF LowPrimary
<1>4. /\ VoteOf(SubSeq(a, 1, j)) /\ Last(SubSeq(a, 1, j)) = a[j]
      /\ \A i \in 1..j : AskedAt(request, a, i, "primary")
  BY <1>2, <1>3, BallotIsVote
<1>5. /\ VoteOf(SubSeq(a, j + 1, n)) /\ Last(SubSeq(a, j + 1, n)) = a[n]
      /\ \A i \in (j + 1)..n : AskedAt(request, a, i, "recovery")
  BY <1>1, <1>2, BallotIsVote
<1>6. \A i \in 1..n : (i \in 1..j /\ a[i].phase = "primary") \/ (i \in (j + 1)..n /\ a[i].phase = "recovery")
  <2>1. \A i \in 1..n : i \in 1..j \/ i \in (j + 1)..n
    BY <1>2
  <2> QED BY <1>4, <1>5, <2>1 DEF AskedAt
<1>7. InPhase(a, "primary") = SubSeq(a, 1, j)
  <2>1. \A i \in 1..Len(a) : a[i].phase = "primary" <=> 1 <= i /\ i <= j
    BY <1>2, <1>6
  <2>2. 1 \in Nat \ {0} /\ j \in Nat /\ 1 <= j + 1 /\ j <= Len(a)
    BY <1>2
  <2> QED BY <1>2, <2>1, <2>2, PhaseIsStretch
<1>8. InPhase(a, "recovery") = SubSeq(a, j + 1, n)
  <2>1. \A i \in 1..Len(a) : a[i].phase = "recovery" <=> j + 1 <= i /\ i <= n
    BY <1>2, <1>6
  <2>2. j + 1 \in Nat \ {0} /\ n \in Nat /\ j + 1 <= n + 1 /\ n <= Len(a)
    BY <1>2
  <2> QED BY <1>2, <2>1, <2>2, PhaseIsStretch
<1>9. InPhase(a, "tiebreak") = <<>>
  <2>1. \A i \in 1..Len(a) : a[i].phase # "tiebreak"
    BY <1>2, <1>6
  <2> QED BY <1>2, <2>1, AbsentPhase
<1>10. AttemptHashesMatch(t)
  <2>1. Turn["primary"] = 1 /\ Turn["recovery"] = 2 /\ {"primary", "recovery"} \subseteq VotePhases
    BY DEF VotePhases, Turn
  <2>2. \A i \in 1..n : a[i].phase \in VotePhases /\ AskedAt(request, a, i, a[i].phase)
    BY <1>4, <1>5, <1>6, <2>1
  <2>3. \A i, m \in 1..n : i < m => Turn[a[i].phase] <= Turn[a[m].phase]
    <3>1. \A i \in 1..n : Turn[a[i].phase] = IF i <= j THEN 1 ELSE 2
      BY <1>2, <1>6, <2>1
    <3> QED BY <1>2, <3>1
  <2> QED BY <1>0, <1>2, <2>2, <2>3, HashesOfVotes
<1>11. /\ a[n].candidate \in allowlist /\ a[n].status = "accepted"
       /\ a[j].status = "low_confidence"
  BY <1>1, <1>3, AllowedIsCurrent DEF Ballot, VoteAt
<1>12. /\ t.selected = a[n].candidate /\ t.confidence = a[n].confidence /\ t.consensus = t.selected
       /\ t.codes = <<"LLM_LOW_CONFIDENCE_RECOVERED">> /\ t.method = "same_candidate" /\ t.recoveries = 1
  BY <1>0 DEF MadeByRecovery, Recovering
<1>13. \A i \in DOMAIN t.attempts : t.attempts[i].phase \in VotePhases
  <2>1. {"primary", "recovery"} \subseteq VotePhases
    BY DEF VotePhases, Turn
  <2> QED BY <1>0, <1>2, <1>6, <2>1
<1>14. RecoveryAuditMatches(t)
  BY <1>0, <1>1, <1>4, <1>5, <1>7, <1>8, <1>9, <1>11, <1>12, <1>13 DEF RecoveryAuditMatches
<1> QED BY <1>10, <1>11, <1>12, <1>14

\* Two of three votes agree on what is selected.
LEMMA TiebreakMatches ==
  ASSUME NEW t, NEW E, t.attempts \in Seq(E), Len(t.attempts) > 0,
         MadeByTiebreak(request, t, t.attempts, Len(t.attempts)), CountsMatch(t)
  PROVE  t.selected \in allowlist /\ AttemptHashesMatch(t) /\ RecoveryAuditMatches(t)
<1>. DEFINE n == Len(t.attempts)
<1>0. PICK a : a = t.attempts
  OBVIOUS
<1>1. PICK j \in 1..(n - 1), k \in 1..(n - 1) :
        /\ j < k /\ Disagreeing(request, a, j, k)
        /\ Ballot(request, a, k + 1, n, "tiebreak") /\ Confidently(request, a[n].confidence)
        /\ a[n].candidate \in {a[j].candidate, a[k].candidate}
  BY <1>0 DEF MadeByTiebreak
<1>2. /\ a \in Seq(E) /\ n = Len(a) /\ n \in Nat \ {0} /\ DOMAIN a = 1..n
      /\ 1 \in 1..n /\ j \in 1..n /\ j + 1 \in 1..n /\ k \in 1..n /\ k + 1 \in 1..n /\ n \in 1..n
      /\ 1 <= j /\ j + 1 <= k /\ k + 1 <= n
  BY <1>0, <1>1
<1>3. /\ Ballot(request, a, 1, j, "primary") /\ ~Confidently(request, a[j].confidence)
      /\ Ballot(request, a, j + 1, k, "recovery") /\ Confidently(request, a[k].confidence)
      /\ a[j].candidate # a[k].candidate
  BY <1>1 DEF Disagreeing, LowPrimary
<1>4. /\ VoteOf(SubSeq(a, 1, j)) /\ Last(SubSeq(a, 1, j)) = a[j]
      /\ \A i \in 1..j : AskedAt(request, a, i, "primary")
  BY <1>2, <1>3, BallotIsVote
<1>5. /\ VoteOf(SubSeq(a, j + 1, k)) /\ Last(SubSeq(a, j + 1, k)) = a[k]
      /\ \A i \in (j + 1)..k : AskedAt(request, a, i, "recovery")
  BY <1>2, <1>3, BallotIsVote
<1>6. /\ VoteOf(SubSeq(a, k + 1, n)) /\ Last(SubSeq(a, k + 1, n)) = a[n]
      /\ \A i \in (k + 1)..n : AskedAt(request, a, i, "tiebreak")
  BY <1>1, <1>2, BallotIsVote
<1>7. \A i \in 1..n : \/ i \in 1..j /\ a[i].phase = "primary"
                      \/ i \in (j + 1)..k /\ a[i].phase = "recovery"
                      \/ i \in (k + 1)..n /\ a[i].phase = "tiebreak"
  <2>1. \A i \in 1..n : i \in 1..j \/ i \in (j + 1)..k \/ i \in (k + 1)..n
    BY <1>2
  <2> QED BY <1>4, <1>5, <1>6, <2>1 DEF AskedAt
<1>8. InPhase(a, "primary") = SubSeq(a, 1, j)
  <2>1. \A i \in 1..Len(a) : a[i].phase = "primary" <=> 1 <= i /\ i <= j
    BY <1>2, <1>7
  <2>2. 1 \in Nat \ {0} /\ j \in Nat /\ 1 <= j + 1 /\ j <= Len(a)
    BY <1>2
  <2> QED BY <1>2, <2>1, <2>2, PhaseIsStretch
<1>9. InPhase(a, "recovery") = SubSeq(a, j + 1, k)
  <2>1. \A i \in 1..Len(a) : a[i].phase = "recovery" <=> j + 1 <= i /\ i <= k
    BY <1>2, <1>7
  <2>2. j + 1 \in Nat \ {0} /\ k \in Nat /\ j + 1 <= k + 1 /\ k <= Len(a)
    BY <1>2
  <2> QED BY <1>2, <2>1, <2>2, PhaseIsStretch
<1>10. InPhase(a, "tiebreak") = SubSeq(a, k + 1, n)
  <2>1. \A i \in 1..Len(a) : a[i].phase = "tiebreak" <=> k + 1 <= i /\ i <= n
    BY <1>2, <1>7
  <2>2. k + 1 \in Nat \ {0} /\ n \in Nat /\ k + 1 <= n + 1 /\ n <= Len(a)
    BY <1>2
  <2> QED BY <1>2, <2>1, <2>2, PhaseIsStretch
<1>11. AttemptHashesMatch(t)
  <2>1. /\ Turn["primary"] = 1 /\ Turn["recovery"] = 2 /\ Turn["tiebreak"] = 3
        /\ {"primary", "recovery", "tiebreak"} \subseteq VotePhases
    BY DEF VotePhases, Turn
  <2>2. \A i \in 1..n : a[i].phase \in VotePhases /\ AskedAt(request, a, i, a[i].phase)
    BY <1>4, <1>5, <1>6, <1>7, <2>1
  <2>3. \A i, m \in 1..n : i < m => Turn[a[i].phase] <= Turn[a[m].phase]
    <3>1. \A i \in 1..n : Turn[a[i].phase] = IF i <= j THEN 1 ELSE IF i <= k THEN 2 ELSE 3
      BY <1>2, <1>7, <2>1
    <3> QED BY <1>2, <3>1
  <2> QED BY <1>0, <1>2, <2>2, <2>3, HashesOfVotes
<1>12. /\ a[n].candidate \in allowlist /\ a[n].status = "accepted"
       /\ a[j].status = "low_confidence" /\ a[k].status = "accepted"
  BY <1>1, <1>3, AllowedIsCurrent DEF Ballot, VoteAt
<1>13. /\ t.selected = a[n].candidate /\ t.confidence = a[n].confidence /\ t.consensus = t.selected
       /\ t.codes = <<"LLM_LOW_CONFIDENCE_RECOVERED">> /\ t.method = "two_of_three" /\ t.recoveries = 2
  BY <1>0 DEF MadeByTiebreak, Recovering
<1>14. \A i \in DOMAIN t.attempts : t.attempts[i].phase \in VotePhases
  <2>1. {"primary", "recovery", "tiebreak"} \subseteq VotePhases
    BY DEF VotePhases, Turn
  <2> QED BY <1>0, <1>2, <1>7, <2>1
<1>15. RecoveryAuditMatches(t)
  BY <1>0, <1>1, <1>3, <1>4, <1>5, <1>6, <1>8, <1>9, <1>10, <1>12, <1>13, <1>14, ZenonT(30) DEF RecoveryAuditMatches
<1> QED BY <1>11, <1>12, <1>13, <1>15

\* The repair that is selected was generated, checked and verified in this order.
LEMMA GenerationMatches ==
  ASSUME NEW t, NEW E, t.attempts \in Seq(E), Len(t.attempts) > 0, NoCandidate \notin allowlist,
         t.generated # NoCandidate,
         MadeByGeneration(request, t, t.attempts, Len(t.attempts)), CountsMatch(t)
  PROVE  SelectedIsCurrent(t) /\ AttemptHashesMatch(t) /\ GeneratedAuditMatches(t)
<1>0. PICK a, n, m : a = t.attempts /\ n = Len(a) /\ m = n - 2
  OBVIOUS
<1>1. /\ n > 2 /\ request.set.type = "spacing" /\ Ballot(request, a, 1, n - 2, "primary")
      /\ ProposedAt(request, a, n - 1) /\ Confidently(request, a[n - 1].confidence)
      /\ a[n].phase = "verification" /\ a[n].index = n
      /\ a[n].hash = <<request, "verification", n, VerificationMessages(a[n - 1].candidate)>>
      /\ a[n].status = "accepted" /\ a[n].codes = <<>> /\ Confidently(request, a[n].confidence)
      /\ a[n].candidate = a[n - 1].candidate
  BY <1>0 DEF MadeByGeneration
<1>2. /\ t.recovery = "generated" /\ t.source \in {"generated", "cache"}
      /\ t.selected = a[n].candidate
      /\ t.generated = [id |-> a[n].candidate, text |-> request.set.text]
      /\ t.codes = <<"LLM_SPACING_REPAIR_APPLIED">>
      /\ t.confidence = Min({a[n - 1].confidence, a[n].confidence})
  BY <1>0 DEF MadeByGeneration
<1>13. m \in Nat /\ n \in Nat /\ 1 <= m /\ n = m + 2 /\ n - 2 = m
  BY <1>0, <1>1
<1>3. /\ a \in Seq(E) /\ DOMAIN a = 1..n /\ n = Len(a)
      /\ 1 \in 1..n /\ m \in 1..n /\ n - 1 \in 1..n /\ n \in 1..n /\ m \in 1..m
      /\ 1 <= m /\ m + 1 = n - 1 /\ Ballot(request, a, 1, m, "primary")
  BY <1>0, <1>1, <1>13
<1>4. /\ VoteOf(SubSeq(a, 1, m)) /\ Last(SubSeq(a, 1, m)) = a[m]
      /\ \A i \in 1..m : AskedAt(request, a, i, "primary")
  BY <1>1, <1>3, BallotIsVote
<1>5. \A i \in 1..n : \/ i \in 1..m /\ a[i].phase = "primary" /\ AskedAt(request, a, i, "primary")
                      \/ i = n - 1 /\ a[i].phase = "generation" /\ a[i].index = i
                      \/ i = n /\ a[i].phase = "verification" /\ a[i].index = i
  <2>1. \A i \in 1..n : i \in 1..m \/ i = n - 1 \/ i = n
    BY <1>13
  <2> QED BY <1>1, <1>4, <2>1 DEF AskedAt, ProposedAt
<1>6. a[m].candidate \in allowlist /\ a[m].codes = LowCodes(a[m].status = "low_confidence")
  <2>1. VoteAt(request, a, m, "primary")
    BY <1>3 DEF Ballot
  <2>2. IsConfident(a[m].confidence) <=> Confidently(request, a[m].confidence)
    BY AllowedIsCurrent
  <2> QED BY <2>1, <2>2, AllowedIsCurrent DEF VoteAt, LowCodes
<1>7. /\ a[n - 1].phase = "generation" /\ a[n - 1].status = "accepted" /\ a[n - 1].codes = <<>>
      /\ a[n - 1].hash = <<request, "generation", n - 1, GenerationMessages(a[m].candidate)>>
      /\ IsConfident(a[n - 1].confidence) /\ IsConfident(a[n].confidence)
      /\ DefectCodes(request.set.text, a[n].candidate) = <<>>
  <2>1. n - 1 - 1 = m
    BY <1>13
  <2> QED BY <1>1, <2>1, AllowedIsCurrent DEF ProposedAt
<1>8. t.generated # NoCandidate /\ t.generated.id = a[n].candidate /\ t.generated.text = request.set.text
  BY <1>1, <1>2
<1>9. SelectedIsCurrent(t)
  BY <1>1, <1>2, <1>7, <1>8 DEF SelectedIsCurrent
<1>10. GeneratedAuditMatches(t)
  <2>1. n >= 3
    BY <1>13
  <2>2. \A i \in 1..(n - 2) : a[i].phase = "primary"
    BY <1>4, <1>13 DEF AskedAt
    <2> QED BY <1>0, <1>1, <1>2, <1>4, <1>6, <1>7, <1>8, <2>1, <2>2 DEF GeneratedAuditMatches
<1>11. AttemptHashesMatch(t)
  <2>. DEFINE I == {i \in DOMAIN a : a[i].phase \in VotePhases}
              votes == Picked(a, I)
              rest == SubSeq(a, Len(votes) + 1, Len(a))
              V == {i \in DOMAIN InPhase(votes, "primary") : InPhase(votes, "primary")[i].candidate # NoCandidate}
              primary == Votes(InPhase(votes, "primary"))
  <2>1. "primary" \in VotePhases /\ "generation" \notin VotePhases /\ "verification" \notin VotePhases
        /\ Turn["primary"] <= Turn["primary"]
    BY DEF VotePhases, Turn
  <2>2. votes = SubSeq(a, 1, m)
    <3>1. \A i \in 1..Len(a) : i \in I <=> 1 <= i /\ i <= m
      BY <1>3, <1>5, <1>13, <2>1
    <3>. HIDE DEF I
    <3>2. 1 \in Nat \ {0} /\ m \in Nat /\ 1 <= m + 1 /\ m <= Len(a)
      BY <1>3, <1>13
    <3> QED BY <1>3, <3>1, <3>2, PickedInterval
  <2>. HIDE DEF I, votes
  <2>3. /\ votes \in Seq(E) /\ Len(votes) = m /\ DOMAIN votes = 1..m /\ votes # <<>>
        /\ \A i \in 1..m : votes[i] = a[i]
    BY <1>3, <1>13, <2>2
  <2>13. Len(votes) + 1 = n - 1 /\ Len(a) = n
    BY <1>3, <1>13, <2>3
  <2>4. /\ Len(rest) = 2 /\ rest # <<>>
        /\ rest[1] = a[n - 1] /\ rest[2] = a[n]
    <3>1. rest = SubSeq(a, n - 1, n)
      BY <2>13
    <3>2. Len(SubSeq(a, n - 1, n)) = 2 /\ SubSeq(a, n - 1, n)[1] = a[n - 1] /\ SubSeq(a, n - 1, n)[2] = a[n]
      BY <1>3
    <3>3. \A s : Len(s) = 2 => s # <<>>
      OBVIOUS
    <3> QED BY <3>1, <3>2, <3>3
  <2>. HIDE DEF rest
  <2>5. InPhase(votes, "primary") = votes
    <3>. DEFINE J == {i \in DOMAIN votes : votes[i].phase = "primary"}
    <3>1. \A i \in 1..Len(votes) : i \in J
      BY <1>4, <2>3 DEF AskedAt
    <3>. HIDE DEF J
    <3>2. Picked(votes, J) = votes
      BY <2>3, <3>1, PickedAll
    <3> QED BY <3>2 DEF InPhase, J
  <2>6. primary # <<>> /\ Last(primary) = a[m]
    <3>1. Len(votes) \in V
      BY <1>3, <1>6, <2>3, <2>5
    <3>2. primary = Picked(votes, V)
      BY <2>5 DEF Votes
    <3>. HIDE DEF V, primary
    <3>3. Picked(votes, V) # <<>> /\ Picked(votes, V)[Len(Picked(votes, V))] = votes[Len(votes)]
      BY <2>3, <3>1, PickedLast
    <3> QED BY <1>3, <2>3, <3>2, <3>3 DEF Last
  <2>. HIDE DEF V, primary
  <2>7. \A i \in DOMAIN a : a[i].index = i
    BY <1>3, <1>5 DEF AskedAt
  <2>8. votes = SubSeq(a, 1, Len(votes))
    BY <2>2, <2>3
  <2>9. \A i, j \in DOMAIN votes : i < j => Turn[votes[i].phase] <= Turn[votes[j].phase]
    <3>1. \A i \in DOMAIN votes : votes[i].phase = "primary"
      BY <1>4, <2>3 DEF AskedAt
    <3> QED BY <2>1, <3>1
  <2>10. ASSUME NEW i \in DOMAIN votes
         PROVE  votes[i].hash = <<request, votes[i].phase, i, ActiveMessages(SubSeq(votes, 1, i - 1), votes[i].phase)>>
    <3>1. i \in 1..m /\ votes[i] = a[i] /\ AskedAt(request, a, i, "primary")
      BY <1>4, <2>3, <2>10
    <3>2. SubSeq(votes, 1, i - 1) = SubSeq(a, 1, i - 1)
      <4>1. i - 1 \in 0..m
        BY <1>3, <3>1
      <4>2. SubSeq(SubSeq(a, 1, m), 1, i - 1) = SubSeq(a, 1, i - 1)
        BY <1>3, <4>1
      <4> QED BY <2>2, <4>2
    <3> QED BY <3>1, <3>2 DEF AskedAt
  <2>11. /\ rest[1].phase = "generation"
         /\ rest[1].hash = <<request, "generation", Len(votes) + 1, GenerationMessages(Last(primary).candidate)>>
    BY <1>3, <1>7, <2>3, <2>4, <2>6
  <2>12. /\ rest[2].phase = "verification"
         /\ rest[2].hash = <<request, "verification", Len(votes) + 2, VerificationMessages(t.generated.id)>>
    BY <1>1, <1>3, <1>8, <2>3, <2>4, SMTT(20)
  <2>14. \A i \in DOMAIN votes :
           votes[i].hash = <<request, votes[i].phase, i, ActiveMessages(SubSeq(votes, 1, i - 1), votes[i].phase)>>
    BY <2>10
  <2>15. rest # <<>> =>
           /\ request.set.type = "spacing"
           /\ primary # <<>> /\ Last(primary).candidate \in allowlist
           /\ rest[1].phase = "generation"
           /\ rest[1].hash = <<request, "generation", Len(votes) + 1, GenerationMessages(Last(primary).candidate)>>
           /\ Len(rest) > 1 =>
                /\ Len(rest) = 2 /\ rest[2].phase = "verification" /\ t.generated # NoCandidate
                /\ rest[2].hash = <<request, "verification", Len(votes) + 2, VerificationMessages(t.generated.id)>>
    BY <1>1, <1>6, <1>8, <2>4, <2>6, <2>11, <2>12
  <2>16. /\ votes = Picked(t.attempts, {i \in DOMAIN t.attempts : t.attempts[i].phase \in VotePhases})
         /\ rest = SubSeq(t.attempts, Len(votes) + 1, Len(t.attempts))
         /\ primary = Votes(InPhase(votes, "primary"))
    BY <1>0 DEF votes, rest, primary, I
  <2>17. /\ \A i \in DOMAIN t.attempts : t.attempts[i].index = i
         /\ votes = SubSeq(t.attempts, 1, Len(votes))
    BY <1>0, <2>7, <2>8
  <2> QED BY <2>9, <2>14, <2>15, <2>16, <2>17 DEF AttemptHashesMatch
<1> QED BY <1>9, <1>10, <1>11

\* Whatever the model made can be used for the same request again.
LEMMA MadeIsUsable ==
  ASSUME NEW t, IsRecord(t), Made(t), t.request = request, t.outcome = "selected",
         NoCandidate \notin allowlist, t.snapshot => t.generated # NoCandidate,
         t.recovery = "generated" => t.generated # NoCandidate,
         IdentityMatches(t), CountsMatch(t)
  PROVE  Usable(t)
<1>. DEFINE u == Materialized(t)
            n == Len(t.attempts)
<1>1. DOMAIN u = RecordFields /\ \A f \in RecordFields \ {"snapshot"} : u[f] = t[f]
  BY DEF Materialized, IsRecord
<1>2. /\ u.request = t.request /\ u.selected = t.selected /\ u.outcome = t.outcome
      /\ u.source = t.source /\ u.confidence = t.confidence /\ u.codes = t.codes
      /\ u.attempts = t.attempts /\ u.recovery = t.recovery /\ u.method = t.method
      /\ u.consensus = t.consensus /\ u.recoveries = t.recoveries /\ u.generated = t.generated
      /\ u.retries = t.retries /\ u.repairs = t.repairs /\ u.id = t.id
  BY <1>1 DEF RecordFields, CountedFields, BaseFields
<1>3. IdentityMatches(u)
  <2>1. Identity(u) = Identity(t)
    <3>1. DOMAIN t = RecordFields
      BY DEF IsRecord
    <3>. HIDE DEF u
    <3>2. \A f \in RecordFields \ {"id"} : (IF f = "snapshot" THEN FALSE ELSE u[f]) = (IF f = "snapshot" THEN FALSE ELSE t[f])
      BY <1>1
    <3> QED BY <1>1, <3>1, <3>2 DEF Identity
  <2> QED BY <1>2, <2>1 DEF IdentityMatches
<1>. HIDE DEF u
<1>4. CountsMatch(u)
  BY <1>2 DEF CountsMatch
<1>5. PICK E : t.attempts \in Seq(E)
  BY DEF Made, IsSequence
<1>6. u.attempts \in Seq(E) /\ Len(u.attempts) > 0 /\ MadeBy(request, t, u.attempts, Len(u.attempts))
  BY <1>2, <1>5 DEF Made
<1>7. CASE MadeByPrimary(request, t, u.attempts, Len(u.attempts))
  <2>1. MadeByPrimary(request, u, u.attempts, Len(u.attempts))
    BY <1>2, <1>7 DEF MadeByPrimary
  <2>2. u.selected \in allowlist /\ AttemptHashesMatch(u) /\ PrimaryAuditMatches(u)
    BY <1>4, <1>6, <2>1, PrimaryMatches
  <2>3. u.recovery = "not_needed" /\ t.generated = NoCandidate
    BY <1>2, <1>7 DEF MadeByPrimary
  <2>4. DecisionMatches(u)
    BY <1>2, <1>3, <2>2, <2>3 DEF DecisionMatches, SelectedIsCurrent
  <2> QED BY <2>3, <2>4 DEF Usable, Materializes, u
<1>8. CASE MadeByRecovery(request, t, u.attempts, Len(u.attempts))
  <2>1. MadeByRecovery(request, u, u.attempts, Len(u.attempts))
    BY <1>2, <1>8 DEF MadeByRecovery, Recovering
  <2>2. u.selected \in allowlist /\ AttemptHashesMatch(u) /\ RecoveryAuditMatches(u)
    BY <1>4, <1>6, <2>1, RecoveryMatches
  <2>3. u.recovery = "recovered" /\ t.generated = NoCandidate
    BY <1>2, <1>8 DEF MadeByRecovery, Recovering
  <2>4. DecisionMatches(u)
    BY <1>2, <1>3, <2>2, <2>3 DEF DecisionMatches, SelectedIsCurrent
  <2> QED BY <2>3, <2>4 DEF Usable, Materializes, u
<1>9. CASE MadeByTiebreak(request, t, u.attempts, Len(u.attempts))
  <2>1. MadeByTiebreak(request, u, u.attempts, Len(u.attempts))
    BY <1>2, <1>9 DEF MadeByTiebreak, Recovering
  <2>2. u.selected \in allowlist /\ AttemptHashesMatch(u) /\ RecoveryAuditMatches(u)
    BY <1>4, <1>6, <2>1, TiebreakMatches
  <2>3. u.recovery = "recovered" /\ t.generated = NoCandidate
    BY <1>2, <1>9 DEF MadeByTiebreak, Recovering
  <2>4. DecisionMatches(u)
    BY <1>2, <1>3, <2>2, <2>3 DEF DecisionMatches, SelectedIsCurrent
  <2> QED BY <2>3, <2>4 DEF Usable, Materializes, u
<1>10. CASE MadeByGeneration(request, t, u.attempts, Len(u.attempts))
  <2>1. MadeByGeneration(request, u, u.attempts, Len(u.attempts))
    BY <1>2, <1>10 DEF MadeByGeneration
  <2>2. u.recovery = "generated" /\ u.generated # NoCandidate
    BY <1>2, <1>10 DEF MadeByGeneration
  <2>3. SelectedIsCurrent(u) /\ AttemptHashesMatch(u) /\ GeneratedAuditMatches(u)
    BY <1>4, <1>6, <2>1, <2>2, GenerationMatches
  <2>4. DecisionMatches(u)
    BY <1>2, <1>3, <2>2, <2>3 DEF DecisionMatches
  <2>5. request.set.type = "spacing" /\ request.set.text = t.generated.text
    <3>1. /\ request.set.type = "spacing"
          /\ u.generated = [id |-> u.attempts[Len(u.attempts)].candidate, text |-> request.set.text]
      BY <1>10, <1>2 DEF MadeByGeneration
    <3> QED BY <1>2, <3>1
  <2> QED BY <2>4, <2>5 DEF Usable, Materializes, u
<1> QED BY <1>6, <1>7, <1>8, <1>9, <1>10 DEF MadeBy

(***************************************************************************)
(* The records a run may leave, and the inductive invariant                *)
(***************************************************************************)

\* A request that a rule decides, and what the rule selects.
Ruled(q)      == ProvenTable(q) # NoCandidate \/ AutoAccepts(q)
RuleChoice(q) == IF ProvenTable(q) # NoCandidate THEN ProvenTable(q).id ELSE CandidatesOf(q)[1].id

Ruling(t) ==
  /\ t.outcome = "selected" /\ t.source = "deterministic" /\ t.selected = RuleChoice(t.request)

Selection(t) ==
  /\ t.outcome = "selected" /\ Made(t) /\ IdentityMatches(t) /\ CountsMatch(t)
  /\ t.snapshot => t.generated # NoCandidate
  /\ t.recovery = "generated" => t.generated # NoCandidate

Review(t) ==
  /\ t.outcome \in {"deferred_review", "review_required"} /\ t.source # "deterministic"
  /\ Unearned(t.request, t.attempts)
  /\ t.outcome = "deferred_review" =>
       Defects(t.request.set, CandidateOf(t.request.set.candidates, t.selected)) = <<>>

Sound(t) ==
  /\ IsRecord(t) /\ t.request \in Requests /\ IsSequence(t.attempts)
  /\ IF Ruled(t.request) THEN Ruling(t) ELSE Selection(t) \/ Review(t)

ModelStages == {"primary", "recovery", "tiebreak", "generation", "verification"}

\* What the audit of a run under way shows.
AuditIsOrderly ==
  /\ IsSequence(attempts)
  /\ stage = "idle" => attempts = <<>>
  /\ stage \in ModelStages => ~Ruled(request)
  /\ stage = "primary" => InPrimary(request, attempts)
  /\ stage = "recovery" => InRecovery(request, attempts)
  /\ stage = "tiebreak" => InTiebreak(request, attempts)
  /\ stage = "generation" => InGeneration(request, attempts)
  /\ stage = "verification" => InVerification(request, attempts)

\* What reports keep, and that no two of them contradict each other.
TrustIsSound ==
  /\ IsSequence(trusted)
  /\ \A i \in 1..Len(trusted) : Sound(trusted[i])
  /\ \A i, j \in 1..Len(trusted) :
       /\ trusted[i].request = trusted[j].request
       /\ trusted[i].outcome = "selected" /\ trusted[j].outcome = "selected"
       => trusted[i].selected = trusted[j].selected

DecisionIsSound == stage = "done" => Sound(record) /\ record.request = request

AdjudicationInv ==
  /\ request \in Requests /\ AuditIsOrderly /\ TrustIsSound /\ DecisionIsSound /\ DecisionsReplay

\* No candidate is no member of an allowlist.
LEMMA NoneIsNotAllowed == ASSUME NEW q \in Requests PROVE NoCandidate \notin Allowed(q)
BY AdjudicationAssumption DEF Allowed

LEMMA ADomainOfSequence ==
  ASSUME NEW s, IsSequence(s) PROVE DOMAIN s = 1..Len(s) /\ Len(s) \in Nat
BY DEF IsSequence

\* A sound record is earned, whether by a rule or by the model.
LEMMA SoundIsEarned ==
  ASSUME Sound(record), record.request = request, request \in Requests, stage = "done"
  PROVE  DecisionsAreEarned
<1>1. CASE Ruled(request)
  BY <1>1 DEF Sound, Ruling, DecisionsAreEarned
<1>2. CASE ~Ruled(request) /\ Selection(record)
  <2>1. Made(record) /\ record.outcome = "selected"
    BY <1>2 DEF Selection
  <2>2. PICK t : t = record
    OBVIOUS
  <2>3. Earned(t.selected)
    BY <2>1, <2>2, MadeIsEarned
  <2> QED BY <2>1, <2>2, <2>3 DEF DecisionsAreEarned
<1>3. CASE ~Ruled(request) /\ Review(record)
  <2>1. /\ record.outcome # "selected" /\ Unearned(request, record.attempts)
        /\ record.outcome = "deferred_review" =>
             Defects(request.set, CandidateOf(request.set.candidates, record.selected)) = <<>>
    BY <1>3 DEF Review
  <2>2. IsSequence(record.attempts)
    BY DEF Sound
  <2>3. ASSUME NEW i \in DOMAIN record.attempts, record.attempts[i].candidate # NoCandidate
        PROVE  ~Earned(record.attempts[i].candidate)
    <3>1. PICK c : c = record.attempts[i].candidate
      OBVIOUS
    <3>2. ~Earned(c)
      BY <2>1, <2>2, <2>3, <3>1, UnearnedStays
    <3> QED BY <3>1, <3>2
  <2> QED BY <2>1, <2>3 DEF DecisionsAreEarned
<1> QED BY <1>1, <1>2, <1>3 DEF Sound

\* What is left to review.
LEMMA DeferredIsSound ==
  ASSUME request \in Requests, ~Ruled(request), NEW audit, IsSequence(audit),
         Unearned(request, audit), NEW codes
  PROVE  /\ Sound(Deferred(codes, audit)) /\ Deferred(codes, audit).request = request
         /\ Deferred(codes, audit).outcome # "selected"
<1>. DEFINE fallback == Fallback(request.set)
            none == [outcome |-> "review_required", source |-> DeferralSource(audit),
                     recovery |-> "review_required", attempts |-> audit,
                     codes |-> WithoutRepeats(Append(codes, "SPACING_REPAIR_SAFE_FALLBACK_UNAVAILABLE"))]
            some == [outcome |-> "deferred_review", source |-> "fallback", selected |-> fallback.id,
                     confidence |-> fallback.score, recovery |-> "deferred_review", attempts |-> audit,
                     codes |-> WithoutRepeats(Append(codes,
                       IF request.set.type = "spacing" THEN "LLM_SPACING_REPAIR_DEFERRED"
                       ELSE "LLM_CANDIDATE_SELECTION_DEFERRED"))]
<1>. DEFINE r == Deferred(codes, audit)
<1>1. EmptyRecord["request"] = request
  BY DEF EmptyRecord
<1>2. CASE fallback = NoCandidate
  <2>1. r = Record(none)
    BY <1>2 DEF Deferred
  <2>2. /\ DOMAIN none = {"outcome", "source", "recovery", "attempts", "codes"}
        /\ none["outcome"] = "review_required" /\ none["source"] = DeferralSource(audit)
        /\ none["attempts"] = audit
    OBVIOUS
  <2>. HIDE DEF none, r
  <2>3. DOMAIN none \subseteq BaseFields \ {"snapshot"}
    BY <2>2 DEF BaseFields
  <2>4. /\ IsRecord(Record(none))
        /\ \A x \in DOMAIN none : Record(none)[x] = none[x]
        /\ \A x \in BaseFields \ DOMAIN none : Record(none)[x] = EmptyRecord[x]
    BY <2>3, RecordFacts
  <2>5. "request" \in BaseFields \ DOMAIN none
    BY <2>2 DEF BaseFields
  <2>6. IsRecord(r) /\ r.request = request
    BY <1>1, <2>1, <2>4, <2>5
  <2>7. r.outcome = "review_required" /\ r.attempts = audit /\ r.source = DeferralSource(audit)
    BY <2>1, <2>2, <2>4
  <2>8. r.source # "deterministic"
    BY <2>7 DEF DeferralSource
  <2>9. Review(r)
    BY <2>6, <2>7, <2>8 DEF Review
  <2> QED BY <2>6, <2>7, <2>9 DEF Sound, r
<1>3. CASE fallback # NoCandidate
  <2>1. r = Record(some)
    BY <1>3 DEF Deferred
  <2>2. /\ DOMAIN some = {"outcome", "source", "selected", "confidence", "recovery", "attempts", "codes"}
        /\ some["outcome"] = "deferred_review" /\ some["source"] = "fallback"
        /\ some["attempts"] = audit /\ some["selected"] = fallback.id
    OBVIOUS
  <2>. HIDE DEF some, r
  <2>3. DOMAIN some \subseteq BaseFields \ {"snapshot"}
    BY <2>2 DEF BaseFields
  <2>4. /\ IsRecord(Record(some))
        /\ \A x \in DOMAIN some : Record(some)[x] = some[x]
        /\ \A x \in BaseFields \ DOMAIN some : Record(some)[x] = EmptyRecord[x]
    BY <2>3, RecordFacts
  <2>5. "request" \in BaseFields \ DOMAIN some
    BY <2>2 DEF BaseFields
  <2>6. IsRecord(r) /\ r.request = request
    BY <1>1, <2>1, <2>4, <2>5
  <2>7. r.outcome = "deferred_review" /\ r.attempts = audit /\ r.source = "fallback" /\ r.selected = fallback.id
    BY <2>1, <2>2, <2>4
  <2>8. Defects(request.set, CandidateOf(request.set.candidates, fallback.id)) = <<>>
    BY <1>3, FallbackHasNoDefects
  <2>. HIDE DEF fallback
  <2>9. Review(r)
    BY <2>6, <2>7, <2>8 DEF Review
  <2> QED BY <2>6, <2>7, <2>9 DEF Sound, r
<1> QED BY <1>2, <1>3

\* A record of fields that make a selection.
LEMMA SelectionIsSound ==
  ASSUME request \in Requests, ~Ruled(request), NEW fields, DOMAIN fields \subseteq BaseFields \ {"snapshot"},
         Made(Record(fields)), Record(fields).outcome = "selected", Record(fields).request = request,
         Record(fields).recovery = "generated" => Record(fields).generated # NoCandidate
  PROVE  Sound(Record(fields))
<1>1. IsRecord(Record(fields)) /\ IdentityMatches(Record(fields)) /\ CountsMatch(Record(fields))
  BY RecordFacts
<1>2. Record(fields).snapshot = FALSE
  <2>1. "snapshot" \in BaseFields \ DOMAIN fields
    BY DEF BaseFields
  <2>2. Record(fields)["snapshot"] = EmptyRecord["snapshot"]
    BY <2>1, RecordFacts
  <2>3. EmptyRecord["snapshot"] = FALSE
    BY DEF EmptyRecord
  <2> QED BY <2>2, <2>3
<1>3. PICK t : t = Record(fields)
  OBVIOUS
<1>4. Selection(t)
  BY <1>1, <1>2, <1>3 DEF Selection
<1>5. IsSequence(t.attempts)
  BY <1>3 DEF Made
<1>6. Sound(t)
  BY <1>1, <1>3, <1>4, <1>5 DEF Sound
<1> QED BY <1>3, <1>6

(***************************************************************************)
(* One more attempt                                                        *)
(***************************************************************************)

\* What an attempt at the end of an audit leaves as it was.
LEMMA AppendedFacts ==
  ASSUME NEW a, IsSequence(a), NEW x
  PROVE  /\ IsSequence(Append(a, x)) /\ Len(a) \in Nat /\ Len(Append(a, x)) = Len(a) + 1
         /\ Append(a, x)[Len(a) + 1] = x
         /\ \A i \in 1..Len(a) : Append(a, x)[i] = a[i]
         /\ \A i \in 1..(Len(a) + 1) : SubSeq(Append(a, x), 1, i - 1) = SubSeq(a, 1, i - 1)
         /\ SubSeq(a, 1, Len(a)) = a
<1>1. PICK E : a \in Seq(E)
  BY DEF IsSequence
<1>. DEFINE F == E \cup {x}
            b == Append(a, x)
<1>2. a \in Seq(F)
  BY <1>1, SeqMonotone
<1>. HIDE DEF F
<1>3. x \in F
  BY DEF F
<1>4. /\ b \in Seq(F) /\ Len(a) \in Nat /\ Len(b) = Len(a) + 1 /\ b[Len(a) + 1] = x
      /\ \A i \in 1..Len(a) : b[i] = a[i]
  BY <1>2, <1>3
<1>5. SubSeq(a, 1, Len(a)) = a
  BY <1>2
<1>6. ASSUME NEW i \in 1..(Len(a) + 1) PROVE SubSeq(b, 1, i - 1) = SubSeq(a, 1, i - 1)
  <2>. HIDE DEF b
  <2>1. i - 1 \in Nat /\ i - 1 <= Len(a) /\ i - 1 <= Len(b)
    BY <1>4
  <2>. DEFINE u == SubSeq(b, 1, i - 1)
              v == SubSeq(a, 1, i - 1)
  <2>2. /\ u \in Seq(F) /\ v \in Seq(F) /\ Len(u) = i - 1 /\ Len(v) = i - 1
        /\ \A k \in 1..(i - 1) : u[k] = b[k] /\ v[k] = a[k]
    BY <1>2, <1>4, <2>1
  <2>3. \A k \in 1..(i - 1) : k \in 1..Len(a)
    BY <1>4, <2>1
  <2>. HIDE DEF u, v
  <2>4. u = v
    BY <1>4, <2>2, <2>3, SequencesEqual
  <2> QED BY <2>4 DEF u, v
<1> QED BY <1>4, <1>5, <1>6 DEF IsSequence

\* The attempts before it stay what they were.
LEMMA AttemptsKeep ==
  ASSUME NEW a, IsSequence(a), NEW x, NEW q, NEW p, NEW lo \in Nat \ {0}, NEW hi \in 0..Len(a)
  PROVE  /\ Tries(q, a, lo, hi, p) => Tries(q, Append(a, x), lo, hi, p)
         /\ lo <= hi /\ Ballot(q, a, lo, hi, p) => Ballot(q, Append(a, x), lo, hi, p)
         /\ 1 <= hi => Append(a, x)[hi] = a[hi]
<1>. DEFINE b == Append(a, x)
<1>1. /\ Len(a) \in Nat /\ \A i \in 1..Len(a) : b[i] = a[i] /\ SubSeq(b, 1, i - 1) = SubSeq(a, 1, i - 1)
  <2>1. Len(a) \in Nat
    BY AppendedFacts
  <2>2. \A i \in 1..Len(a) : i \in 1..(Len(a) + 1)
    BY <2>1
  <2> QED BY <2>1, <2>2, AppendedFacts
<1>. HIDE DEF b
<1>2. ASSUME NEW i \in 1..Len(a) PROVE (Try(q, a, i, p) => Try(q, b, i, p)) /\ (VoteAt(q, a, i, p) => VoteAt(q, b, i, p))
  BY <1>1 DEF Try, VoteAt, AskedAt
<1>3. ASSUME NEW h \in 0..Len(a), Tries(q, a, lo, h, p) PROVE Tries(q, b, lo, h, p)
  <2>1. \A i \in lo..h : i \in 1..Len(a)
    BY <1>1
  <2> QED BY <1>2, <1>3, <2>1 DEF Tries
<1>4. ASSUME lo <= hi, Ballot(q, a, lo, hi, p) PROVE Ballot(q, b, lo, hi, p)
  <2>1. hi - 1 \in 0..Len(a) /\ hi \in 1..Len(a)
    BY <1>1, <1>4
  <2>2. Tries(q, b, lo, hi - 1, p)
    BY <1>3, <1>4, <2>1 DEF Ballot
  <2>3. VoteAt(q, b, hi, p)
    BY <1>2, <1>4, <2>1 DEF Ballot
  <2> QED BY <2>2, <2>3 DEF Ballot
<1>5. ASSUME 1 <= hi PROVE b[hi] = a[hi]
  BY <1>1, <1>5
<1>6. Tries(q, a, lo, hi, p) => Tries(q, b, lo, hi, p)
  BY <1>3
<1> QED BY <1>4, <1>5, <1>6 DEF b

\* An answer outside the allowlist, and a vote, as the next attempt.
LEMMA NextTry ==
  ASSUME NEW a, IsSequence(a), NEW p, NEW count, NEW lo \in Nat \ {0}, lo <= Len(a) + 1,
         Tries(request, a, lo, Len(a), p),
         NEW x, x = Attempt(p, Len(a) + 1, ActiveMessages(a, p), NoCandidate, 1,
                            "candidate_unknown", <<"LLM_CANDIDATE_UNKNOWN">>, count)
  PROVE  Tries(request, Append(a, x), lo, Len(Append(a, x)), p)
<1>. DEFINE b == Append(a, x)
            n == Len(a)
<1>1. /\ n \in Nat /\ Len(b) = n + 1 /\ b[n + 1] = x /\ SubSeq(b, 1, n + 1 - 1) = a
  <2>1. n \in Nat /\ Len(b) = n + 1 /\ b[n + 1] = x /\ n + 1 \in 1..(n + 1) /\ n + 1 - 1 = n
    BY AppendedFacts
  <2>2. SubSeq(b, 1, n + 1 - 1) = SubSeq(a, 1, n + 1 - 1) /\ SubSeq(a, 1, n) = a
    BY <2>1, AppendedFacts
  <2> QED BY <2>1, <2>2
<1>2. n \in 0..Len(a)
  BY <1>1
<1>3. Tries(request, b, lo, n, p)
  BY <1>2, AttemptsKeep
<1>. HIDE DEF b
<1>4. Try(request, b, n + 1, p)
  <2>1. /\ x.phase = p /\ x.index = n + 1 /\ x.hash = <<request, p, n + 1, ActiveMessages(a, p)>>
        /\ x.status = "candidate_unknown" /\ x.candidate = NoCandidate
    BY DEF Attempt
  <2>2. AskedAt(request, b, n + 1, p)
    <3>1. PICK m : m = n + 1
      OBVIOUS
    <3>2. b[m] = x /\ SubSeq(b, 1, m - 1) = a
      BY <1>1, <3>1
    <3>3. AskedAt(request, b, m, p)
      BY <2>1, <3>1, <3>2 DEF AskedAt
    <3> QED BY <3>1, <3>3
  <2> QED BY <1>1, <2>1, <2>2 DEF Try
<1>5. \A i \in lo..(n + 1) : i \in lo..n \/ i = n + 1
  BY <1>1
<1> QED BY <1>1, <1>3, <1>4, <1>5 DEF Tries, b

\* The fields of a vote that follows the attempts a.
FollowsAsVote(a, p, id, confidence, x) ==
  /\ x.phase = p /\ x.index = Len(a) + 1 /\ x.hash = <<request, p, Len(a) + 1, ActiveMessages(a, p)>>
  /\ x.candidate = id /\ x.confidence = confidence
  /\ x.status = IF ~IsConfident(confidence) THEN "low_confidence" ELSE "accepted"
  /\ x.codes = LowCodes(~IsConfident(confidence))

\* A vote for a candidate ends a ballot.
LEMMA NextVote ==
  ASSUME NEW a, IsSequence(a), NEW p, NEW lo \in Nat \ {0}, lo <= Len(a) + 1,
         Tries(request, a, lo, Len(a), p), NEW id \in allowlist, NEW confidence,
         NEW x, FollowsAsVote(a, p, id, confidence, x)
  PROVE  /\ Ballot(request, Append(a, x), lo, Len(Append(a, x)), p)
         /\ Append(a, x)[Len(Append(a, x))] = x /\ Len(Append(a, x)) \in Nat \ {0}
<1>. DEFINE b == Append(a, x)
            n == Len(a)
<1>1. /\ n \in Nat /\ Len(b) = n + 1 /\ b[n + 1] = x /\ SubSeq(b, 1, n + 1 - 1) = a
  <2>1. n \in Nat /\ Len(b) = n + 1 /\ b[n + 1] = x /\ n + 1 \in 1..(n + 1) /\ n + 1 - 1 = n
    BY AppendedFacts
  <2>2. SubSeq(b, 1, n + 1 - 1) = SubSeq(a, 1, n + 1 - 1) /\ SubSeq(a, 1, n) = a
    BY <2>1, AppendedFacts
  <2> QED BY <2>1, <2>2
<1>2. n \in 0..Len(a)
  BY <1>1
<1>3. Tries(request, b, lo, n, p)
  BY <1>2, AttemptsKeep
<1>. HIDE DEF b
<1>4. VoteAt(request, b, n + 1, p)
  <2>1. n + 1 - 1 = n
    BY <1>1
  <2>2. /\ x.phase = p /\ x.index = n + 1 /\ x.hash = <<request, p, n + 1, ActiveMessages(a, p)>>
        /\ x.candidate = id /\ x.confidence = confidence
        /\ x.status = IF ~IsConfident(confidence) THEN "low_confidence" ELSE "accepted"
        /\ x.codes = LowCodes(~IsConfident(confidence))
    BY DEF FollowsAsVote
  <2>3. AskedAt(request, b, n + 1, p)
    <3>1. PICK m : m = n + 1
      OBVIOUS
    <3>2. b[m] = x /\ SubSeq(b, 1, m - 1) = a
      BY <1>1, <3>1
    <3>3. AskedAt(request, b, m, p)
      BY <2>2, <3>1, <3>2 DEF AskedAt
    <3> QED BY <3>1, <3>3
  <2>4. IsConfident(confidence) <=> Confidently(request, confidence)
    BY AllowedIsCurrent
  <2> QED BY <1>1, <2>2, <2>3, <2>4, AllowedIsCurrent DEF VoteAt, LowCodes
<1>5. n + 1 - 1 = n
  BY <1>1
<1> QED BY <1>1, <1>3, <1>4, <1>5 DEF Ballot, b

(***************************************************************************)
(* What each phase makes of its answer                                     *)
(***************************************************************************)

Settles == stage' = "done" /\ Sound(record') /\ record'.request = request

\* A decision for review after an audit that earns nothing.
LEMMA DeferralSettles ==
  ASSUME request \in Requests, ~Ruled(request), NEW b, IsSequence(b), Unearned(request, b), NEW codes,
         Decided(Deferred(codes, b))
  PROVE  Settles
<1>. DEFINE r == Deferred(codes, b)
<1>1. stage' = "done" /\ record' = r
  BY DEF Decided
<1>2. Sound(r) /\ r.request = request
  BY DeferredIsSound
<1>. HIDE DEF r
<1> QED BY <1>1, <1>2 DEF Settles

\* After the primary vote: a selection, a generation, another vote or a deferral.
LEMMA AfterPrimaryFacts ==
  ASSUME request \in Requests, ~Ruled(request), NEW b, IsSequence(b), NEW n, n = Len(b), n \in Nat \ {0},
         Ballot(request, b, 1, n, "primary"), NEW id, NEW confidence,
         b[n].candidate = id, b[n].confidence = confidence, AfterPrimary(b, id, confidence)
  PROVE  \/ stage' = "generation" /\ UNCHANGED record /\ InGeneration(request, b)
         \/ stage' = "recovery" /\ UNCHANGED record /\ InRecovery(request, b)
         \/ Settles
<1>0. IsConfident(confidence) <=> Confidently(request, confidence)
  BY AllowedIsCurrent
<1>1. CASE NeedsRepair(id, confidence)
  <2>1. stage' = "generation" /\ UNCHANGED record /\ request.set.type = "spacing"
    BY <1>1 DEF AfterPrimary, NeedsRepair
  <2>2. InGeneration(request, b)
    BY <2>1 DEF InGeneration
  <2> QED BY <2>1, <2>2
<1>2. CASE ~NeedsRepair(id, confidence) /\ IsConfident(confidence)
  <2>. DEFINE fields == [selected |-> id, confidence |-> confidence, attempts |-> b]
  <2>1. stage' = "done" /\ record' = Record(fields)
    BY <1>2 DEF AfterPrimary, Decided
  <2>2. /\ DOMAIN fields = {"selected", "confidence", "attempts"}
        /\ fields["selected"] = id /\ fields["confidence"] = confidence /\ fields["attempts"] = b
    OBVIOUS
  <2>. HIDE DEF fields
  <2>3. DOMAIN fields \subseteq BaseFields \ {"snapshot"}
    BY <2>2 DEF BaseFields
  <2>4. PICK t : t = Record(fields)
    OBVIOUS
  <2>5. /\ \A x \in DOMAIN fields : t[x] = fields[x]
        /\ \A x \in BaseFields \ DOMAIN fields : t[x] = EmptyRecord[x]
    BY <2>3, <2>4, RecordFacts
  <2>6. t.selected = id /\ t.confidence = confidence /\ t.attempts = b
    BY <2>2, <2>5
  <2>7. /\ {"request", "outcome", "source", "codes", "recovery", "method", "recoveries", "generated"}
             \subseteq BaseFields \ DOMAIN fields
    BY <2>2 DEF BaseFields
  <2>8. /\ t.request = request /\ t.outcome = "selected" /\ t.source = "model" /\ t.codes = <<>>
        /\ t.recovery = "not_needed" /\ t.method = "none" /\ t.recoveries = 0 /\ t.generated = NoCandidate
    BY <2>5, <2>7 DEF EmptyRecord
  <2>9. Defects(request.set, CandidateOf(CandidatesOf(request), id)) = <<>>
    BY <1>2, AllowedIsCurrent DEF NeedsRepair, Defects
  <2>10. MadeByPrimary(request, t, b, n)
    BY <1>0, <1>2, <2>6, <2>8, <2>9 DEF MadeByPrimary
  <2>11. Made(t)
    BY <2>6, <2>8, <2>10 DEF Made, MadeBy
  <2>12. Sound(t)
    BY <2>3, <2>4, <2>8, <2>11, SelectionIsSound
  <2> QED BY <2>1, <2>4, <2>8, <2>12 DEF Settles
<1>3. CASE ~NeedsRepair(id, confidence) /\ ~IsConfident(confidence) /\ request.policy.recovery_attempts < 1
  <2>1. Decided(Deferred(<<"LLM_CONFIDENCE_TOO_LOW">>, b))
    BY <1>3 DEF AfterPrimary
  <2>2. Unearned(request, b)
    BY <1>0, <1>3 DEF Unearned
  <2> QED BY <2>1, <2>2, DeferralSettles
<1>4. CASE ~NeedsRepair(id, confidence) /\ ~IsConfident(confidence) /\ ~(request.policy.recovery_attempts < 1)
  <2>1. stage' = "recovery" /\ UNCHANGED record
    BY <1>4 DEF AfterPrimary
  <2>2. LowPrimary(request, b, n)
    BY <1>0, <1>4 DEF LowPrimary
  <2>3. Tries(request, b, n + 1, Len(b), "recovery")
    BY DEF Tries
  <2>4. n \in 1..Len(b)
    OBVIOUS
  <2> QED BY <2>1, <2>2, <2>3, <2>4 DEF InRecovery
<1> QED BY <1>1, <1>2, <1>3, <1>4

\* Two votes for a candidate.
LEMMA RecoveredFacts ==
  ASSUME request \in Requests, ~Ruled(request), NEW b, IsSequence(b), NEW n, n = Len(b), n \in Nat \ {0},
         NEW id, NEW confidence, NEW method, NEW recoveries,
         b[n].candidate = id, b[n].confidence = confidence, Decided(Recovered(b, id, confidence, method, recoveries)),
         \A t : /\ Recovering(t, b, n) /\ t.method = method /\ t.recoveries = recoveries
                => MadeByRecovery(request, t, b, n) \/ MadeByTiebreak(request, t, b, n)
  PROVE  Settles
<1>. DEFINE fields == [source |-> "recovered", selected |-> id, confidence |-> confidence, attempts |-> b,
                       codes |-> <<"LLM_LOW_CONFIDENCE_RECOVERED">>, recovery |-> "recovered",
                       method |-> method, consensus |-> id, recoveries |-> recoveries]
<1>1. stage' = "done" /\ record' = Record(fields)
  BY DEF Decided, Recovered
<1>2. /\ DOMAIN fields = {"source", "selected", "confidence", "attempts", "codes", "recovery", "method",
                          "consensus", "recoveries"}
      /\ fields["source"] = "recovered" /\ fields["selected"] = id /\ fields["confidence"] = confidence
      /\ fields["attempts"] = b /\ fields["codes"] = <<"LLM_LOW_CONFIDENCE_RECOVERED">>
      /\ fields["recovery"] = "recovered" /\ fields["method"] = method /\ fields["consensus"] = id
      /\ fields["recoveries"] = recoveries
  OBVIOUS
<1>. HIDE DEF fields
<1>3. DOMAIN fields \subseteq BaseFields \ {"snapshot"}
  BY <1>2 DEF BaseFields
<1>4. PICK t : t = Record(fields)
  OBVIOUS
<1>5. /\ \A x \in DOMAIN fields : t[x] = fields[x]
      /\ \A x \in BaseFields \ DOMAIN fields : t[x] = EmptyRecord[x]
  BY <1>3, <1>4, RecordFacts
<1>6. /\ t.source = "recovered" /\ t.selected = id /\ t.confidence = confidence /\ t.attempts = b
      /\ t.codes = <<"LLM_LOW_CONFIDENCE_RECOVERED">> /\ t.recovery = "recovered"
      /\ t.method = method /\ t.consensus = id /\ t.recoveries = recoveries
  BY <1>2, <1>5
<1>7. {"request", "outcome", "generated"} \subseteq BaseFields \ DOMAIN fields
  BY <1>2 DEF BaseFields
<1>8. t.request = request /\ t.outcome = "selected" /\ t.generated = NoCandidate
  BY <1>5, <1>7 DEF EmptyRecord
<1>9. Recovering(t, b, n)
  BY <1>6, <1>8 DEF Recovering
<1>10. Made(t)
  BY <1>6, <1>8, <1>9 DEF Made, MadeBy
<1>11. t.recovery # "generated"
  BY <1>6
<1>12. Sound(t)
  BY <1>3, <1>4, <1>8, <1>10, <1>11, SelectionIsSound
<1> QED BY <1>1, <1>4, <1>8, <1>12 DEF Settles

\* After the recovery vote: agreement settles, disagreement asks a third time.
LEMMA AfterRecoveryFacts ==
  ASSUME request \in Requests, ~Ruled(request), NEW b, IsSequence(b), NEW n, n = Len(b), n \in Nat \ {0},
         NEW j \in 1..(n - 1), LowPrimary(request, b, j), Ballot(request, b, j + 1, n, "recovery"),
         NEW id, NEW confidence, b[n].candidate = id, b[n].confidence = confidence,
         AfterRecovery(b, id, confidence)
  PROVE  \/ stage' = "tiebreak" /\ UNCHANGED record /\ InTiebreak(request, b)
         \/ Settles
<1>0. IsConfident(confidence) <=> Confidently(request, confidence)
  BY AllowedIsCurrent
<1>1. PICK E : b \in Seq(E)
  BY DEF IsSequence
<1>2. /\ 1 \in 1..Len(b) /\ j \in 1..Len(b) /\ n \in 1..Len(b) /\ j + 1 \in 1..Len(b) /\ 1 <= j /\ j + 1 <= n
  OBVIOUS
<1>3. /\ Ballot(request, b, 1, j, "primary") /\ ~Confidently(request, b[j].confidence)
      /\ b[j].candidate \in Allowed(request) /\ b[n].candidate \in Allowed(request)
      /\ b[n].phase = "recovery"
  BY DEF LowPrimary, Ballot, VoteAt, AskedAt
<1>4. VoteIn(b, "primary") = b[j]
  <2>1. Last(SubSeq(b, 1, j)) = b[j] /\ \A i \in 1..j : AskedAt(request, b, i, "primary")
    BY <1>1, <1>2, <1>3, BallotIsVote
  <2>2. \A i \in (j + 1)..n : AskedAt(request, b, i, "recovery")
    BY <1>1, <1>2, BallotIsVote
  <2>3. \A i \in 1..Len(b) : b[i].phase = "primary" <=> 1 <= i /\ i <= j
    <3>1. \A i \in 1..Len(b) : i \in 1..j \/ i \in (j + 1)..n
      BY <1>2
    <3>2. \A i \in 1..Len(b) : (i \in 1..j /\ b[i].phase = "primary") \/ (i \in (j + 1)..n /\ b[i].phase = "recovery")
      BY <2>1, <2>2, <3>1 DEF AskedAt
    <3> QED BY <1>2, <3>2
  <2>4. 1 \in Nat \ {0} /\ j \in Nat /\ 1 <= j + 1 /\ j <= Len(b)
    BY <1>2
  <2>5. InPhase(b, "primary") = SubSeq(b, 1, j)
    BY <1>1, <2>3, <2>4, PhaseIsStretch
  <2> QED BY <2>1, <2>5 DEF VoteIn
<1>5. CASE ~IsConfident(confidence)
  <2>1. Decided(Deferred(<<"LLM_CONFIDENCE_RECOVERY_EXHAUSTED">>, b))
    BY <1>5 DEF AfterRecovery
  <2>2. Unearned(request, b)
    BY <1>0, <1>5 DEF Unearned
  <2> QED BY <2>1, <2>2, DeferralSettles
<1>6. CASE IsConfident(confidence) /\ id = b[j].candidate
  <2>1. Decided(Recovered(b, id, confidence, "same_candidate", 1))
    BY <1>4, <1>6 DEF AfterRecovery
  <2>2. \A t : Recovering(t, b, n) /\ t.method = "same_candidate" /\ t.recoveries = 1
               => MadeByRecovery(request, t, b, n)
    BY <1>0, <1>6 DEF MadeByRecovery
  <2>3. PICK method, recoveries : method = "same_candidate" /\ recoveries = 1
    OBVIOUS
  <2>4. Decided(Recovered(b, id, confidence, method, recoveries))
    BY <2>1, <2>3
  <2>5. \A t : /\ Recovering(t, b, n) /\ t.method = method /\ t.recoveries = recoveries
                => MadeByRecovery(request, t, b, n) \/ MadeByTiebreak(request, t, b, n)
    BY <2>2, <2>3
  <2> QED BY <2>4, <2>5, RecoveredFacts
<1>7. CASE IsConfident(confidence) /\ id # b[j].candidate /\ request.policy.recovery_attempts < 2
  <2>1. Decided(Deferred(<<"LLM_CONSENSUS_NOT_REACHED">>, b))
    BY <1>4, <1>7 DEF AfterRecovery
  <2>2. ASSUME NEW i \in 1..(n - 1) PROVE b[i].candidate # b[n].candidate
    <3>1. i \in 1..(j - 1) \/ i = j \/ i \in (j + 1)..(n - 1)
      BY <1>2
    <3>2. i \in 1..(j - 1) \/ i \in (j + 1)..(n - 1) => b[i].candidate = NoCandidate
      BY <1>3 DEF Ballot, Tries, Try
    <3> QED BY <1>3, <1>7, <3>1, <3>2, NoneIsNotAllowed
  <2>3. Unearned(request, b)
    BY <1>3, <2>2 DEF Unearned
  <2> QED BY <2>1, <2>3, DeferralSettles
<1>8. CASE IsConfident(confidence) /\ id # b[j].candidate /\ ~(request.policy.recovery_attempts < 2)
  <2>1. stage' = "tiebreak" /\ UNCHANGED record
    BY <1>4, <1>8 DEF AfterRecovery
  <2>2. Disagreeing(request, b, j, n)
    BY <1>0, <1>8 DEF Disagreeing
  <2>3. Tries(request, b, n + 1, Len(b), "tiebreak")
    BY DEF Tries
  <2>4. j < n
    BY <1>2
  <2> QED BY <1>2, <2>1, <2>2, <2>3, <2>4 DEF InTiebreak
<1> QED BY <1>5, <1>6, <1>7, <1>8

\* After the tiebreak: two of three, or review.
LEMMA AfterTiebreakFacts ==
  ASSUME request \in Requests, ~Ruled(request), NEW b, IsSequence(b), NEW n, n = Len(b), n \in Nat \ {0},
         NEW j \in 1..(n - 1), NEW k \in 1..(n - 1), j < k, Disagreeing(request, b, j, k),
         Ballot(request, b, k + 1, n, "tiebreak"),
         NEW id, NEW confidence, b[n].candidate = id, b[n].confidence = confidence,
         AfterTiebreak(b, id, confidence)
  PROVE  Settles
<1>0. IsConfident(confidence) <=> Confidently(request, confidence)
  BY AllowedIsCurrent
<1>1. PICK E : b \in Seq(E)
  BY DEF IsSequence
<1>2. /\ 1 \in 1..Len(b) /\ j \in 1..Len(b) /\ n \in 1..Len(b) /\ k \in 1..Len(b)
      /\ j + 1 \in 1..Len(b) /\ k + 1 \in 1..Len(b)
      /\ 1 <= j /\ j + 1 <= k /\ k + 1 <= n
  OBVIOUS
<1>3. /\ Ballot(request, b, 1, j, "primary") /\ Ballot(request, b, j + 1, k, "recovery")
      /\ b[n].candidate \in Allowed(request) /\ b[n].phase = "tiebreak"
  BY DEF Disagreeing, LowPrimary, Ballot, VoteAt, AskedAt
<1>4. /\ Last(SubSeq(b, 1, j)) = b[j] /\ \A i \in 1..j : AskedAt(request, b, i, "primary")
  BY <1>1, <1>2, <1>3, BallotIsVote
<1>5. /\ Last(SubSeq(b, j + 1, k)) = b[k] /\ \A i \in (j + 1)..k : AskedAt(request, b, i, "recovery")
  BY <1>1, <1>2, <1>3, BallotIsVote
<1>6. \A i \in (k + 1)..n : AskedAt(request, b, i, "tiebreak")
  BY <1>1, <1>2, BallotIsVote
<1>7. \A i \in 1..Len(b) : \/ i \in 1..j /\ b[i].phase = "primary"
                           \/ i \in (j + 1)..k /\ b[i].phase = "recovery"
                           \/ i \in (k + 1)..n /\ b[i].phase = "tiebreak"
  <2>1. \A i \in 1..Len(b) : i \in 1..j \/ i \in (j + 1)..k \/ i \in (k + 1)..n
    BY <1>2
  <2> QED BY <1>4, <1>5, <1>6, <2>1 DEF AskedAt
<1>8. VoteIn(b, "primary") = b[j]
  <2>1. \A i \in 1..Len(b) : b[i].phase = "primary" <=> 1 <= i /\ i <= j
    BY <1>2, <1>7
  <2>2. 1 \in Nat \ {0} /\ j \in Nat /\ 1 <= j + 1 /\ j <= Len(b)
    BY <1>2
  <2>3. InPhase(b, "primary") = SubSeq(b, 1, j)
    BY <1>1, <2>1, <2>2, PhaseIsStretch
  <2> QED BY <1>4, <2>3 DEF VoteIn
<1>9. VoteIn(b, "recovery") = b[k]
  <2>1. \A i \in 1..Len(b) : b[i].phase = "recovery" <=> j + 1 <= i /\ i <= k
    BY <1>2, <1>7
  <2>2. j + 1 \in Nat \ {0} /\ k \in Nat /\ j + 1 <= k + 1 /\ k <= Len(b)
    BY <1>2
  <2>3. InPhase(b, "recovery") = SubSeq(b, j + 1, k)
    BY <1>1, <2>1, <2>2, PhaseIsStretch
  <2> QED BY <1>5, <2>3 DEF VoteIn
<1>10. CASE IsConfident(confidence) /\ id \in {b[j].candidate, b[k].candidate}
  <2>1. PICK method, recoveries : method = "two_of_three" /\ recoveries = 2
    OBVIOUS
  <2>2. Decided(Recovered(b, id, confidence, method, recoveries))
    BY <1>8, <1>9, <1>10, <2>1 DEF AfterTiebreak
  <2>3. \A t : /\ Recovering(t, b, n) /\ t.method = method /\ t.recoveries = recoveries
                => MadeByRecovery(request, t, b, n) \/ MadeByTiebreak(request, t, b, n)
    BY <1>0, <1>10, <2>1 DEF MadeByTiebreak
  <2> QED BY <2>2, <2>3, RecoveredFacts
<1>11. CASE ~(IsConfident(confidence) /\ id \in {b[j].candidate, b[k].candidate})
  <2>1. Decided(Deferred(<<"LLM_CONSENSUS_NOT_REACHED">>, b))
    BY <1>8, <1>9, <1>11 DEF AfterTiebreak
  <2>2. ASSUME id \notin {b[j].candidate, b[k].candidate}, NEW i \in 1..(n - 1)
        PROVE  b[i].candidate # b[n].candidate
    <3>1. i \in 1..(j - 1) \/ i = j \/ i \in (j + 1)..(k - 1) \/ i = k \/ i \in (k + 1)..(n - 1)
      BY <1>2
    <3>2. i \in 1..(j - 1) \/ i \in (j + 1)..(k - 1) \/ i \in (k + 1)..(n - 1) => b[i].candidate = NoCandidate
      BY <1>3 DEF Ballot, Tries, Try
    <3> QED BY <1>3, <2>2, <3>1, <3>2, NoneIsNotAllowed
  <2>3. Unearned(request, b)
    BY <1>0, <1>3, <1>11, <2>2 DEF Unearned
  <2> QED BY <2>1, <2>3, DeferralSettles
<1> QED BY <1>10, <1>11

(***************************************************************************)
(* The model calls, action by action                                       *)
(***************************************************************************)

\* A call that ends the audit with an attempt that names nothing.
LEMMA NamelessIsUnearned ==
  ASSUME NEW a, IsSequence(a), NEW x, x.candidate = NoCandidate
  PROVE  Unearned(request, Append(a, x))
BY AppendedFacts DEF Unearned

Onward ==
  \/ Settles
  \/ stage' = "raised" /\ UNCHANGED <<attempts, record>>
  \/ /\ stage' \in ModelStages
     /\ stage' = "primary" => InPrimary(request, attempts')
     /\ stage' = "recovery" => InRecovery(request, attempts')
     /\ stage' = "tiebreak" => InTiebreak(request, attempts')
     /\ stage' = "generation" => InGeneration(request, attempts')
     /\ stage' = "verification" => InVerification(request, attempts')

\* A provider that fails leaves the set to review.
LEMMA FailureFacts ==
  ASSUME request \in Requests, ~Ruled(request), IsSequence(attempts), NEW voting, NEW messages,
         ProviderFails(voting, messages)
  PROVE  Settles /\ IsSequence(attempts')
<1>1. PICK count \in Counts :
        LET failed == Attempt(voting, NextIndex, messages, NoCandidate, 0, "provider_rejected",
                              <<"LLM_PROVIDER_FAILURE">>, count)
        IN  /\ Audited(failed)
            /\ Decided(Deferred(<<"LLM_PROVIDER_FAILURE">>, Append(attempts, failed)))
  BY DEF ProviderFails
<1>. DEFINE failed == Attempt(voting, NextIndex, messages, NoCandidate, 0, "provider_rejected",
                              <<"LLM_PROVIDER_FAILURE">>, count)
<1>2. failed.candidate = NoCandidate
  BY DEF Attempt
<1>. HIDE DEF failed
<1>3. attempts' = Append(attempts, failed) /\ Decided(Deferred(<<"LLM_PROVIDER_FAILURE">>, Append(attempts, failed)))
  BY <1>1 DEF Audited, failed
<1>4. IsSequence(Append(attempts, failed)) /\ Unearned(request, Append(attempts, failed))
  BY <1>2, AppendedFacts, NamelessIsUnearned
<1>5. Settles
  BY <1>3, <1>4, DeferralSettles
<1> QED BY <1>3, <1>4, <1>5

\* The stretch of tries a phase of votes is in.
VotingIn(q, a, p, lo) ==
  /\ lo \in Nat \ {0} /\ lo <= Len(a) + 1 /\ Tries(q, a, lo, Len(a), p)
  /\ \/ p = "primary" /\ lo = 1
     \/ p = "recovery" /\ lo > 1 /\ LowPrimary(q, a, lo - 1)
     \/ p = "tiebreak" /\ \E j \in 1..(lo - 2) : Disagreeing(q, a, j, lo - 1)

\* A run that votes has its own stretch at the end of the audit.
LEMMA VotePhase ==
  ASSUME AuditIsOrderly, stage \in VotePhases
  PROVE  \E lo : VotingIn(request, attempts, stage, lo)
<1>1. IsSequence(attempts) /\ Len(attempts) \in Nat
  BY AppendedFacts DEF AuditIsOrderly
<1>2. CASE stage = "primary"
  <2>1. VotingIn(request, attempts, stage, 1)
    BY <1>1, <1>2 DEF AuditIsOrderly, InPrimary, VotingIn
  <2> QED BY <2>1
<1>3. CASE stage = "recovery"
  <2>1. PICK j \in 1..Len(attempts) :
          LowPrimary(request, attempts, j) /\ Tries(request, attempts, j + 1, Len(attempts), "recovery")
    BY <1>3 DEF AuditIsOrderly, InRecovery
  <2>2. PICK lo : lo = j + 1
    OBVIOUS
  <2>3. lo \in Nat \ {0} /\ lo > 1 /\ lo <= Len(attempts) + 1 /\ lo - 1 = j
    BY <1>1, <2>2
  <2>4. VotingIn(request, attempts, stage, lo)
    BY <1>3, <2>1, <2>2, <2>3 DEF VotingIn
  <2> QED BY <2>4
<1>4. CASE stage = "tiebreak"
  <2>1. PICK j \in 1..Len(attempts), k \in 1..Len(attempts) :
          /\ j < k /\ Disagreeing(request, attempts, j, k)
          /\ Tries(request, attempts, k + 1, Len(attempts), "tiebreak")
    BY <1>4 DEF AuditIsOrderly, InTiebreak
  <2>2. PICK lo : lo = k + 1
    OBVIOUS
  <2>3. lo \in Nat \ {0} /\ lo > 1 /\ lo <= Len(attempts) + 1 /\ lo - 1 = k /\ j \in 1..(lo - 2)
    BY <1>1, <2>1, <2>2
  <2>4. VotingIn(request, attempts, stage, lo)
    BY <1>4, <2>1, <2>2, <2>3 DEF VotingIn
  <2> QED BY <2>4
<1>5. VotePhases = {"primary", "recovery", "tiebreak"}
  BY DEF VotePhases, Turn
<1> QED BY <1>2, <1>3, <1>4, <1>5

\* What a phase has behind it stays behind it.
LEMMA BallotsKeep ==
  ASSUME NEW q, NEW a, IsSequence(a), NEW x, NEW p, NEW lo, VotingIn(q, a, p, lo)
  PROVE  \/ p = "primary" /\ lo = 1
         \/ p = "recovery" /\ lo > 1 /\ lo - 1 \in 1..Len(a) /\ LowPrimary(q, Append(a, x), lo - 1)
         \/ /\ p = "tiebreak" /\ lo > 1 /\ lo - 1 \in 1..Len(a)
            /\ \E j \in 1..(lo - 2) : Disagreeing(q, Append(a, x), j, lo - 1)
<1>1. Len(a) \in Nat /\ lo \in Nat \ {0} /\ lo <= Len(a) + 1
  BY AppendedFacts DEF VotingIn
<1>2. ASSUME NEW j \in 1..Len(a), LowPrimary(q, a, j) PROVE LowPrimary(q, Append(a, x), j)
  <2>1. j \in 0..Len(a) /\ 1 \in Nat \ {0} /\ 1 <= j
    BY <1>1
  <2>2. Ballot(q, Append(a, x), 1, j, "primary") /\ Append(a, x)[j] = a[j]
    BY <1>2, <2>1, AttemptsKeep DEF LowPrimary
  <2> QED BY <1>2, <2>2 DEF LowPrimary
<1>3. CASE p = "primary" /\ lo = 1
  BY <1>3
<1>4. CASE p = "recovery" /\ lo > 1 /\ LowPrimary(q, a, lo - 1)
  <2>1. PICK j : j = lo - 1
    OBVIOUS
  <2>2. j \in 1..Len(a)
    BY <1>1, <1>4, <2>1
  <2>3. LowPrimary(q, Append(a, x), j)
    BY <1>2, <1>4, <2>1, <2>2
  <2> QED BY <1>4, <2>1, <2>2, <2>3
<1>5. CASE p = "tiebreak" /\ \E j \in 1..(lo - 2) : Disagreeing(q, a, j, lo - 1)
  <2>1. PICK j \in 1..(lo - 2) : Disagreeing(q, a, j, lo - 1)
    BY <1>5
  <2>2. PICK k : k = lo - 1
    OBVIOUS
  <2>3. /\ k \in 1..Len(a) /\ j \in 1..Len(a) /\ lo > 1 /\ k \in 0..Len(a) /\ j \in 0..Len(a)
        /\ j + 1 \in Nat \ {0} /\ j + 1 <= k /\ 1 <= j /\ 1 <= k
    BY <1>1, <2>1, <2>2
  <2>4. /\ LowPrimary(q, a, j) /\ Ballot(q, a, j + 1, k, "recovery") /\ Confidently(q, a[k].confidence)
        /\ a[j].candidate # a[k].candidate
    BY <2>1, <2>2 DEF Disagreeing
  <2>5. LowPrimary(q, Append(a, x), j)
    BY <1>2, <2>3, <2>4
  <2>6. Ballot(q, Append(a, x), j + 1, k, "recovery") /\ Append(a, x)[k] = a[k]
    BY <2>3, <2>4, AttemptsKeep
  <2>7. Append(a, x)[j] = a[j]
    BY <2>3, AppendedFacts
  <2>8. Disagreeing(q, Append(a, x), j, k)
    BY <2>4, <2>5, <2>6, <2>7 DEF Disagreeing
  <2> QED BY <1>5, <2>2, <2>3, <2>8
<1> QED BY <1>3, <1>4, <1>5 DEF VotingIn

\* A try more is still a vote of this phase.
LEMMA StillVoting ==
  ASSUME NEW q, NEW a, IsSequence(a), NEW x, NEW p, NEW lo, VotingIn(q, a, p, lo),
         Tries(q, Append(a, x), lo, Len(Append(a, x)), p)
  PROVE  /\ p = "primary" => InPrimary(q, Append(a, x))
         /\ p = "recovery" => InRecovery(q, Append(a, x))
         /\ p = "tiebreak" => InTiebreak(q, Append(a, x))
<1>. DEFINE b == Append(a, x)
<1>1. Len(a) \in Nat /\ Len(b) = Len(a) + 1 /\ lo \in Nat
  BY AppendedFacts DEF VotingIn
<1>2. CASE p = "primary" /\ lo = 1
  BY <1>2 DEF InPrimary
<1>. HIDE DEF b
<1>3. CASE p = "recovery" /\ lo > 1 /\ lo - 1 \in 1..Len(a) /\ LowPrimary(q, b, lo - 1)
  <2>1. PICK j : j = lo - 1
    OBVIOUS
  <2>2. j \in 1..Len(b) /\ j + 1 = lo
    BY <1>1, <1>3, <2>1
  <2>3. InRecovery(q, b)
    BY <1>3, <2>1, <2>2 DEF InRecovery, b
  <2> QED BY <1>3, <2>3 DEF b
<1>4. CASE /\ p = "tiebreak" /\ lo > 1 /\ lo - 1 \in 1..Len(a)
           /\ \E j \in 1..(lo - 2) : Disagreeing(q, b, j, lo - 1)
  <2>1. PICK j \in 1..(lo - 2) : Disagreeing(q, b, j, lo - 1)
    BY <1>4
  <2>2. PICK k : k = lo - 1
    OBVIOUS
  <2>3. k \in 1..Len(b) /\ j \in 1..Len(b) /\ j < k /\ k + 1 = lo
    BY <1>1, <1>4, <2>1, <2>2
  <2>4. InTiebreak(q, b)
    BY <1>4, <2>1, <2>2, <2>3 DEF InTiebreak, b
  <2> QED BY <1>4, <2>4 DEF b
<1> QED BY <1>2, <1>3, <1>4, BallotsKeep DEF b

\* An answer outside the allowlist is asked again, or leaves the set to review.
LEMMA UnknownFacts ==
  ASSUME request \in Requests, AuditIsOrderly, NEW voting \in VotePhases, UnknownVote(voting)
  PROVE  Onward /\ IsSequence(attempts')
<1>. DEFINE code == "LLM_CANDIDATE_UNKNOWN"
            unknown(count) == Attempt(voting, NextIndex, ActiveMessages(attempts, voting), NoCandidate, 1,
                                      "candidate_unknown", <<code>>, count)
<1>1. stage = voting /\ IsSequence(attempts)
  BY DEF UnknownVote, Calls, AuditIsOrderly
<1>2. ~Ruled(request)
  BY <1>1 DEF AuditIsOrderly, ModelStages, VotePhases, Turn
<1>3. PICK count \in Counts :
        /\ Audited(unknown(count))
        /\ IF Len(InPhase(Append(attempts, unknown(count)), voting)) < request.policy.max_schema_attempts
           THEN UNCHANGED <<stage, record>>
           ELSE Decided(Deferred([i \in 1..Len(InPhase(Append(attempts, unknown(count)), voting)) |-> code],
                                 Append(attempts, unknown(count))))
  BY DEF UnknownVote
<1>4. PICK x : x = unknown(count)
  OBVIOUS
<1>5. x.candidate = NoCandidate
  BY <1>4 DEF Attempt
<1>6. PICK lo : VotingIn(request, attempts, voting, lo)
  BY <1>1, VotePhase
<1>. DEFINE b == Append(attempts, x)
<1>7. /\ attempts' = b
      /\ \/ UNCHANGED <<stage, record>>
         \/ \E codes : Decided(Deferred(codes, b))
  BY <1>3, <1>4 DEF Audited
<1>8. IsSequence(b)
  BY <1>1, AppendedFacts
<1>9. CASE UNCHANGED <<stage, record>>
  <2>1. lo \in Nat \ {0} /\ lo <= Len(attempts) + 1 /\ Tries(request, attempts, lo, Len(attempts), voting)
    BY <1>6 DEF VotingIn
  <2>2. x = Attempt(voting, Len(attempts) + 1, ActiveMessages(attempts, voting), NoCandidate, 1,
                    "candidate_unknown", <<"LLM_CANDIDATE_UNKNOWN">>, count)
    BY <1>4 DEF NextIndex
  <2>3. Tries(request, Append(attempts, x), lo, Len(Append(attempts, x)), voting)
    BY <1>1, <2>1, <2>2, NextTry
  <2>4. /\ voting = "primary" => InPrimary(request, b)
        /\ voting = "recovery" => InRecovery(request, b)
        /\ voting = "tiebreak" => InTiebreak(request, b)
    BY <1>1, <1>6, <2>3, StillVoting
  <2>5. stage' = voting /\ voting \in {"primary", "recovery", "tiebreak"}
    BY <1>1, <1>9 DEF VotePhases, Turn
  <2>. HIDE DEF b
  <2> QED BY <1>7, <1>8, <2>4, <2>5 DEF Onward, ModelStages
<1>10. CASE \E codes : Decided(Deferred(codes, b))
  <2>1. PICK codes : Decided(Deferred(codes, b))
    BY <1>10
  <2>2. Unearned(request, b)
    BY <1>1, <1>5, NamelessIsUnearned
  <2>. HIDE DEF b
  <2>3. Settles
    BY <1>2, <1>8, <2>1, <2>2, DeferralSettles
  <2> QED BY <1>7, <1>8, <2>3 DEF Onward
<1> QED BY <1>7, <1>9, <1>10

\* A vote for a candidate goes on as its phase does.
LEMMA VoteFacts ==
  ASSUME request \in Requests, AuditIsOrderly, NEW voting \in VotePhases, Vote(voting)
  PROVE  Onward /\ IsSequence(attempts')
<1>. DEFINE vote(id, confidence, count) ==
              Attempt(voting, NextIndex, ActiveMessages(attempts, voting), id, confidence,
                      IF ~IsConfident(confidence) THEN "low_confidence" ELSE "accepted",
                      LowCodes(~IsConfident(confidence)), count)
<1>1. stage = voting /\ IsSequence(attempts)
  BY DEF Vote, Calls, AuditIsOrderly
<1>2. ~Ruled(request)
  BY <1>1 DEF AuditIsOrderly, ModelStages, VotePhases, Turn
<1>3. PICK id \in allowlist, confidence \in Confidences, count \in Counts :
        /\ Audited(vote(id, confidence, count))
        /\ CASE voting = "primary"  -> AfterPrimary(Append(attempts, vote(id, confidence, count)), id, confidence)
             [] voting = "recovery" -> AfterRecovery(Append(attempts, vote(id, confidence, count)), id, confidence)
             [] voting = "tiebreak" -> AfterTiebreak(Append(attempts, vote(id, confidence, count)), id, confidence)
  BY DEF Vote
<1>4. PICK x : x = vote(id, confidence, count)
  OBVIOUS
<1>5. x.candidate = id /\ x.confidence = confidence
  BY <1>4 DEF Attempt
<1>6. PICK lo : VotingIn(request, attempts, voting, lo)
  BY <1>1, VotePhase
<1>7. PICK b : b = Append(attempts, x)
  OBVIOUS
<1>8. /\ attempts' = b
      /\ voting = "primary" => AfterPrimary(b, id, confidence)
      /\ voting = "recovery" => AfterRecovery(b, id, confidence)
      /\ voting = "tiebreak" => AfterTiebreak(b, id, confidence)
  BY <1>3, <1>4, <1>7 DEF Audited
<1>9. IsSequence(b)
  BY <1>1, <1>7, AppendedFacts
<1>10. /\ lo \in Nat \ {0} /\ lo <= Len(attempts) + 1 /\ Tries(request, attempts, lo, Len(attempts), voting)
  BY <1>6 DEF VotingIn
<1>11. FollowsAsVote(attempts, voting, id, confidence, x)
  BY <1>4 DEF NextIndex, Attempt, FollowsAsVote
<1>12. /\ Ballot(request, b, lo, Len(b), voting) /\ b[Len(b)] = x /\ Len(b) \in Nat \ {0}
  <2>1. /\ Ballot(request, Append(attempts, x), lo, Len(Append(attempts, x)), voting)
        /\ Append(attempts, x)[Len(Append(attempts, x))] = x /\ Len(Append(attempts, x)) \in Nat \ {0}
    <3>1. id \in allowlist
      BY <1>3
    <3>. HIDE DEF allowlist
    <3> QED BY <1>1, <1>10, <1>11, <3>1, NextVote
  <2> QED BY <1>7, <2>1
<1>13. PICK n : n = Len(b)
  OBVIOUS
<1>14. n = Len(attempts) + 1 /\ Len(attempts) \in Nat
  BY <1>1, <1>7, <1>13, AppendedFacts
<1>15. b[n].candidate = id /\ b[n].confidence = confidence /\ n \in Nat \ {0}
  BY <1>5, <1>12, <1>13
<1>16. CASE voting = "primary" /\ lo = 1
  <2>1. AfterPrimary(b, id, confidence) /\ Ballot(request, b, 1, n, "primary")
    BY <1>8, <1>12, <1>13, <1>16
  <2>2. \/ stage' = "generation" /\ UNCHANGED record /\ InGeneration(request, b)
        \/ stage' = "recovery" /\ UNCHANGED record /\ InRecovery(request, b)
        \/ Settles
    BY <1>2, <1>9, <1>13, <1>15, <2>1, AfterPrimaryFacts
  <2> QED BY <1>8, <1>9, <2>2 DEF Onward, ModelStages
<1>17. CASE voting = "recovery" /\ lo > 1 /\ lo - 1 \in 1..Len(attempts) /\ LowPrimary(request, b, lo - 1)
  <2>1. PICK j : j = lo - 1
    OBVIOUS
  <2>2. j \in 1..(n - 1) /\ j + 1 = lo /\ LowPrimary(request, b, j)
    BY <1>10, <1>14, <1>17, <2>1
  <2>3. AfterRecovery(b, id, confidence) /\ Ballot(request, b, j + 1, n, "recovery")
    BY <1>8, <1>12, <1>13, <1>17, <2>2
  <2>4. \/ stage' = "tiebreak" /\ UNCHANGED record /\ InTiebreak(request, b)
        \/ Settles
    BY <1>2, <1>9, <1>13, <1>15, <2>2, <2>3, AfterRecoveryFacts
  <2> QED BY <1>8, <1>9, <2>4 DEF Onward, ModelStages
<1>18. CASE /\ voting = "tiebreak" /\ lo > 1 /\ lo - 1 \in 1..Len(attempts)
            /\ \E j \in 1..(lo - 2) : Disagreeing(request, b, j, lo - 1)
  <2>1. PICK j \in 1..(lo - 2) : Disagreeing(request, b, j, lo - 1)
    BY <1>18
  <2>2. PICK k : k = lo - 1
    OBVIOUS
  <2>3. k \in 1..(n - 1) /\ j \in 1..(n - 1) /\ j < k /\ k + 1 = lo /\ Disagreeing(request, b, j, k)
    BY <1>10, <1>14, <1>18, <2>1, <2>2
  <2>4. AfterTiebreak(b, id, confidence) /\ Ballot(request, b, k + 1, n, "tiebreak")
    BY <1>8, <1>12, <1>13, <1>18, <2>3
  <2>5. Settles
    BY <1>2, <1>9, <1>13, <1>15, <2>3, <2>4, AfterTiebreakFacts
  <2> QED BY <1>8, <1>9, <2>5 DEF Onward
<1>19. \/ voting = "primary" /\ lo = 1
       \/ voting = "recovery" /\ lo > 1 /\ lo - 1 \in 1..Len(attempts) /\ LowPrimary(request, b, lo - 1)
       \/ /\ voting = "tiebreak" /\ lo > 1 /\ lo - 1 \in 1..Len(attempts)
          /\ \E j \in 1..(lo - 2) : Disagreeing(request, b, j, lo - 1)
  <2>1. \/ voting = "primary" /\ lo = 1
        \/ /\ voting = "recovery" /\ lo > 1 /\ lo - 1 \in 1..Len(attempts)
           /\ LowPrimary(request, Append(attempts, x), lo - 1)
        \/ /\ voting = "tiebreak" /\ lo > 1 /\ lo - 1 \in 1..Len(attempts)
           /\ \E j \in 1..(lo - 2) : Disagreeing(request, Append(attempts, x), j, lo - 1)
    BY <1>1, <1>6, BallotsKeep
  <2> QED BY <1>7, <2>1
<1> QED BY <1>16, <1>17, <1>18, <1>19

\* A defect has a code.
LEMMA DefectsAreNamed ==
  ASSUME NEW text, NEW rendering, DefectCodes(text, rendering) # <<>>
  PROVE  Head(DefectCodes(text, rendering)) # "none"
<1>. DEFINE split(kind) == Splits(text, rendering, kind, {"space"})
            found == FirstCode(<<Check(split("identifier"), "IDENTIFIER_WHITESPACE_SPLIT"),
                                 Check(split("qualified"), "QUALIFIED_IDENTIFIER_WHITESPACE_SPLIT"),
                                 Check(split("protected"), "PROTECTED_TOKEN_WHITESPACE_SPLIT")>>)
<1>0. SplitDefect(text, rendering) = IF found = "none" THEN <<>> ELSE <<found>>
  BY DEF SplitDefect
<1>. HIDE DEF found
<1>1. PICK first, code : first = SplitDefect(text, rendering) /\ (first = <<>> \/ (first = <<code>> /\ code # "none"))
  <2>1. PICK code : code = found
    OBVIOUS
  <2>2. SplitDefect(text, rendering) = <<>> \/ (SplitDefect(text, rendering) = <<code>> /\ code # "none")
    BY <1>0, <2>1
  <2> QED BY <2>2
<1>2. PICK before, after :
        /\ before = <<>> \/ before = <<"PUNCTUATION_WHITESPACE_BEFORE">>
        /\ after = <<>> \/ after = <<"PUNCTUATION_WHITESPACE_AFTER_OPEN">>
        /\ DefectCodes(text, rendering) = first \o before \o after
  BY <1>1 DEF DefectCodes
<1>. DEFINE E == {code, "PUNCTUATION_WHITESPACE_BEFORE", "PUNCTUATION_WHITESPACE_AFTER_OPEN"}
            all == first \o before \o after
<1>3. first \in Seq(E) /\ before \in Seq(E) /\ after \in Seq(E) /\ all # <<>>
  <2>1. <<>> \in Seq(E) /\ code \in E
    OBVIOUS
  <2>2. "PUNCTUATION_WHITESPACE_BEFORE" \in E /\ "PUNCTUATION_WHITESPACE_AFTER_OPEN" \in E
    OBVIOUS
  <2>. HIDE DEF E
  <2>3. \A e \in E : <<e>> \in Seq(E)
    OBVIOUS
  <2>4. first \in Seq(E)
    BY <1>1, <2>1, <2>3
  <2>5. before \in Seq(E) /\ after \in Seq(E)
    BY <1>2, <2>1, <2>2, <2>3
  <2> QED BY <1>2, <2>4, <2>5
<1>4. CASE first = <<code>>
  <2>1. all[1] = code
    BY <1>3, <1>4
  <2> QED BY <1>1, <1>2, <1>3, <1>4, <2>1
<1>5. CASE first = <<>> /\ before = <<"PUNCTUATION_WHITESPACE_BEFORE">>
  <2>1. all[1] = "PUNCTUATION_WHITESPACE_BEFORE"
    BY <1>3, <1>5
  <2> QED BY <1>2, <1>3, <2>1
<1>6. CASE first = <<>> /\ before = <<>>
  <2>1. after = <<"PUNCTUATION_WHITESPACE_AFTER_OPEN">>
    BY <1>2, <1>3, <1>6
  <2>2. all = after
    BY <1>3, <1>6
  <2> QED BY <1>2, <2>1, <2>2
<1> QED BY <1>1, <1>2, <1>4, <1>5, <1>6

\* A repair without a code has no defect.
LEMMA RepairFacts ==
  ASSUME NEW text, NEW anchor, NEW proposal \in Proposals(text), RepairCode(text, anchor, proposal) = "none"
  PROVE  DefectCodes(text, proposal.rendering) = <<>> /\ proposal.rendering \in [text.gaps -> GapStates]
<1>1. DefectCodes(text, proposal.rendering) = <<>>
  BY DefectsAreNamed DEF RepairCode
<1>2. proposal.rendering \in [text.gaps -> GapStates]
  BY DEF Proposals, GapStates
<1> QED BY <1>1, <1>2

\* The first vote is the anchor of a repair.
LEMMA AnchorFacts ==
  ASSUME IsSequence(attempts), InGeneration(request, attempts)
  PROVE  Anchor = attempts[Len(attempts)].candidate
<1>. DEFINE n == Len(attempts)
<1>1. PICK E, a : a = attempts /\ a \in Seq(E)
  BY DEF IsSequence
<1>2. Len(a) \in Nat \ {0} /\ Ballot(request, a, 1, Len(a), "primary") /\ 1 \in 1..Len(a) /\ Len(a) \in 1..Len(a)
      /\ 1 <= Len(a)
  BY <1>1 DEF InGeneration
<1>3. Last(SubSeq(a, 1, Len(a))) = a[Len(a)] /\ \A i \in 1..Len(a) : AskedAt(request, a, i, "primary")
  BY <1>1, <1>2, BallotIsVote
<1>4. \A i \in 1..Len(a) : a[i].phase = "primary" <=> 1 <= i /\ i <= Len(a)
  BY <1>2, <1>3 DEF AskedAt
<1>5. 1 \in Nat \ {0} /\ Len(a) \in Nat /\ 1 <= Len(a) + 1 /\ Len(a) <= Len(a)
  BY <1>2
<1>6. InPhase(a, "primary") = SubSeq(a, 1, Len(a))
  BY <1>1, <1>4, <1>5, PhaseIsStretch
<1> QED BY <1>1, <1>3, <1>6 DEF Anchor, VoteIn

\* A proposal is rejected, or goes to verification.
LEMMA GenerationFacts ==
  ASSUME request \in Requests, AuditIsOrderly, Generation
  PROVE  Onward /\ IsSequence(attempts')
<1>1. stage = "generation" /\ IsSequence(attempts) /\ InGeneration(request, attempts) /\ ~Ruled(request)
  BY DEF Generation, Calls, AuditIsOrderly, ModelStages
<1>. DEFINE text == request.set.text
            attempt(id, confidence, status, codes, count) ==
              Attempt("generation", NextIndex, GenerationMessages(Anchor), id, confidence, status, codes, count)
<1>2. PICK proposal \in Proposals(text), confidence \in Confidences, count \in Counts :
        LET code == RepairCode(text, Anchor, proposal)
            low  == ~IsConfident(confidence)
        IN  \/ stage' = "raised" /\ UNCHANGED <<attempts, record>>
            \/ /\ code = "none"
               /\ Audited(attempt(proposal.rendering, confidence, IF low THEN "low_confidence" ELSE "accepted",
                                  LowCodes(low), count))
               /\ stage' = "verification" /\ UNCHANGED record
            \/ \E x : /\ x = attempt(NoCandidate, confidence, "validation_rejected", <<code>>, count)
                      /\ Audited(x) /\ Decided(Deferred(<<>>, Append(attempts, x)))
  BY DEF Generation
<1>3. CASE stage' = "raised" /\ UNCHANGED <<attempts, record>>
  BY <1>1, <1>3 DEF Onward
<1>4. CASE /\ RepairCode(text, Anchor, proposal) = "none"
           /\ Audited(attempt(proposal.rendering, confidence,
                              IF ~IsConfident(confidence) THEN "low_confidence" ELSE "accepted",
                              LowCodes(~IsConfident(confidence)), count))
           /\ stage' = "verification" /\ UNCHANGED record
  <2>1. PICK x : x = attempt(proposal.rendering, confidence,
                             IF ~IsConfident(confidence) THEN "low_confidence" ELSE "accepted",
                             LowCodes(~IsConfident(confidence)), count)
    OBVIOUS
  <2>2. /\ x.phase = "generation" /\ x.index = Len(attempts) + 1
        /\ x.hash = <<request, "generation", Len(attempts) + 1, GenerationMessages(Anchor)>>
        /\ x.candidate = proposal.rendering /\ x.confidence = confidence
        /\ x.status = IF ~IsConfident(confidence) THEN "low_confidence" ELSE "accepted"
        /\ x.codes = LowCodes(~IsConfident(confidence))
    BY <2>1 DEF Attempt, NextIndex
  <2>3. PICK b, n : b = Append(attempts, x) /\ n = Len(attempts) + 1
    OBVIOUS
  <2>4. attempts' = b
    BY <1>4, <2>1, <2>3 DEF Audited
  <2>5. /\ IsSequence(b) /\ Len(b) = n /\ n - 1 = Len(attempts) /\ n - 1 \in Nat \ {0} /\ n > 1
        /\ b[n] = x /\ b[n - 1] = attempts[n - 1] /\ n - 1 \in 0..Len(attempts) /\ n \in Nat
    <3>1. Len(attempts) \in Nat /\ Len(attempts) > 0
      BY <1>1, AppendedFacts DEF InGeneration
    <3>2. n - 1 = Len(attempts) /\ n - 1 \in 1..Len(attempts) /\ n \in Nat
      BY <2>3, <3>1
    <3>3. IsSequence(b) /\ Len(b) = Len(attempts) + 1 /\ b[Len(attempts) + 1] = x
          /\ \A i \in 1..Len(attempts) : b[i] = attempts[i]
      BY <1>1, <2>3, AppendedFacts
    <3> QED BY <2>3, <3>1, <3>2, <3>3
  <2>6. Ballot(request, b, 1, n - 1, "primary")
    <3>1. Ballot(request, attempts, 1, n - 1, "primary") /\ 1 \in Nat \ {0} /\ 1 <= n - 1
      BY <1>1, <2>5 DEF InGeneration
    <3>2. PICK hi : hi = n - 1
      OBVIOUS
    <3>3. Ballot(request, Append(attempts, x), 1, hi, "primary")
      BY <1>1, <2>5, <3>1, <3>2, AttemptsKeep
    <3> QED BY <2>3, <3>2, <3>3
  <2>7. DefectCodes(text, x.candidate) = <<>> /\ x.candidate \in [text.gaps -> GapStates]
    BY <1>4, <2>2, RepairFacts
  <2>8. Anchor = b[n - 1].candidate
    BY <1>1, <2>5, AnchorFacts
  <2>9. IsConfident(confidence) <=> Confidently(request, confidence)
    BY AllowedIsCurrent
  <2>10. ProposedAt(request, b, n)
    BY <2>2, <2>3, <2>5, <2>7, <2>8, <2>9 DEF ProposedAt, LowCodes
  <2>11. InVerification(request, b)
    BY <1>1, <2>5, <2>6, <2>10 DEF InVerification, InGeneration
  <2> QED BY <1>4, <2>4, <2>5, <2>11 DEF Onward, ModelStages
<1>5. CASE \E x : /\ x = attempt(NoCandidate, confidence, "validation_rejected",
                                 <<RepairCode(text, Anchor, proposal)>>, count)
                  /\ Audited(x) /\ Decided(Deferred(<<>>, Append(attempts, x)))
  <2>1. PICK x : /\ x = attempt(NoCandidate, confidence, "validation_rejected",
                                <<RepairCode(text, Anchor, proposal)>>, count)
                 /\ Audited(x) /\ Decided(Deferred(<<>>, Append(attempts, x)))
    BY <1>5
  <2>2. x.candidate = NoCandidate
    BY <2>1 DEF Attempt
  <2>3. PICK b : b = Append(attempts, x)
    OBVIOUS
  <2>4. IsSequence(b) /\ Unearned(request, b)
    BY <1>1, <2>2, <2>3, AppendedFacts, NamelessIsUnearned
  <2>5. Settles
    BY <1>1, <2>1, <2>3, <2>4, DeferralSettles
  <2> QED BY <2>1, <2>3, <2>4, <2>5 DEF Onward, Audited
<1> QED BY <1>2, <1>3, <1>4, <1>5

\* A verification accepts the repair, or leaves the set to review.
LEMMA VerificationFacts ==
  ASSUME request \in Requests, AuditIsOrderly, Verification
  PROVE  Onward /\ IsSequence(attempts')
<1>1. /\ stage = "verification" /\ IsSequence(attempts) /\ InVerification(request, attempts)
      /\ ~Ruled(request)
  BY DEF Verification, Calls, AuditIsOrderly, ModelStages
<1>. DEFINE low(confidence) == ~IsConfident(confidence)
            codesOf(id, confidence, own) == VerificationCodes(own, low(confidence), id = Generated)
            accepts(id, confidence, own) ==
              /\ Last(attempts).status = "accepted" /\ ~low(confidence) /\ id = Generated
              /\ codesOf(id, confidence, own) = <<>>
            attempt(id, confidence, own, count) ==
              Attempt("verification", NextIndex, VerificationMessages(Generated), id, confidence,
                      IF accepts(id, confidence, own) THEN "accepted"
                      ELSE IF low(confidence) THEN "low_confidence" ELSE "validation_rejected",
                      codesOf(id, confidence, own), count)
            selection(x, id, confidence) ==
              [source |-> "generated", selected |-> id, attempts |-> Append(attempts, x),
               confidence |-> Min({Last(attempts).confidence, confidence}),
               codes |-> <<"LLM_SPACING_REPAIR_APPLIED">>, recovery |-> "generated",
               generated |-> [id |-> id, text |-> request.set.text]]
<1>2. PICK id \in allowlist \cup {Generated}, confidence \in Confidences, own \in VerifierCodes, count \in Counts :
        IF Len(codesOf(id, confidence, own)) > 4
        THEN stage' = "raised" /\ UNCHANGED <<attempts, record>>
        ELSE /\ Audited(attempt(id, confidence, own, count))
             /\ IF accepts(id, confidence, own)
                THEN Decided(Record(selection(attempt(id, confidence, own, count), id, confidence)))
                ELSE Decided(Deferred(<<>>, Append(attempts, attempt(id, confidence, own, count))))
  BY DEF Verification
<1>3. PICK x : x = attempt(id, confidence, own, count)
  OBVIOUS
<1>4. /\ x.phase = "verification" /\ x.index = Len(attempts) + 1
      /\ x.hash = <<request, "verification", Len(attempts) + 1, VerificationMessages(Generated)>>
      /\ x.candidate = id /\ x.confidence = confidence
      /\ x.status = IF accepts(id, confidence, own) THEN "accepted"
                    ELSE IF low(confidence) THEN "low_confidence" ELSE "validation_rejected"
      /\ x.codes = codesOf(id, confidence, own)
  BY <1>3 DEF Attempt, NextIndex
<1>5. PICK b, n : b = Append(attempts, x) /\ n = Len(attempts) + 1
  OBVIOUS
<1>6. /\ IsSequence(b) /\ Len(b) = n /\ n \in Nat /\ n > 2 /\ n - 1 = Len(attempts)
      /\ b[n] = x /\ b[n - 1] = attempts[n - 1] /\ b[n - 2] = attempts[n - 2]
      /\ n - 2 \in 0..Len(attempts) /\ n - 2 \in Nat \ {0} /\ 1 <= n - 2 /\ n - 1 - 1 = n - 2
  <2>1. Len(attempts) \in Nat /\ Len(attempts) > 1
    BY <1>1, AppendedFacts DEF InVerification
  <2>2. IsSequence(b) /\ Len(b) = Len(attempts) + 1 /\ b[Len(attempts) + 1] = x
        /\ \A i \in 1..Len(attempts) : b[i] = attempts[i]
    BY <1>1, <1>5, AppendedFacts
  <2>3. /\ n - 1 = Len(attempts) /\ n \in Nat /\ n > 2 /\ n - 1 \in 1..Len(attempts)
        /\ n - 2 \in 1..Len(attempts) /\ n - 1 - 1 = n - 2
    BY <1>5, <2>1
  <2> QED BY <1>5, <2>2, <2>3
<1>7. Last(attempts) = attempts[n - 1] /\ Generated = attempts[n - 1].candidate
  BY <1>6 DEF Last, Generated
<1>8. IsConfident(confidence) <=> Confidently(request, confidence)
  BY AllowedIsCurrent
<1>9. CASE Len(codesOf(id, confidence, own)) > 4
  BY <1>1, <1>2, <1>9 DEF Onward
<1>10. CASE ~(Len(codesOf(id, confidence, own)) > 4) /\ ~accepts(id, confidence, own)
  <2>1. attempts' = b /\ Decided(Deferred(<<>>, b))
    BY <1>2, <1>3, <1>5, <1>10 DEF Audited
  <2>2. ~Confidently(request, b[n].confidence) \/ b[n].status = "validation_rejected"
    BY <1>4, <1>6, <1>8, <1>10
  <2>. HIDE DEF low, codesOf, accepts, attempt, selection
  <2>3. Unearned(request, b)
    BY <1>6, <2>2 DEF Unearned
  <2>4. Settles
    BY <1>1, <1>6, <2>1, <2>3, DeferralSettles
  <2> QED BY <1>6, <2>1, <2>4 DEF Onward
<1>11. CASE ~(Len(codesOf(id, confidence, own)) > 4) /\ accepts(id, confidence, own)
  <2>. DEFINE fields == selection(x, id, confidence)
  <2>1. attempts' = b /\ stage' = "done" /\ record' = Record(fields)
    BY <1>2, <1>3, <1>5, <1>11 DEF Audited, Decided
  <2>2. /\ DOMAIN fields = {"source", "selected", "attempts", "confidence", "codes", "recovery", "generated"}
        /\ fields["source"] = "generated" /\ fields["selected"] = id /\ fields["attempts"] = b
        /\ fields["confidence"] = Min({Last(attempts).confidence, confidence})
        /\ fields["codes"] = <<"LLM_SPACING_REPAIR_APPLIED">> /\ fields["recovery"] = "generated"
        /\ fields["generated"] = [id |-> id, text |-> request.set.text]
    BY <1>5
  <2>3. /\ x.status = "accepted" /\ x.codes = <<>> /\ id = Generated
        /\ attempts[n - 1].status = "accepted" /\ IsConfident(confidence)
    BY <1>4, <1>7, <1>11
  <2>. HIDE DEF fields
  <2>4. DOMAIN fields \subseteq BaseFields \ {"snapshot"}
    BY <2>2 DEF BaseFields
  <2>5. PICK t : t = Record(fields)
    OBVIOUS
  <2>6. /\ \A y \in DOMAIN fields : t[y] = fields[y]
        /\ \A y \in BaseFields \ DOMAIN fields : t[y] = EmptyRecord[y]
    BY <2>4, <2>5, RecordFacts
  <2>7. /\ t.source = "generated" /\ t.selected = id /\ t.attempts = b
        /\ t.confidence = Min({Last(attempts).confidence, confidence})
        /\ t.codes = <<"LLM_SPACING_REPAIR_APPLIED">> /\ t.recovery = "generated"
        /\ t.generated = [id |-> id, text |-> request.set.text]
    BY <2>2, <2>6
  <2>8. t.request = request /\ t.outcome = "selected"
    <3>1. {"request", "outcome"} \subseteq BaseFields \ DOMAIN fields
      BY <2>2 DEF BaseFields
    <3> QED BY <2>6, <3>1 DEF EmptyRecord
  <2>. HIDE DEF low, codesOf, accepts, attempt, selection
  <2>9. Ballot(request, b, 1, n - 2, "primary")
    <3>1. PICK hi : hi = n - 2
      OBVIOUS
    <3>2. Ballot(request, attempts, 1, hi, "primary") /\ 1 \in Nat \ {0} /\ 1 <= hi /\ hi \in 0..Len(attempts)
      BY <1>1, <1>6, <3>1 DEF InVerification
    <3>3. Ballot(request, Append(attempts, x), 1, hi, "primary")
      BY <1>1, <3>2, AttemptsKeep
    <3> QED BY <1>5, <3>1, <3>3
  <2>10. ProposedAt(request, attempts, n - 1) /\ request.set.type = "spacing"
    BY <1>1, <1>6 DEF InVerification
  <2>11. PICK m : m = n - 1
    OBVIOUS
  <2>12. /\ b[m] = attempts[m] /\ b[m - 1] = attempts[m - 1]
    BY <1>6, <2>11
  <2>13. ProposedAt(request, b, m)
    BY <2>10, <2>11, <2>12 DEF ProposedAt
  <2>14. Confidently(request, b[m].confidence) /\ b[m].candidate = id
    BY <1>7, <2>3, <2>10, <2>11, <2>12 DEF ProposedAt
  <2>15. b[m].candidate \in [request.set.text.gaps -> GapStates]
    BY <2>13 DEF ProposedAt
  <2>16. MadeByGeneration(request, t, b, n)
    <3>1. /\ b[n].phase = "verification" /\ b[n].index = n /\ b[n].status = "accepted" /\ b[n].codes = <<>>
          /\ b[n].hash = <<request, "verification", n, VerificationMessages(b[m].candidate)>>
          /\ b[n].candidate = id /\ b[n].confidence = confidence
      BY <1>4, <1>5, <1>6, <1>7, <2>3, <2>11, <2>12
    <3>2. Confidently(request, b[n].confidence) /\ b[n].candidate = b[m].candidate
      BY <1>8, <2>3, <2>14, <3>1
    <3>3. t.confidence = Min({b[m].confidence, b[n].confidence})
      BY <1>7, <2>7, <2>11, <2>12, <3>1
    <3> QED BY <1>6, <2>7, <2>9, <2>10, <2>11, <2>13, <2>14, <3>1, <3>2, <3>3 DEF MadeByGeneration
  <2>17. Made(t)
    <3>1. Len(b) > 0
      BY <1>6
    <3> QED BY <1>6, <2>7, <2>8, <2>16, <3>1 DEF Made, MadeBy
  <2>18. t.generated # NoCandidate
    BY <2>7, <2>14, <2>15, AdjudicationAssumption
  <2>19. Sound(t)
    BY <1>1, <2>4, <2>5, <2>8, <2>17, <2>18, SelectionIsSound
  <2> QED BY <1>6, <2>1, <2>5, <2>8, <2>19 DEF Onward, Settles
<1> QED BY <1>9, <1>10, <1>11

\* Every step of a model call.
LEMMA CallFacts ==
  ASSUME request \in Requests, AuditIsOrderly,
         \/ VoteFails \/ Generation \/ GenerationFails \/ Verification \/ VerificationFails
         \/ \E voting \in VotePhases : UnknownVote(voting) \/ Vote(voting)
  PROVE  Onward /\ IsSequence(attempts') /\ stage \in ModelStages /\ UNCHANGED <<request, trusted>>
<1>0. ASSUME NEW voting \in ModelStages, NEW messages, ProviderFails(voting, messages)
      PROVE  Onward /\ IsSequence(attempts') /\ stage \in ModelStages /\ UNCHANGED <<request, trusted>>
  <2>1. stage = voting /\ UNCHANGED <<request, trusted>>
    BY <1>0 DEF ProviderFails, Calls
  <2>2. ~Ruled(request) /\ IsSequence(attempts)
    BY <2>1 DEF AuditIsOrderly
  <2>3. Settles /\ IsSequence(attempts')
    BY <1>0, <2>2, FailureFacts
  <2> QED BY <2>1, <2>3 DEF Onward
<1>1. VotePhases \subseteq ModelStages /\ "generation" \in ModelStages /\ "verification" \in ModelStages
  BY DEF VotePhases, Turn, ModelStages
<1>2. CASE VoteFails
  <2>1. PICK voting \in VotePhases : ProviderFails(voting, ActiveMessages(attempts, voting))
    BY <1>2 DEF VoteFails
  <2> QED BY <1>0, <1>1, <2>1
<1>3. CASE Generation
  BY <1>1, <1>3, GenerationFacts DEF Generation, Calls
<1>4. CASE GenerationFails
  BY <1>0, <1>1, <1>4 DEF GenerationFails
<1>5. CASE Verification
  BY <1>1, <1>5, VerificationFacts DEF Verification, Calls
<1>6. CASE VerificationFails
  BY <1>0, <1>1, <1>6 DEF VerificationFails
<1>7. CASE \E voting \in VotePhases : UnknownVote(voting) \/ Vote(voting)
  <2>1. PICK voting \in VotePhases : UnknownVote(voting) \/ Vote(voting)
    BY <1>7
  <2>2. stage = voting /\ UNCHANGED <<request, trusted>>
    BY <2>1 DEF UnknownVote, Vote, Calls
  <2> QED BY <1>1, <2>1, <2>2, UnknownFacts, VoteFacts
<1> QED BY <1>2, <1>3, <1>4, <1>5, <1>6, <1>7

(***************************************************************************)
(* The step that decides without the model, and the step to another run    *)
(***************************************************************************)

\* A decision replayed is as sound as the one it was.
LEMMA CachedIsSound ==
  ASSUME NEW t, Sound(t), ~Ruled(t.request), Selection(t)
  PROVE  /\ Sound(Cached(t)) /\ Cached(t).request = t.request /\ Cached(t).outcome = "selected"
         /\ Cached(t).selected = t.selected
<1>. DEFINE d == [Materialized(t) EXCEPT !.source = "cache"]
            c == [d EXCEPT !.id = Identity(d)]
<1>1. t = [f \in RecordFields |-> t[f]] /\ DOMAIN t = RecordFields
  BY DEF Sound, IsRecord
<1>2. /\ DOMAIN d = RecordFields
      /\ \A f \in RecordFields : d[f] = IF f = "source" THEN "cache" ELSE IF f = "snapshot" THEN FALSE ELSE t[f]
  BY <1>1 DEF Materialized, RecordFields, CountedFields, BaseFields
<1>. HIDE DEF d
<1>3. /\ DOMAIN c = RecordFields /\ c = [f \in RecordFields |-> c[f]]
      /\ \A f \in RecordFields : c[f] = IF f = "id" THEN Identity(d) ELSE d[f]
  BY <1>2
<1>4. c = Cached(t)
  BY DEF Cached, d
<1>. HIDE DEF c
<1>5. /\ c.request = t.request /\ c.selected = t.selected /\ c.outcome = t.outcome
      /\ c.source = "cache" /\ c.confidence = t.confidence /\ c.codes = t.codes
      /\ c.attempts = t.attempts /\ c.recovery = t.recovery /\ c.method = t.method
      /\ c.consensus = t.consensus /\ c.recoveries = t.recoveries /\ c.generated = t.generated
      /\ c.retries = t.retries /\ c.repairs = t.repairs /\ c.snapshot = FALSE /\ c.id = Identity(d)
  <2>1. {"request", "selected", "outcome", "source", "confidence", "codes", "attempts", "recovery", "method",
         "consensus", "recoveries", "generated", "retries", "repairs", "snapshot", "id"} \subseteq RecordFields
    BY DEF RecordFields, CountedFields, BaseFields
  <2> QED BY <1>2, <1>3, <2>1
<1>6. IdentityMatches(c)
  <2>1. \A f \in RecordFields \ {"id"} : (IF f = "snapshot" THEN FALSE ELSE c[f]) = (IF f = "snapshot" THEN FALSE ELSE d[f])
    BY <1>3
  <2>2. Identity(c) = Identity(d)
    BY <1>2, <1>3, <2>1 DEF Identity
  <2> QED BY <1>5, <2>2 DEF IdentityMatches
<1>7. CountsMatch(c)
  BY <1>5 DEF Selection, CountsMatch
<1>8. Made(c)
  <2>1. /\ IsSequence(c.attempts) /\ Len(c.attempts) > 0
        /\ MadeBy(c.request, t, c.attempts, Len(c.attempts))
    BY <1>5 DEF Selection, Made
  <2>2. MadeBy(c.request, c, c.attempts, Len(c.attempts))
    <3>1. CASE MadeByPrimary(c.request, t, c.attempts, Len(c.attempts))
      BY <1>5, <3>1 DEF MadeByPrimary, MadeBy
    <3>2. CASE MadeByRecovery(c.request, t, c.attempts, Len(c.attempts))
      BY <1>5, <3>2 DEF MadeByRecovery, Recovering, MadeBy
    <3>3. CASE MadeByTiebreak(c.request, t, c.attempts, Len(c.attempts))
      BY <1>5, <3>3 DEF MadeByTiebreak, Recovering, MadeBy
    <3>4. CASE MadeByGeneration(c.request, t, c.attempts, Len(c.attempts))
      BY <1>5, <3>4 DEF MadeByGeneration, MadeBy
    <3> QED BY <2>1, <3>1, <3>2, <3>3, <3>4 DEF MadeBy
  <2> QED BY <2>1, <2>2 DEF Made
<1>9. Selection(c)
  BY <1>5, <1>6, <1>7, <1>8 DEF Selection
<1>10. IsRecord(c)
  BY <1>3 DEF IsRecord
<1>11. Sound(c)
  BY <1>5, <1>9, <1>10 DEF Sound, Made
<1>12. t.outcome = "selected"
  BY DEF Selection
<1> QED BY <1>4, <1>5, <1>11, <1>12

\* A trusted selection for this request, which no rule decides, is used.
LEMMA TrustedIsUsable ==
  ASSUME AdjudicationInv, ~Ruled(request), NEW i \in 1..Len(trusted),
         trusted[i].request = request, trusted[i].outcome = "selected"
  PROVE  Usable(trusted[i]) /\ Selection(trusted[i])
<1>1. PICK t : t = trusted[i]
  OBVIOUS
<1>2. Sound(t)
  BY <1>1 DEF AdjudicationInv, TrustIsSound
<1>3. Selection(t) /\ IsRecord(t)
  BY <1>1, <1>2 DEF Sound, Review
<1>4. NoCandidate \notin allowlist
  BY NoneIsNotAllowed, AllowedIsCurrent DEF AdjudicationInv
<1>5. Usable(t)
  BY <1>1, <1>3, <1>4, MadeIsUsable DEF Selection
<1> QED BY <1>1, <1>3, <1>5

\* What is used was selected for this request.
LEMMA UsableIsCurrent ==
  ASSUME NEW t, IsRecord(t), Usable(t) PROVE t.request = request /\ t.outcome = "selected"
<1>1. Materialized(t).request = request /\ Materialized(t).outcome = "selected"
  BY DEF Usable, DecisionMatches
<1>2. Materialized(t).request = t.request /\ Materialized(t).outcome = t.outcome
  BY DEF Materialized, IsRecord, RecordFields, CountedFields, BaseFields
<1> QED BY <1>1, <1>2

\* The rule's record.
LEMMA RuleIsSound ==
  ASSUME request \in Requests, Ruled(request), attempts = <<>>, NEW confidence, NEW id, id = RuleChoice(request),
         NEW fields, fields = [source |-> "deterministic", selected |-> id, confidence |-> confidence]
  PROVE  /\ Sound(Record(fields)) /\ Record(fields).request = request /\ Record(fields).outcome = "selected"
         /\ Record(fields).selected = id
<1>1. /\ DOMAIN fields = {"source", "selected", "confidence"}
      /\ fields["source"] = "deterministic" /\ fields["selected"] = id
  OBVIOUS
<1>2. DOMAIN fields \subseteq BaseFields \ {"snapshot"}
  BY <1>1 DEF BaseFields
<1>3. PICK t : t = Record(fields)
  OBVIOUS
<1>4. /\ IsRecord(t) /\ \A y \in DOMAIN fields : t[y] = fields[y]
      /\ \A y \in BaseFields \ DOMAIN fields : t[y] = EmptyRecord[y]
  BY <1>2, <1>3, RecordFacts
<1>5. {"request", "outcome", "attempts"} \subseteq BaseFields \ DOMAIN fields
  BY <1>1 DEF BaseFields
<1>6. t.request = request /\ t.outcome = "selected" /\ t.attempts = <<>>
  BY <1>4, <1>5 DEF EmptyRecord
<1>7. t.source = "deterministic" /\ t.selected = id
  BY <1>1, <1>4
<1>8. IsSequence(<<>>)
  <2>1. <<>> \in Seq({})
    OBVIOUS
  <2> QED BY <2>1 DEF IsSequence
<1>9. Sound(t)
  BY <1>4, <1>6, <1>7, <1>8 DEF Sound, Ruling
<1> QED BY <1>3, <1>6, <1>7, <1>9

\* What a decision without the model leaves behind.
Agrees ==
  \A i \in 1..Len(trusted) : trusted[i].request = request /\ trusted[i].outcome = "selected" =>
    record'.outcome = "selected" /\ record'.selected = trusted[i].selected
Distrusted ==
  \A i \in 1..Len(trusted) : ~(trusted[i].request = request /\ trusted[i].outcome = "selected")

\* The step that asks no model: a rule, a trusted decision, or the primary vote.
LEMMA DecideFacts ==
  ASSUME AdjudicationInv, Decide
  PROVE  \/ Settles /\ Agrees
         \/ stage' = "primary" /\ ~Ruled(request) /\ Distrusted
<1>. DEFINE I == {i \in DOMAIN trusted : Usable(trusted[i])}
            usable == Picked(trusted, I)
            rule(c, confidence) == [source |-> "deterministic", selected |-> c.id, confidence |-> confidence]
<1>1. /\ request \in Requests /\ attempts = <<>> /\ IsSequence(trusted) /\ IsSequence(attempts)
      /\ \A i \in 1..Len(trusted) : Sound(trusted[i])
  BY DEF AdjudicationInv, AuditIsOrderly, TrustIsSound, Decide
<1>2. PICK E, q : trusted \in Seq(E) /\ q = trusted
  BY <1>1 DEF IsSequence
<1>3. IF ProvenTable(request) # NoCandidate THEN Decided(Record(rule(ProvenTable(request), 100)))
      ELSE IF AutoAccepts(request) THEN Decided(Record(rule(candidates[1], candidates[1].score)))
      ELSE IF usable # <<>> THEN Decided(Cached(Head(usable)))
      ELSE IF request.provider = NoProvider
      THEN Decided(Deferred(<<"LLM_PROVIDER_UNAVAILABLE">>, <<>>))
      ELSE stage' = "primary" /\ UNCHANGED record
  BY DEF Decide
<1>4. ASSUME NEW id, NEW confidence, Ruled(request), id = RuleChoice(request),
             Decided(Record([source |-> "deterministic", selected |-> id, confidence |-> confidence]))
      PROVE  Settles /\ Agrees
  <2>1. PICK fields : fields = [source |-> "deterministic", selected |-> id, confidence |-> confidence]
    OBVIOUS
  <2>2. /\ Sound(Record(fields)) /\ Record(fields).request = request /\ Record(fields).outcome = "selected"
        /\ Record(fields).selected = id
    BY <1>1, <1>4, <2>1, RuleIsSound
  <2>3. stage' = "done" /\ record' = Record(fields)
    BY <1>4, <2>1 DEF Decided
  <2>4. Settles
    BY <2>2, <2>3 DEF Settles
  <2>5. Agrees
    <3>1. ASSUME NEW i \in 1..Len(trusted), trusted[i].request = request, trusted[i].outcome = "selected"
          PROVE  trusted[i].selected = id
      BY <1>1, <1>4, <3>1 DEF Sound, Ruling
    <3> QED BY <2>2, <2>3, <3>1 DEF Agrees
  <2> QED BY <2>4, <2>5
<1>5. CASE ProvenTable(request) # NoCandidate
  <2>1. PICK id : id = ProvenTable(request).id
    OBVIOUS
  <2>2. /\ Ruled(request) /\ id = RuleChoice(request)
        /\ Decided(Record([source |-> "deterministic", selected |-> id, confidence |-> 100]))
    BY <1>3, <1>5, <2>1 DEF Ruled, RuleChoice
  <2> QED BY <1>4, <2>2
<1>6. CASE ProvenTable(request) = NoCandidate /\ AutoAccepts(request)
  <2>1. PICK id, confidence : id = candidates[1].id /\ confidence = candidates[1].score
    OBVIOUS
  <2>2. /\ Ruled(request) /\ id = RuleChoice(request)
        /\ Decided(Record([source |-> "deterministic", selected |-> id, confidence |-> confidence]))
    BY <1>3, <1>6, <2>1 DEF Ruled, RuleChoice, candidates
  <2> QED BY <1>4, <2>2
<1>7. CASE ~Ruled(request) /\ usable # <<>>
  <2>1. Decided(Cached(Head(usable)))
    BY <1>3, <1>7 DEF Ruled
  <2>2. usable \in Seq(E)
    <3>. HIDE DEF I
    <3> QED BY <1>2, PickedSeq
  <2>3. PICK m \in 1..Len(trusted) : m \in I /\ usable[1] = trusted[m]
    <3>1. 1 \in 1..Len(usable)
      <4>. HIDE DEF usable
      <4> QED BY <1>7, <2>2
    <3>. HIDE DEF I
    <3> QED BY <1>2, <3>1, PickedMembers
  <2>4. PICK t : t = trusted[m]
    OBVIOUS
  <2>5. Head(usable) = t
    <3>. HIDE DEF usable
    <3> QED BY <1>7, <2>2, <2>3, <2>4
  <2>6. Usable(t) /\ Sound(t)
    BY <1>1, <2>3, <2>4
  <2>7. t.request = request /\ t.outcome = "selected"
    BY <2>6, UsableIsCurrent DEF Sound
  <2>8. Selection(t)
    BY <1>7, <2>6, <2>7 DEF Sound, Review
  <2>9. /\ Sound(Cached(t)) /\ Cached(t).request = t.request /\ Cached(t).outcome = "selected"
        /\ Cached(t).selected = t.selected
    BY <1>7, <2>6, <2>7, <2>8, CachedIsSound
  <2>10. stage' = "done" /\ record' = Cached(t)
    BY <2>1, <2>5 DEF Decided
  <2>11. Settles
    BY <2>7, <2>9, <2>10 DEF Settles
  <2>12. Agrees
    <3>1. ASSUME NEW i \in 1..Len(trusted), trusted[i].request = request, trusted[i].outcome = "selected"
          PROVE  t.selected = trusted[i].selected
      BY <2>4, <2>7, <3>1 DEF AdjudicationInv, TrustIsSound
    <3> QED BY <2>9, <2>10, <3>1 DEF Agrees
  <2> QED BY <2>11, <2>12
<1>8. CASE ~Ruled(request) /\ usable = <<>>
  <2>1. Distrusted
    <3>1. ASSUME NEW i \in 1..Len(trusted), trusted[i].request = request, trusted[i].outcome = "selected"
          PROVE  FALSE
      <4>1. Usable(trusted[i])
        BY <1>8, <3>1, TrustedIsUsable
      <4>2. i \in I
        BY <1>2, <4>1
      <4>. HIDE DEF I
      <4>3. usable # <<>>
        BY <1>2, <4>2, PickedSome
      <4> QED BY <1>8, <4>3
    <3> QED BY <3>1 DEF Distrusted
  <2>2. CASE request.provider = NoProvider
    <3>1. Decided(Deferred(<<"LLM_PROVIDER_UNAVAILABLE">>, <<>>))
      BY <1>3, <1>8, <2>2 DEF Ruled
    <3>2. Unearned(request, <<>>)
      BY DEF Unearned
    <3>3. PICK b : b = <<>>
      OBVIOUS
    <3>4. Settles
      BY <1>1, <1>8, <3>1, <3>2, <3>3, DeferralSettles
    <3> QED BY <2>1, <3>4 DEF Distrusted, Agrees
  <2>3. CASE request.provider # NoProvider
    <3>1. stage' = "primary"
      BY <1>3, <1>8, <2>3 DEF Ruled
    <3> QED BY <1>8, <2>1, <3>1
  <2> QED BY <2>2, <2>3
<1> QED BY <1>5, <1>6, <1>7, <1>8 DEF Ruled

\* A report that is kept is as sound as its record.
LEMMA StoredIsSound ==
  ASSUME NEW t, Sound(t)
  PROVE  /\ Sound(Stored(t)) /\ Stored(t).request = t.request
         /\ Stored(t).outcome = t.outcome /\ Stored(t).selected = t.selected
<1>1. t = [f \in RecordFields |-> t[f]] /\ DOMAIN t = RecordFields
  BY DEF Sound, IsRecord
<1>2. PICK c : c = Stored(t)
  OBVIOUS
<1>3. /\ DOMAIN c = RecordFields /\ c = [f \in RecordFields |-> c[f]]
      /\ \A f \in RecordFields : c[f] = IF f = "snapshot" THEN t.generated # NoCandidate ELSE t[f]
  BY <1>1, <1>2 DEF Stored
<1>4. /\ c.request = t.request /\ c.selected = t.selected /\ c.outcome = t.outcome
      /\ c.source = t.source /\ c.confidence = t.confidence /\ c.codes = t.codes
      /\ c.attempts = t.attempts /\ c.recovery = t.recovery /\ c.method = t.method
      /\ c.consensus = t.consensus /\ c.recoveries = t.recoveries /\ c.generated = t.generated
      /\ c.retries = t.retries /\ c.repairs = t.repairs /\ c.id = t.id
  <2>1. {"request", "selected", "outcome", "source", "confidence", "codes", "attempts", "recovery", "method",
         "consensus", "recoveries", "generated", "retries", "repairs", "id"} \subseteq RecordFields \ {"snapshot"}
    BY DEF RecordFields, CountedFields, BaseFields
  <2> QED BY <1>3, <2>1
<1>5. c.snapshot = (t.generated # NoCandidate)
  <2>1. "snapshot" \in RecordFields
    BY DEF RecordFields, CountedFields, BaseFields
  <2> QED BY <1>3, <2>1
<1>6. IsRecord(c)
  BY <1>3 DEF IsRecord
<1>7. CASE Ruled(t.request)
  <2>1. Ruling(c)
    BY <1>4, <1>7 DEF Sound, Ruling
  <2>2. Sound(c)
    BY <1>4, <1>6, <1>7, <2>1 DEF Sound
  <2> QED BY <1>2, <1>4, <2>2
<1>8. CASE ~Ruled(t.request) /\ Review(t)
  <2>1. Review(c)
    BY <1>4, <1>8 DEF Review
  <2>2. Sound(c)
    BY <1>4, <1>6, <1>8, <2>1 DEF Sound
  <2> QED BY <1>2, <1>4, <2>2
<1>9. CASE ~Ruled(t.request) /\ Selection(t)
  <2>1. IdentityMatches(c)
    <3>1. \A f \in RecordFields \ {"id"} : (IF f = "snapshot" THEN FALSE ELSE c[f]) = (IF f = "snapshot" THEN FALSE ELSE t[f])
      BY <1>3
    <3>2. Identity(c) = Identity(t)
      BY <1>1, <1>3, <3>1 DEF Identity
    <3> QED BY <1>4, <1>9, <3>2 DEF IdentityMatches, Selection
  <2>2. CountsMatch(c)
    BY <1>4, <1>9 DEF Selection, CountsMatch
  <2>3. Made(c)
    <3>1. /\ IsSequence(c.attempts) /\ Len(c.attempts) > 0
          /\ MadeBy(c.request, t, c.attempts, Len(c.attempts))
      BY <1>4, <1>9 DEF Selection, Made
    <3>2. CASE MadeByPrimary(c.request, t, c.attempts, Len(c.attempts))
      BY <1>4, <3>1, <3>2 DEF MadeByPrimary, MadeBy, Made
    <3>3. CASE MadeByRecovery(c.request, t, c.attempts, Len(c.attempts))
      BY <1>4, <3>1, <3>3 DEF MadeByRecovery, Recovering, MadeBy, Made
    <3>4. CASE MadeByTiebreak(c.request, t, c.attempts, Len(c.attempts))
      BY <1>4, <3>1, <3>4 DEF MadeByTiebreak, Recovering, MadeBy, Made
    <3>5. CASE MadeByGeneration(c.request, t, c.attempts, Len(c.attempts))
      BY <1>4, <3>1, <3>5 DEF MadeByGeneration, MadeBy, Made
    <3> QED BY <3>1, <3>2, <3>3, <3>4, <3>5 DEF MadeBy
  <2>4. Selection(c)
    BY <1>4, <1>5, <1>9, <2>1, <2>2, <2>3 DEF Selection
  <2>5. Sound(c)
    BY <1>4, <1>6, <1>9, <2>4 DEF Sound
  <2> QED BY <1>2, <1>4, <2>5
<1> QED BY <1>7, <1>8, <1>9 DEF Sound

\* The next run trusts the reports of the run before, and of those before it.
LEMMA NextRunFacts ==
  ASSUME AdjudicationInv, NEW new \in Requests, NextRun(new) PROVE AdjudicationInv'
<1>1. PICK others \in {<<>>, trusted} : trusted' = <<Stored(record)>> \o others
  BY DEF NextRun
<1>2. request' \in Requests /\ stage' = "idle" /\ attempts' = <<>>
  BY DEF NextRun
<1>3. Sound(record) /\ record.request = request /\ stage = "done"
  BY DEF AdjudicationInv, DecisionIsSound, NextRun
<1>4. PICK r : r = Stored(record)
  OBVIOUS
<1>5. /\ Sound(r) /\ r.request = request /\ r.outcome = record.outcome /\ r.selected = record.selected
  BY <1>3, <1>4, StoredIsSound
<1>6. PICK E : trusted \in Seq(E)
  BY DEF AdjudicationInv, TrustIsSound, IsSequence
<1>7. PICK new_trusted : new_trusted = <<r>> \o others
  OBVIOUS
<1>8. /\ IsSequence(new_trusted) /\ Len(new_trusted) = Len(others) + 1 /\ new_trusted[1] = r
      /\ \A i \in 2..Len(new_trusted) : new_trusted[i] = others[i - 1] /\ i - 1 \in 1..Len(others)
      /\ Len(others) \in Nat
  <2>. DEFINE F == E \cup {r}
  <2>1. trusted \in Seq(F) /\ <<>> \in Seq(F)
    BY <1>6, SeqMonotone
  <2>2. r \in F
    OBVIOUS
  <2>. HIDE DEF F
  <2>3. others \in Seq(F)
    BY <2>1
  <2> QED BY <1>7, <2>2, <2>3 DEF IsSequence
<1>9. \A i \in 1..Len(others) :
        /\ Sound(others[i])
        /\ others[i].request = request /\ others[i].outcome = "selected" =>
             record.outcome = "selected" /\ others[i].selected = record.selected
        /\ \A j \in 1..Len(others) :
             /\ others[i].request = others[j].request
             /\ others[i].outcome = "selected" /\ others[j].outcome = "selected"
             => others[i].selected = others[j].selected
  <2>1. CASE others = <<>>
    BY <2>1
  <2>2. CASE others = trusted
    <3>1. DOMAIN trusted = 1..Len(trusted)
      BY <1>6
    <3>2. \A i \in 1..Len(trusted) :
            /\ Sound(trusted[i])
            /\ \A j \in 1..Len(trusted) :
                 /\ trusted[i].request = trusted[j].request
                 /\ trusted[i].outcome = "selected" /\ trusted[j].outcome = "selected"
                 => trusted[i].selected = trusted[j].selected
      BY DEF AdjudicationInv, TrustIsSound
    <3>3. \A i \in 1..Len(trusted) : trusted[i].request = request /\ trusted[i].outcome = "selected" =>
            record.outcome = "selected" /\ record.selected = trusted[i].selected
      BY <1>3, <3>1 DEF AdjudicationInv, DecisionsReplay
    <3> QED BY <2>2, <3>2, <3>3
  <2> QED BY <2>1, <2>2
<1>10. \A i \in 1..Len(new_trusted) : i = 1 \/ i \in 2..Len(new_trusted)
  BY <1>8
<1>11. \A i \in 1..Len(new_trusted) : Sound(new_trusted[i])
  BY <1>5, <1>8, <1>9, <1>10
<1>12. \A i, j \in 1..Len(new_trusted) :
         /\ new_trusted[i].request = new_trusted[j].request
         /\ new_trusted[i].outcome = "selected" /\ new_trusted[j].outcome = "selected"
         => new_trusted[i].selected = new_trusted[j].selected
  <2>1. ASSUME NEW i \in 1..Len(new_trusted), NEW j \in 1..Len(new_trusted),
               new_trusted[i].request = new_trusted[j].request,
               new_trusted[i].outcome = "selected", new_trusted[j].outcome = "selected"
        PROVE  new_trusted[i].selected = new_trusted[j].selected
    <3>1. CASE i = 1 /\ j = 1
      BY <3>1
    <3>2. CASE i = 1 /\ j \in 2..Len(new_trusted)
      <4>1. new_trusted[j] = others[j - 1] /\ j - 1 \in 1..Len(others) /\ new_trusted[i] = r
        BY <1>8, <3>2
      <4> QED BY <1>5, <1>9, <2>1, <4>1
    <3>3. CASE j = 1 /\ i \in 2..Len(new_trusted)
      <4>1. new_trusted[i] = others[i - 1] /\ i - 1 \in 1..Len(others) /\ new_trusted[j] = r
        BY <1>8, <3>3
      <4> QED BY <1>5, <1>9, <2>1, <4>1
    <3>4. CASE i \in 2..Len(new_trusted) /\ j \in 2..Len(new_trusted)
      <4>1. /\ new_trusted[i] = others[i - 1] /\ i - 1 \in 1..Len(others)
            /\ new_trusted[j] = others[j - 1] /\ j - 1 \in 1..Len(others)
        BY <1>8, <3>4
      <4> QED BY <1>9, <2>1, <4>1
    <3> QED BY <1>10, <3>1, <3>2, <3>3, <3>4
  <2> QED BY <2>1
<1>13. TrustIsSound'
  BY <1>1, <1>4, <1>7, <1>8, <1>11, <1>12 DEF TrustIsSound
<1>14. AuditIsOrderly'
  <2>1. IsSequence(<<>>)
    <3>1. <<>> \in Seq({})
      OBVIOUS
    <3> QED BY <3>1 DEF IsSequence
  <2> QED BY <1>2, <2>1 DEF AuditIsOrderly, ModelStages
<1>15. DecisionIsSound' /\ DecisionsReplay'
  BY <1>2 DEF DecisionIsSound, DecisionsReplay
<1> QED BY <1>2, <1>13, <1>14, <1>15 DEF AdjudicationInv

\* Every step keeps the invariant, one kind of step at a time.
LEMMA AdjudicationStep ==
  ASSUME AdjudicationInv, [Next]_vars PROVE AdjudicationInv'
<1>0. request \in Requests /\ AuditIsOrderly /\ TrustIsSound /\ DecisionIsSound /\ DecisionsReplay
      /\ DOMAIN trusted = 1..Len(trusted)
  BY ADomainOfSequence DEF AdjudicationInv, TrustIsSound
<1>1. CASE Decide
  <2>1. UNCHANGED <<request, attempts, trusted>> /\ attempts = <<>> /\ stage = "idle" /\ IsSequence(attempts)
    BY <1>0, <1>1 DEF Decide, AuditIsOrderly
  <2>2. TrustIsSound'
    BY <1>0, <2>1 DEF TrustIsSound
  <2>3. CASE Settles /\ Agrees
    <3>1. stage' = "done" /\ Sound(record') /\ record'.request = request
      BY <2>3 DEF Settles
    <3>2. AuditIsOrderly'
      BY <2>1, <3>1 DEF AuditIsOrderly, ModelStages
    <3>3. DecisionIsSound'
      BY <2>1, <3>1 DEF DecisionIsSound
    <3>4. DecisionsReplay'
      BY <1>0, <2>1, <2>3, <3>1 DEF DecisionsReplay, Agrees
    <3> QED BY <1>0, <2>1, <2>2, <3>2, <3>3, <3>4 DEF AdjudicationInv
  <2>4. CASE stage' = "primary" /\ ~Ruled(request) /\ Distrusted
    <3>1. Len(attempts) = 0 /\ InPrimary(request, attempts)
      BY <2>1 DEF InPrimary, Tries
    <3>2. AuditIsOrderly'
      BY <2>1, <2>4, <3>1 DEF AuditIsOrderly, ModelStages
    <3>3. DecisionIsSound'
      BY <2>4 DEF DecisionIsSound
    <3>4. DecisionsReplay'
      BY <1>0, <2>1, <2>4 DEF DecisionsReplay, Distrusted
    <3> QED BY <1>0, <2>1, <2>2, <3>2, <3>3, <3>4 DEF AdjudicationInv
  <2> QED BY <1>1, <2>3, <2>4, DecideFacts
<1>2. CASE \/ VoteFails \/ Generation \/ GenerationFails \/ Verification \/ VerificationFails
           \/ \E voting \in VotePhases : UnknownVote(voting) \/ Vote(voting)
  <2>1. Onward /\ IsSequence(attempts') /\ stage \in ModelStages /\ UNCHANGED <<request, trusted>>
    BY <1>0, <1>2, CallFacts
  <2>2. TrustIsSound'
    BY <1>0, <2>1 DEF TrustIsSound
  <2>3. ~Ruled(request) /\ stage \notin {"idle", "done"}
    BY <1>0, <2>1 DEF AuditIsOrderly, ModelStages
  <2>4. DecisionsReplay'
    BY <1>0, <2>1, <2>3 DEF DecisionsReplay
  <2>5. CASE Settles
    <3>1. stage' = "done" /\ Sound(record') /\ record'.request = request
      BY <2>5 DEF Settles
    <3>2. AuditIsOrderly'
      BY <2>1, <3>1 DEF AuditIsOrderly, ModelStages
    <3>3. DecisionIsSound'
      BY <2>1, <3>1 DEF DecisionIsSound
    <3> QED BY <1>0, <2>1, <2>2, <2>4, <3>2, <3>3 DEF AdjudicationInv
  <2>6. CASE stage' = "raised"
    <3>1. AuditIsOrderly'
      BY <2>1, <2>6 DEF AuditIsOrderly, ModelStages
    <3>2. DecisionIsSound'
      BY <2>6 DEF DecisionIsSound
    <3> QED BY <1>0, <2>1, <2>2, <2>4, <3>1, <3>2 DEF AdjudicationInv
  <2>7. CASE /\ stage' \in ModelStages
             /\ stage' = "primary" => InPrimary(request, attempts')
             /\ stage' = "recovery" => InRecovery(request, attempts')
             /\ stage' = "tiebreak" => InTiebreak(request, attempts')
             /\ stage' = "generation" => InGeneration(request, attempts')
             /\ stage' = "verification" => InVerification(request, attempts')
    <3>1. stage' # "idle" /\ stage' # "done"
      BY <2>7 DEF ModelStages
    <3>2. AuditIsOrderly'
      BY <2>1, <2>3, <2>7, <3>1 DEF AuditIsOrderly
    <3>3. DecisionIsSound'
      BY <3>1 DEF DecisionIsSound
    <3> QED BY <1>0, <2>1, <2>2, <2>4, <3>2, <3>3 DEF AdjudicationInv
  <2> QED BY <2>1, <2>5, <2>6, <2>7 DEF Onward
<1>3. CASE \E new \in Requests : NextRun(new)
  BY <1>3, NextRunFacts
<1>4. CASE UNCHANGED vars
  BY <1>0, <1>4 DEF vars, AdjudicationInv, AuditIsOrderly, TrustIsSound, DecisionIsSound, DecisionsReplay
<1> QED BY <1>1, <1>2, <1>3, <1>4 DEF Next

\* The first run has nothing to trust.
LEMMA AdjudicationInit == Init => AdjudicationInv
<1>1. IsSequence(<<>>) /\ Len(<<>>) = 0
  <2>1. <<>> \in Seq({})
    OBVIOUS
  <2> QED BY <2>1 DEF IsSequence
<1>2. ASSUME Init PROVE AdjudicationInv
  <2>1. request \in Requests /\ stage = "idle" /\ attempts = <<>> /\ trusted = <<>>
    BY <1>2 DEF Init
  <2>2. AuditIsOrderly
    BY <1>1, <2>1 DEF AuditIsOrderly, ModelStages
  <2>3. TrustIsSound /\ DecisionIsSound
    BY <1>1, <2>1 DEF TrustIsSound, DecisionIsSound
  <2>4. DecisionsReplay
    BY <2>1 DEF DecisionsReplay
  <2> QED BY <2>1, <2>2, <2>3, <2>4 DEF AdjudicationInv
<1> QED BY <1>2

\* The invariant of every run.
LEMMA AdjudicationInvariant == Spec => []AdjudicationInv
<1>1. AdjudicationInv /\ [Next]_vars => AdjudicationInv'
  BY AdjudicationStep
<1> QED BY <1>1, AdjudicationInit, PTL DEF Spec

(* For any requests, candidates, policies, runs and answers: a decision of *)
(* the model is selected exactly when the attempts it keeps earn it - one  *)
(* confident vote, two that agree, or a verified repair - and is left to   *)
(* review without a defect otherwise (CandidateAdjudicator.decide).        *)
THEOREM EarnedDecisions == Spec => []DecisionsAreEarned
<1>1. AdjudicationInv => DecisionsAreEarned
  <2>1. ASSUME AdjudicationInv, stage = "done" PROVE DecisionsAreEarned
    <3>1. Sound(record) /\ record.request = request /\ request \in Requests
      BY <2>1 DEF AdjudicationInv, DecisionIsSound
    <3> QED BY <2>1, <3>1, SoundIsEarned
  <2>2. ASSUME stage # "done" PROVE DecisionsAreEarned
    BY <2>2 DEF DecisionsAreEarned
  <2> QED BY <2>1, <2>2
<1> QED BY <1>1, AdjudicationInvariant, PTL

(* For any requests, runs and answers: what a run trusts as selected is    *)
(* what it decides for the same request, without a call of the model       *)
(* (_trusted_decision_matches, _cached_record).                            *)
THEOREM StandingDecisions == Spec => []DecisionsReplay
<1>1. AdjudicationInv => DecisionsReplay
  BY DEF AdjudicationInv
<1> QED BY <1>1, AdjudicationInvariant, PTL

(***************************************************************************)
(* Replay between products                                                 *)
(***************************************************************************)
ReplaySpec == ReplayInit /\ [][ReplayNext]_replayVars

ReplayInv == ReplayTypeOK /\ RunsAgree /\ SameSourceSameBytes

\* A branch after a step of its product, and the others.
LEMMA BranchStep ==
  ASSUME ReplayTypeOK, NEW p \in Products, NEW b, branch' = [branch EXCEPT ![p] = b]
  PROVE  /\ branch'[p] = b
         /\ \A q \in Products : q # p => branch'[q] = branch[q]
  BY DEF ReplayTypeOK

LEMMA RunStep ==
  ASSUME ReplayTypeOK, NEW p \in Products, NEW r, branch' = [branch EXCEPT ![p].run = r]
  PROVE  /\ branch'[p] = [doc |-> branch[p].doc, contains |-> branch[p].contains, run |-> r]
         /\ \A q \in Products : q # p => branch'[q] = branch[q]
  BY DEF ReplayTypeOK

\* A step that leaves the default branch alone and gives a product a run of the latest
\* revision that agrees with it, or none, keeps the invariant.
LEMMA KeepsInv ==
  ASSUME ReplayInv, UNCHANGED <<main, revision>>, NEW p \in Products,
         branch' \in [Products -> [doc : Documents \cup {"none"}, contains : 0..revision,
                                   run : {NoRun, Failed} \cup Published]],
         \A q \in Products : q # p => branch'[q] = branch[q],
         branch'[p].run.state = "published" =>
           /\ branch'[p].run.base = revision
           /\ \A q \in Products : Agree(branch'[p].run.artifacts, main[q])
  PROVE  ReplayInv'
<1>1. ReplayTypeOK'
  BY DEF ReplayInv, ReplayTypeOK
<1>2. branch'[p].contains <= revision /\ revision \in Nat
  BY DEF ReplayInv, ReplayTypeOK
<1>3. RunsAgree'
  <2> SUFFICES ASSUME NEW q \in Products, branch'[q].run.state = "published"
               PROVE  /\ branch'[q].contains <= branch'[q].run.base /\ branch'[q].run.base <= revision
                      /\ branch'[q].run.base = revision
                           => \A r \in Products : Agree(branch'[q].run.artifacts, main[r])
    BY DEF RunsAgree
  <2>1. CASE q = p
    BY <2>1, <1>2
  <2>2. CASE q # p
    BY <2>2 DEF ReplayInv, RunsAgree
  <2> QED BY <2>1, <2>2
<1>4. SameSourceSameBytes'
  BY DEF ReplayInv, SameSourceSameBytes
<1> QED BY <1>1, <1>3, <1>4 DEF ReplayInv

\* What a run publishes is well formed and agrees with every baseline.
LEMMA ResultAgrees ==
  ASSUME ReplayInv, NEW p \in Products, branch[p].doc \in Documents,
         NEW mode \in {"candidate", "shadow"}, NEW setup \in Setups,
         NEW answers \in [Questions -> Answers \cup {Undecided}], NEW asked \in SUBSET Questions
  PROVE  LET r == Result(p, mode, setup, answers, asked)
         IN  /\ r \in {Failed} \cup Published
             /\ r.state = "published" => /\ r.base = revision
                                        /\ \A q \in Products : Agree(r.artifacts, main[q])
<1> DEFINE doc == branch[p].doc
           made == Artifacts(doc, mode, setup, answers)
           r == Result(p, mode, setup, answers, asked)
<1>1. made \in Deciding
  BY DEF Artifacts, Deciding, Status, Texts
<1>2. CASE r = Failed
  BY <1>2 DEF Failed
<1>3. CASE r # Failed
  <2>1. /\ r = [state |-> "published", base |-> revision, asked |-> asked, artifacts |-> made]
        /\ ~Mismatch(doc, IdentityOf(doc, setup, answers), Render(doc, answers))
    BY <1>3 DEF Result
  <2>2. r \in Published /\ r.base = revision /\ r.artifacts = made
    BY <1>1, <2>1 DEF Published, ReplayInv, ReplayTypeOK
  <2>3. ASSUME NEW q \in Products PROVE Agree(made, main[q])
    <3> SUFFICES ASSUME IsVerified(made), IsVerified(main[q]),
                        ReplayIdentity(made) = ReplayIdentity(main[q])
                 PROVE  made.text = main[q].text
      BY DEF Agree
    <3>1. /\ made.doc = doc /\ made.setup = setup /\ made.answers = answers
          /\ made.text = Render(doc, answers)
      BY DEF Artifacts, IsVerified
    <3>2. ReplayIdentity(main[q]) = IdentityOf(doc, setup, answers)
      BY <3>1 DEF ReplayIdentity
    <3>3. main[q].doc = doc
      BY <3>2 DEF ReplayIdentity, IdentityOf
    <3>4. q \in Baselines(doc)
      BY <3>3 DEF Baselines, Matching, IsVerified
    <3>5. main[q].text \in Expected(doc, IdentityOf(doc, setup, answers))
      BY <3>2, <3>4 DEF Expected
    <3> QED BY <2>1, <3>1, <3>5 DEF Mismatch
  <2> QED BY <2>2, <2>3
<1> QED BY <1>2, <1>3

\* A run in the place of another.
LEMMA RunKeepsInv ==
  ASSUME ReplayInv, UNCHANGED <<main, revision>>, NEW p \in Products,
         NEW r \in {NoRun, Failed} \cup Published, branch' = [branch EXCEPT ![p].run = r],
         r.state = "published" => /\ r.base = revision
                                  /\ \A q \in Products : Agree(r.artifacts, main[q])
  PROVE  ReplayInv'
<1>0. /\ branch'[p] = [doc |-> branch[p].doc, contains |-> branch[p].contains, run |-> r]
      /\ \A q \in Products : q # p => branch'[q] = branch[q]
  <2>1. ReplayTypeOK
    BY DEF ReplayInv
  <2> QED BY <2>1, RunStep
<1>1. branch'[p].run = r
  BY <1>0
<1>2. branch' \in [Products -> [doc : Documents \cup {"none"}, contains : 0..revision,
                               run : {NoRun, Failed} \cup Published]]
  BY DEF ReplayInv, ReplayTypeOK
<1> QED BY <1>0, <1>1, <1>2, KeepsInv

LEMMA ProcessStep ==
  ASSUME ReplayInv, NEW p \in Products, NEW mode \in Modes, NEW setup \in Setups,
         Process(p, mode, setup)
  PROVE  ReplayInv'
<1> DEFINE Asked(answers) ==
             {q \in Questions : Trusted(p, branch[p].doc,
                                       RequestHash(branch[p].doc, setup, answers, q), q) = {}}
<1>0. PICK answers \in [Questions -> Answers \cup {Undecided}] :
        \/ branch' = [branch EXCEPT ![p].run = Result(p, mode, setup, answers, Asked(answers))]
        \/ branch' = [branch EXCEPT ![p].run = Failed]
  BY Zenon DEF Process
<1>1. PICK asked \in SUBSET Questions :
        \/ branch' = [branch EXCEPT ![p].run = Result(p, mode, setup, answers, asked)]
        \/ branch' = [branch EXCEPT ![p].run = Failed]
  <2>1. Asked(answers) \in SUBSET Questions
    OBVIOUS
  <2> QED BY <1>0, <2>1, Zenon
<1>2. mode \in {"candidate", "shadow"} /\ branch[p].doc \in Documents /\ UNCHANGED <<main, revision>>
  BY DEF Process, Modes
<1>3. CASE branch' = [branch EXCEPT ![p].run = Result(p, mode, setup, answers, asked)]
  BY <1>2, <1>3, ResultAgrees, RunKeepsInv
<1>4. CASE branch' = [branch EXCEPT ![p].run = Failed]
  BY <1>2, <1>4, RunKeepsInv DEF Failed
<1> QED BY <1>1, <1>3, <1>4

LEMMA LegacyStep ==
  ASSUME ReplayInv, NEW p \in Products, ProcessLegacy(p)
  PROVE  ReplayInv'
<1> DEFINE made == [NoArtifacts EXCEPT !.doc = branch[p].doc, !.mode = "legacy",
                                       !.status = "legacy", !.text = "legacy"]
           r == [state |-> "published", base |-> revision, asked |-> {}, artifacts |-> made]
<1>1. made \in Undeciding /\ made.mode = "legacy"
  BY DEF Undeciding, NoArtifacts, ProcessLegacy
<1>2. r \in Published /\ r.base = revision /\ r.artifacts = made
  BY <1>1 DEF Published, ReplayInv, ReplayTypeOK
<1>3. \A q \in Products : Agree(made, main[q])
  BY <1>1 DEF Agree, IsVerified
<1>4. /\ UNCHANGED <<main, revision>>
      /\ branch' = [branch EXCEPT ![p].run = Failed] \/ branch' = [branch EXCEPT ![p].run = r]
  BY DEF ProcessLegacy
<1>5. CASE branch' = [branch EXCEPT ![p].run = Failed]
  BY <1>4, <1>5, RunKeepsInv DEF Failed
<1>6. CASE branch' = [branch EXCEPT ![p].run = r]
  <2> HIDE DEF made, r
  <2> QED BY <1>2, <1>3, <1>4, <1>6, RunKeepsInv
<1> QED BY <1>4, <1>5, <1>6

LEMMA PushStep ==
  ASSUME ReplayInv, NEW p \in Products, NEW doc \in Documents, Push(p, doc)
  PROVE  ReplayInv'
<1>1. /\ branch'[p] = [doc |-> doc, contains |-> revision, run |-> NoRun]
      /\ \A q \in Products : q # p => branch'[q] = branch[q]
      /\ UNCHANGED <<main, revision>>
  BY BranchStep DEF Push, ReplayInv
<1>2. branch' \in [Products -> [doc : Documents \cup {"none"}, contains : 0..revision,
                               run : {NoRun, Failed} \cup Published]]
  BY DEF ReplayInv, ReplayTypeOK, Push
<1> QED BY <1>1, <1>2, KeepsInv DEF NoRun

LEMMA RetryStep ==
  ASSUME ReplayInv, NEW p \in Products, Retry(p)
  PROVE  ReplayInv'
  BY RunKeepsInv DEF Retry, NoRun

LEMMA SyncStep ==
  ASSUME ReplayInv, NEW p \in Products, SyncBase(p)
  PROVE  ReplayInv'
<1> DEFINE b == [doc |-> branch[p].doc, contains |-> revision, run |-> NoRun]
<1>1. branch' = [branch EXCEPT ![p] = b] /\ UNCHANGED <<main, revision>>
  BY DEF SyncBase
<1>2. branch'[p] = b /\ \A q \in Products : q # p => branch'[q] = branch[q]
  BY <1>1, BranchStep DEF ReplayInv
<1>3. branch' \in [Products -> [doc : Documents \cup {"none"}, contains : 0..revision,
                               run : {NoRun, Failed} \cup Published]]
  BY <1>1 DEF ReplayInv, ReplayTypeOK
<1> QED BY <1>1, <1>2, <1>3, KeepsInv DEF NoRun

\* What is merged was decided on top of the default branch, so it agrees with it, and
\* the runs of other branches are then of an earlier revision.
LEMMA MergeStep ==
  ASSUME Strict, ReplayInv, NEW p \in Products, Merge(p)
  PROVE  ReplayInv'
<1> DEFINE made == branch[p].run.artifacts
<1>1. /\ branch[p].run.state = "published" /\ branch[p].contains = revision
      /\ main' = [main EXCEPT ![p] = made] /\ revision' = revision + 1
      /\ branch' = [branch EXCEPT ![p] = [doc |-> "none", contains |-> revision, run |-> NoRun]]
  BY DEF Merge, UpToDate
<1>2. branch[p].run \in Published /\ revision \in Nat
  BY <1>1 DEF ReplayInv, ReplayTypeOK, NoRun, Failed
<1>3. made \in Deciding \cup Undeciding /\ branch[p].run.base \in Nat
  BY <1>2 DEF Published
<1>4. \A q \in Products : Agree(made, main[q])
  BY <1>1, <1>2, <1>3 DEF ReplayInv, RunsAgree
<1>5. ReplayTypeOK'
  BY <1>1, <1>2, <1>3 DEF ReplayInv, ReplayTypeOK
<1>6. SameSourceSameBytes'
  <2> SUFFICES ASSUME NEW q \in Products, NEW r \in Products PROVE Agree(main'[q], main'[r])
    BY DEF SameSourceSameBytes
  <2>1. \A s \in Products : main'[s] = IF s = p THEN made ELSE main[s]
    BY <1>1 DEF ReplayInv, ReplayTypeOK
  <2>2. Agree(main[q], main[r]) /\ Agree(made, main[r]) /\ Agree(made, main[q])
    BY <1>4 DEF ReplayInv, SameSourceSameBytes
  <2>3. Agree(main[q], made) /\ Agree(made, made)
    BY <2>2 DEF Agree
  <2> QED BY <2>1, <2>2, <2>3
<1>7. RunsAgree'
  <2> SUFFICES ASSUME NEW q \in Products, branch'[q].run.state = "published"
               PROVE  /\ branch'[q].contains <= branch'[q].run.base /\ branch'[q].run.base <= revision'
                      /\ branch'[q].run.base # revision'
    BY DEF RunsAgree
  <2>1. q # p
    BY <1>1 DEF ReplayInv, ReplayTypeOK, NoRun
  <2>2. branch'[q] = branch[q]
    BY <1>1, <2>1 DEF ReplayInv, ReplayTypeOK
  <2>3. /\ branch[q].run.state = "published"
        /\ branch[q].contains <= branch[q].run.base /\ branch[q].run.base <= revision
    BY <2>2 DEF ReplayInv, RunsAgree
  <2>4. branch[q].run \in Published
    BY <2>3 DEF ReplayInv, ReplayTypeOK, NoRun, Failed
  <2>5. branch[q].run.base \in Nat
    BY <2>4 DEF Published
  <2> QED BY <1>1, <1>2, <2>2, <2>3, <2>5
<1> QED BY <1>5, <1>6, <1>7 DEF ReplayInv

LEMMA ReplayInitially == ReplayInit => ReplayInv
<1> SUFFICES ASSUME ReplayInit PROVE ReplayInv
  OBVIOUS
<1>1. NoArtifacts \in Undeciding /\ NoArtifacts.mode = "none"
  BY DEF NoArtifacts, Undeciding
<1>2. ReplayTypeOK
  BY <1>1 DEF ReplayInit, ReplayTypeOK
<1>3. RunsAgree
  BY DEF ReplayInit, RunsAgree, NoRun
<1>4. SameSourceSameBytes
  BY <1>1 DEF ReplayInit, SameSourceSameBytes, Agree, IsVerified
<1> QED BY <1>2, <1>3, <1>4 DEF ReplayInv

\* Under strict protection, verified products with one document and one replay identity
\* have the same bytes, for any products, documents, questions and renderings.
THEOREM SameSource ==
  ASSUME Strict PROVE ReplaySpec => []SameSourceSameBytes
<1>1. ReplayInit => ReplayInv
  BY ReplayInitially
<1>2. ReplayInv /\ [ReplayNext]_replayVars => ReplayInv'
  <2> SUFFICES ASSUME ReplayInv, [ReplayNext]_replayVars PROVE ReplayInv'
    OBVIOUS
  <2>1. CASE UNCHANGED replayVars
    BY <2>1 DEF replayVars, ReplayInv, ReplayTypeOK, RunsAgree, SameSourceSameBytes
  <2>2. CASE ReplayNext
    <3>1. PICK p \in Products :
            \/ \E doc \in Documents : Push(p, doc)
            \/ \E mode \in Modes, setup \in Setups : Process(p, mode, setup)
            \/ ProcessLegacy(p) \/ Retry(p) \/ SyncBase(p) \/ Merge(p)
      BY <2>2 DEF ReplayNext
    <3>2. ASSUME NEW doc \in Documents, Push(p, doc) PROVE ReplayInv'
      BY <3>2, PushStep
    <3>3. ASSUME NEW mode \in Modes, NEW setup \in Setups, Process(p, mode, setup) PROVE ReplayInv'
      BY <3>3, ProcessStep
    <3>4. ASSUME ProcessLegacy(p) \/ Retry(p) \/ SyncBase(p) \/ Merge(p) PROVE ReplayInv'
      BY <3>4, LegacyStep, RetryStep, SyncStep, MergeStep
    <3> QED BY <3>1, <3>2, <3>3, <3>4
  <2> QED BY <2>1, <2>2
<1>3. ReplayInv => SameSourceSameBytes
  BY DEF ReplayInv
<1> QED BY <1>1, <1>2, <1>3, PTL DEF ReplaySpec

-----------------------------------------------------------------------------
(* What a run asks *)

\* A document without open questions is the only one to be verified.
DecidedWhole(artifacts) ==
  artifacts.mode = "candidate" /\ artifacts.status = "verified" =>
    \A q \in Questions : artifacts.answers[q] # Undecided

AsksNothingKnown(run) ==
  run.artifacts.mode # "legacy" =>
    \A q \in Products :
      q \in Baselines(run.artifacts.doc) /\ ReplayIdentity(main[q]) = ReplayIdentity(run.artifacts)
      => run.asked = {}

RunAsks(run) ==
  run.state = "published" =>
    /\ run.base \in Nat /\ run.base <= revision /\ DecidedWhole(run.artifacts)
    /\ run.base = revision => AsksNothingKnown(run)

AskInv ==
  /\ revision \in Nat /\ DOMAIN main = Products /\ DOMAIN branch = Products
  /\ \A p \in Products : /\ DOMAIN branch[p] = {"doc", "contains", "run"}
                         /\ DecidedWhole(main[p]) /\ RunAsks(branch[p].run)

\* A request names its question, so one identity means one request for every question.
LEMMA SameRequest ==
  ASSUME NEW d1, NEW s1, NEW a1, NEW d2, NEW s2, NEW a2,
         IdentityOf(d1, s1, a1) = IdentityOf(d2, s2, a2), NEW q \in Questions
  PROVE  RequestHash(d1, s1, a1, q) = RequestHash(d2, s2, a2, q)
<1>1. RequestHash(d2, s2, a2, q) \in {RequestHash(d1, s1, a1, r) : r \in Questions}
  BY DEF IdentityOf
<1>2. PICK r \in Questions : RequestHash(d1, s1, a1, r) = RequestHash(d2, s2, a2, q)
  BY <1>1
<1>3. r = q
  BY <1>2 DEF RequestHash
<1> QED BY <1>2, <1>3

\* A baseline with the identity of a run answers every question of it.
LEMMA BaselineAnswers ==
  ASSUME AskInv, NEW p \in Products, NEW b \in Products, NEW doc, NEW setup, NEW answers,
         b \in Baselines(doc), ReplayIdentity(main[b]) = IdentityOf(doc, setup, answers),
         NEW q \in Questions
  PROVE  Trusted(p, doc, RequestHash(doc, setup, answers, q), q) # {}
<1> DEFINE reading == RequestHash(doc, setup, answers, q)
<1>1. main[b].mode = "candidate" /\ main[b].status = "verified" /\ main[b].answers[q] # Undecided
  BY DEF Baselines, Matching, AskInv, DecidedWhole
<1>2. RequestHash(main[b].doc, main[b].setup, main[b].answers, q) = reading
  BY SameRequest DEF ReplayIdentity
<1> HIDE DEF reading
<1>3. main[b].answers[q] \in Answered(main[b], reading, q)
  BY <1>1, <1>2 DEF Answered
<1>4. Answered(main[b], reading, q) \subseteq UNION {Answered(main[r], reading, q) : r \in TrustedProducts(doc)}
  BY DEF TrustedProducts
<1> QED BY <1>3, <1>4 DEF Trusted, reading

LEMMA PublishedAsks ==
  ASSUME AskInv, NEW p \in Products, NEW mode, NEW setup, NEW answers, NEW asked,
         asked = {q \in Questions :
                    Trusted(p, branch[p].doc, RequestHash(branch[p].doc, setup, answers, q), q) = {}}
  PROVE  RunAsks(Result(p, mode, setup, answers, asked))
<1> DEFINE doc == branch[p].doc
           made == Artifacts(doc, mode, setup, answers)
           r == [state |-> "published", base |-> revision, asked |-> asked, artifacts |-> made]
<1>1. Result(p, mode, setup, answers, asked) \in {Failed, r}
  BY DEF Result
<1>2. RunAsks(Failed)
  BY DEF RunAsks, Failed
<1>3. made.doc = doc /\ made.setup = setup /\ made.answers = answers /\ made.status = Status(answers)
  BY DEF Artifacts
<1>4. r.base = revision /\ r.asked = asked /\ r.artifacts = made
  OBVIOUS
<1> HIDE DEF made, r
<1>5. DecidedWhole(made)
  BY <1>3 DEF DecidedWhole, Status
<1>6. ASSUME NEW b \in Products, b \in Baselines(doc), ReplayIdentity(main[b]) = ReplayIdentity(made)
      PROVE  asked = {}
  <2>1. ReplayIdentity(main[b]) = IdentityOf(doc, setup, answers)
    BY <1>3, <1>6 DEF ReplayIdentity
  <2>2. \A q \in Questions : Trusted(p, doc, RequestHash(doc, setup, answers, q), q) # {}
    BY <1>6, <2>1, BaselineAnswers
  <2> QED BY <2>2
<1>7. AsksNothingKnown(r)
  BY <1>3, <1>4, <1>6 DEF AsksNothingKnown
<1>8. RunAsks(r)
  BY <1>4, <1>5, <1>7 DEF RunAsks, AskInv
<1> QED BY <1>1, <1>2, <1>8

\* A step of one branch, whose run asks nothing that is known.
LEMMA BranchAsks ==
  ASSUME AskInv, UNCHANGED <<main, revision>>, NEW p \in Products, NEW r, RunAsks(r),
         \/ branch' = [branch EXCEPT ![p].run = r]
         \/ \E d, c : branch' = [branch EXCEPT ![p] = [doc |-> d, contains |-> c, run |-> r]]
  PROVE  AskInv'
<1>1. /\ DOMAIN branch' = Products /\ branch'[p].run = r
      /\ DOMAIN branch'[p] = {"doc", "contains", "run"}
      /\ \A q \in Products \ {p} : branch'[q] = branch[q]
  BY DEF AskInv
<1>2. \A x : RunAsks(x) => RunAsks(x)'
  BY DEF RunAsks, AsksNothingKnown, Baselines, Matching
<1>3. \A q \in Products : RunAsks(branch'[q].run)
  BY <1>1 DEF AskInv
<1>4. \A q \in Products : RunAsks(branch[q].run)'
  BY <1>2, <1>3
<1> QED BY <1>1, <1>4 DEF AskInv

LEMMA NoneAsks == RunAsks(NoRun) /\ RunAsks(Failed)
BY DEF RunAsks, NoRun, Failed

LEMMA MergeAsks ==
  ASSUME AskInv, NEW p \in Products, Merge(p)
  PROVE  AskInv'
<1>1. /\ branch[p].run.state = "published" /\ revision' = revision + 1
      /\ main' = [main EXCEPT ![p] = branch[p].run.artifacts]
      /\ branch' = [branch EXCEPT ![p] = [doc |-> "none", contains |-> revision, run |-> NoRun]]
  BY DEF Merge
<1>2. DecidedWhole(branch[p].run.artifacts) /\ revision \in Nat
  BY <1>1 DEF AskInv, RunAsks
<1>3. \A q \in Products : DecidedWhole(main'[q])
  BY <1>1, <1>2 DEF AskInv
<1>4. ASSUME NEW q \in Products PROVE RunAsks(branch[q].run)' /\ DOMAIN branch'[q] = {"doc", "contains", "run"}
  <2>1. CASE q = p
    <3>1. branch'[q] = [doc |-> "none", contains |-> revision, run |-> NoRun]
      BY <1>1, <2>1 DEF AskInv
    <3> QED BY <3>1 DEF RunAsks, NoRun
  <2>2. CASE q # p
    <3>1. branch'[q] = branch[q] /\ RunAsks(branch[q].run)
      BY <1>1, <2>2 DEF AskInv
    <3> QED BY <1>1, <1>2, <3>1 DEF RunAsks, AskInv
  <2> QED BY <2>1, <2>2
<1>5. revision' \in Nat /\ DOMAIN main' = Products /\ DOMAIN branch' = Products
  BY <1>1, <1>2 DEF AskInv
<1>6. \A q \in Products : DecidedWhole(main[q])'
  BY <1>3 DEF DecidedWhole
<1> QED BY <1>4, <1>5, <1>6 DEF AskInv

LEMMA EveryStepAsks ==
  ASSUME AskInv, [ReplayNext]_replayVars
  PROVE  AskInv'
<1>1. CASE UNCHANGED replayVars
  BY <1>1 DEF replayVars, AskInv, RunAsks, AsksNothingKnown, Baselines, Matching
<1>2. ASSUME NEW p \in Products, NEW doc \in Documents, Push(p, doc)
      PROVE  AskInv'
  BY <1>2, NoneAsks, BranchAsks DEF Push
<1>3. ASSUME NEW p \in Products, NEW mode \in Modes, NEW setup \in Setups, Process(p, mode, setup)
      PROVE  AskInv'
  <2> DEFINE Asked(answers) ==
               {q \in Questions : Trusted(p, branch[p].doc,
                                         RequestHash(branch[p].doc, setup, answers, q), q) = {}}
  <2>1. PICK answers \in [Questions -> Answers \cup {Undecided}] :
          \/ branch' = [branch EXCEPT ![p].run = Result(p, mode, setup, answers, Asked(answers))]
          \/ branch' = [branch EXCEPT ![p].run = Failed]
    BY <1>3, Zenon DEF Process
  <2>2. RunAsks(Result(p, mode, setup, answers, Asked(answers)))
    BY <1>3, PublishedAsks
  <2>3. UNCHANGED <<main, revision>>
    BY <1>3 DEF Process
  <2> HIDE DEF Asked
  <2> QED BY <1>3, <2>1, <2>2, <2>3, NoneAsks, BranchAsks
<1>4. ASSUME NEW p \in Products, ProcessLegacy(p)
      PROVE  AskInv'
  <2> DEFINE made == [NoArtifacts EXCEPT !.doc = branch[p].doc, !.mode = "legacy",
                                         !.status = "legacy", !.text = "legacy"]
             r == [state |-> "published", base |-> revision, asked |-> {}, artifacts |-> made]
  <2>1. made.mode = "legacy"
    BY DEF NoArtifacts
  <2>2. UNCHANGED <<main, revision>>
        /\ (branch' = [branch EXCEPT ![p].run = Failed] \/ branch' = [branch EXCEPT ![p].run = r])
    BY <1>4 DEF ProcessLegacy
  <2> HIDE DEF made
  <2>3. RunAsks(r)
    BY <2>1 DEF RunAsks, DecidedWhole, AsksNothingKnown, AskInv
  <2> HIDE DEF r
  <2> QED BY <1>4, <2>2, <2>3, NoneAsks, BranchAsks
<1>5. ASSUME NEW p \in Products, Retry(p) \/ SyncBase(p)
      PROVE  AskInv'
  BY <1>5, NoneAsks, BranchAsks DEF Retry, SyncBase
<1>6. ASSUME NEW p \in Products, Merge(p)
      PROVE  AskInv'
  BY <1>6, MergeAsks
<1> QED BY <1>1, <1>2, <1>3, <1>4, <1>5, <1>6 DEF ReplayNext

\* A run whose document a verified product of its base decided by the same requests asks
\* no model, with and without strict protection, for any products, questions and answers.
THEOREM NothingIsAskedTwice == ReplaySpec => []ReplayAsksNothing
<1>1. ReplayInit => AskInv
  <2> SUFFICES ASSUME ReplayInit PROVE AskInv
    OBVIOUS
  <2>1. NoArtifacts.mode = "none"
    BY DEF NoArtifacts
  <2>2. /\ revision = 1 /\ main = [p \in Products |-> NoArtifacts]
        /\ branch = [p \in Products |-> [doc |-> "none", contains |-> 1, run |-> NoRun]]
    BY DEF ReplayInit
  <2> QED BY <2>1, <2>2, NoneAsks DEF AskInv, DecidedWhole
<1>2. AskInv /\ [ReplayNext]_replayVars => AskInv'
  BY EveryStepAsks
<1>3. AskInv => ReplayAsksNothing
  BY DEF AskInv, RunAsks, AsksNothingKnown, ReplayAsksNothing
<1> QED BY <1>1, <1>2, <1>3, PTL DEF ReplaySpec

(***************************************************************************)
(* Blocks, and the spans they hold                                         *)
(***************************************************************************)

BlockKinds == {"text", "table", "regrid", "exclude", "lossless"}
Blocks == [kind : BlockKinds, spans : Seq(Nat)]
SpansOf(blocks) == UNION {ToSet(b.spans) : b \in ToSet(blocks)}

\* No block is empty or twice there, and no span is in two places.
Full(blocks) == \A b \in ToSet(blocks) : b.spans # <<>>
Once(blocks) ==
  /\ blocks \in Seq(Blocks) /\ IsInjective(blocks) /\ Full(blocks)
  /\ \A b \in ToSet(blocks) : IsInjective(b.spans)
  /\ \A b, c \in ToSet(blocks) : b # c => ToSet(b.spans) \cap ToSet(c.spans) = {}

\* The spans of the blocks, each in its order.
Spread(blocks) == [i \in DOMAIN blocks |-> blocks[i].spans]

\* What is allocated is the spans of the blocks, one after another.
LEMMA SpreadFacts ==
  ASSUME NEW blocks \in Seq(Blocks)
  PROVE  /\ Spread(blocks) \in Seq(Seq(Nat)) /\ DOMAIN Spread(blocks) = DOMAIN blocks
         /\ Len(Spread(blocks)) = Len(blocks) /\ Allocated(blocks) = FlattenSeq(Spread(blocks))
         /\ \A i \in DOMAIN blocks : Spread(blocks)[i] = blocks[i].spans
<1>1. PICK n \in Nat : n = Len(blocks)
  OBVIOUS
<1>2. DOMAIN blocks = 1..n /\ \A i \in 1..n : blocks[i] \in Blocks
  BY <1>1
<1>3. \A i \in 1..n : blocks[i].spans \in Seq(Nat)
  BY <1>2 DEF Blocks
<1>4. Spread(blocks) \in Seq(Seq(Nat)) /\ Len(Spread(blocks)) = n /\ DOMAIN Spread(blocks) = 1..n
  BY <1>2, <1>3 DEF Spread
<1> QED BY <1>1, <1>2, <1>4 DEF Allocated, Spread

\* The blocks hold what they allocate.
LEMMA AllocatedRange ==
  ASSUME NEW blocks \in Seq(Blocks)
  PROVE  Allocated(blocks) \in Seq(Nat) /\ ToSet(Allocated(blocks)) = SpansOf(blocks)
<1>. DEFINE q == Spread(blocks)
<1>1. /\ q \in Seq(Seq(Nat)) /\ DOMAIN q = DOMAIN blocks /\ Allocated(blocks) = FlattenSeq(q)
      /\ \A i \in DOMAIN blocks : q[i] = blocks[i].spans
  BY SpreadFacts
<1>. HIDE DEF q
<1>2. FlattenSeq(q) \in Seq(Nat) /\ ToSet(FlattenSeq(q)) = UNION {ToSet(q[i]) : i \in DOMAIN q}
  BY <1>1, FlattenSeqType, FlattenRange
<1>3. ToSet(blocks) = {blocks[i] : i \in DOMAIN blocks}
  BY DEF ToSet
<1>4. UNION {ToSet(q[i]) : i \in DOMAIN q} = SpansOf(blocks)
  <2>1. ASSUME NEW e \in UNION {ToSet(q[i]) : i \in DOMAIN q} PROVE e \in SpansOf(blocks)
    <3>1. PICK i \in DOMAIN blocks : e \in ToSet(blocks[i].spans)
      BY <1>1
    <3> QED BY <1>3, <3>1 DEF SpansOf
  <2>2. ASSUME NEW e \in SpansOf(blocks) PROVE e \in UNION {ToSet(q[i]) : i \in DOMAIN q}
    <3>1. PICK i \in DOMAIN blocks : e \in ToSet(blocks[i].spans)
      BY <1>3 DEF SpansOf
    <3> QED BY <1>1, <3>1
  <2> QED BY <2>1, <2>2
<1> QED BY <1>1, <1>2, <1>4

\* What allocates no span twice has every block and span once.
LEMMA OnceAllocated ==
  ASSUME NEW blocks \in Seq(Blocks), Full(blocks)
  PROVE  IsInjective(Allocated(blocks)) <=> Once(blocks)
<1>. DEFINE q == Spread(blocks)
<1>1. /\ q \in Seq(Seq(Nat)) /\ DOMAIN q = DOMAIN blocks /\ Allocated(blocks) = FlattenSeq(q)
      /\ \A i \in DOMAIN blocks : q[i] = blocks[i].spans
  BY SpreadFacts
<1>. HIDE DEF q
<1>2. IsInjective(Allocated(blocks)) <=> Apart(q)
  BY <1>1, FlattenApart
<1>3. ToSet(blocks) = {blocks[i] : i \in DOMAIN blocks}
  BY DEF ToSet
<1>4. ASSUME Apart(q) PROVE Once(blocks)
  <2>1. ASSUME NEW i \in DOMAIN blocks, NEW j \in DOMAIN blocks, i # j
        PROVE  ToSet(blocks[i].spans) \cap ToSet(blocks[j].spans) = {}
    BY <1>1, <1>4, <2>1 DEF Apart
  <2>2. ASSUME NEW i \in DOMAIN blocks PROVE ToSet(blocks[i].spans) # {}
    <3>1. blocks[i].spans # <<>>
      BY <1>3 DEF Full
    <3>2. blocks[i].spans \in Seq(Nat)
      BY <1>1
    <3>3. 1 \in DOMAIN blocks[i].spans
      BY <3>1, <3>2
    <3> QED BY <3>3 DEF ToSet
  <2>3. ASSUME NEW i \in DOMAIN blocks, NEW j \in DOMAIN blocks, blocks[i] = blocks[j] PROVE i = j
    <3>1. SUFFICES ASSUME i # j PROVE FALSE
      OBVIOUS
    <3>2. ToSet(blocks[i].spans) \cap ToSet(blocks[i].spans) = {}
      BY <2>1, <2>3, <3>1
    <3> QED BY <2>2, <3>2
  <2>4. IsInjective(blocks)
    BY <2>3 DEF IsInjective
  <2>5. ASSUME NEW b \in ToSet(blocks) PROVE IsInjective(b.spans)
    BY <1>1, <1>3, <1>4 DEF Apart
  <2>6. ASSUME NEW b \in ToSet(blocks), NEW c \in ToSet(blocks), b # c
        PROVE  ToSet(b.spans) \cap ToSet(c.spans) = {}
    <3>1. PICK i \in DOMAIN blocks, j \in DOMAIN blocks : b = blocks[i] /\ c = blocks[j]
      BY <1>3
    <3> QED BY <2>1, <2>6, <3>1
  <2> QED BY <2>4, <2>5, <2>6 DEF Once
<1>5. ASSUME Once(blocks) PROVE Apart(q)
  <2>1. ASSUME NEW i \in DOMAIN q PROVE IsInjective(q[i])
    BY <1>1, <1>3, <1>5 DEF Once
  <2>2. ASSUME NEW i \in DOMAIN q, NEW j \in DOMAIN q, i # j PROVE ToSet(q[i]) \cap ToSet(q[j]) = {}
    <3>1. blocks[i] # blocks[j] /\ blocks[i] \in ToSet(blocks) /\ blocks[j] \in ToSet(blocks)
      BY <1>1, <1>3, <1>5, <2>2 DEF Once, IsInjective
    <3> QED BY <1>1, <1>5, <3>1 DEF Once
  <2> QED BY <2>1, <2>2 DEF Apart
<1> QED BY <1>2, <1>4, <1>5

\* Any of the blocks are there once, too.
LEMMA OncePicked ==
  ASSUME NEW blocks, Once(blocks), NEW I
  PROVE  /\ Once(Picked(blocks, I))
         /\ ToSet(Picked(blocks, I)) = {blocks[i] : i \in {i \in DOMAIN blocks : i \in I}}
<1>1. blocks \in Seq(Blocks) /\ IsInjective(blocks) /\ DOMAIN blocks = 1..Len(blocks)
  BY DEF Once
<1>2. PICK p \in Seq(Blocks) : p = Picked(blocks, I)
  BY <1>1, PickedSeq
<1>3. IsInjective(p)
  BY <1>1, <1>2, PickedOnce
<1>4. ToSet(p) = {blocks[i] : i \in {i \in DOMAIN blocks : i \in I}}
  BY <1>1, <1>2, PickedRange
<1>5. ToSet(p) \subseteq ToSet(blocks)
  BY <1>4 DEF ToSet
<1>6. Once(p)
  BY <1>3, <1>5 DEF Once, Full
<1> QED BY <1>2, <1>4, <1>6

\* Blocks of different spans, one after the other.
LEMMA OnceConcat ==
  ASSUME NEW a, NEW b, Once(a), Once(b), SpansOf(a) \cap SpansOf(b) = {}
  PROVE  Once(a \o b) /\ ToSet(a \o b) = ToSet(a) \cup ToSet(b) /\ SpansOf(a \o b) = SpansOf(a) \cup SpansOf(b)
<1>1. a \in Seq(Blocks) /\ b \in Seq(Blocks)
  BY DEF Once
<1>2. a \o b \in Seq(Blocks)
  BY <1>1
<1>3. PICK c \in Seq(Blocks) : c = a \o b
  BY <1>2
<1>4. /\ ToSet(c) = ToSet(a) \cup ToSet(b)
      /\ IsInjective(c) <=> IsInjective(a) /\ IsInjective(b) /\ ToSet(a) \cap ToSet(b) = {}
  BY <1>1, <1>3, ConcatFacts
<1>5. SpansOf(c) = SpansOf(a) \cup SpansOf(b)
  BY <1>4 DEF SpansOf
<1>6. ASSUME NEW x \in ToSet(a), NEW y \in ToSet(b) PROVE ToSet(x.spans) \cap ToSet(y.spans) = {} /\ x # y
  <2>1. ToSet(x.spans) \subseteq SpansOf(a) /\ ToSet(y.spans) \subseteq SpansOf(b)
    BY DEF SpansOf
  <2>2. ToSet(x.spans) # {}
    <3>1. x.spans # <<>> /\ x \in Blocks
      <4>1. x \in Blocks
        BY <1>1 DEF ToSet
      <4> QED BY <4>1 DEF Once, Full
    <3>2. x.spans \in Seq(Nat)
      BY <3>1 DEF Blocks
    <3>3. 1 \in DOMAIN x.spans
      BY <3>1, <3>2
    <3> QED BY <3>3 DEF ToSet
  <2> QED BY <2>1, <2>2
<1>7. IsInjective(c)
  BY <1>4, <1>6 DEF Once
<1>8. Full(c)
  BY <1>4 DEF Once, Full
<1>9. ASSUME NEW x \in ToSet(c) PROVE IsInjective(x.spans)
  BY <1>4 DEF Once
<1>10. ASSUME NEW x \in ToSet(c), NEW y \in ToSet(c), x # y PROVE ToSet(x.spans) \cap ToSet(y.spans) = {}
  <2>1. CASE x \in ToSet(a) /\ y \in ToSet(a)
    BY <1>10, <2>1 DEF Once
  <2>2. CASE x \in ToSet(b) /\ y \in ToSet(b)
    BY <1>10, <2>2 DEF Once
  <2>3. CASE x \in ToSet(a) /\ y \in ToSet(b)
    BY <1>6, <2>3
  <2>4. CASE x \in ToSet(b) /\ y \in ToSet(a)
    BY <1>6, <2>4
  <2> QED BY <1>4, <2>1, <2>2, <2>3, <2>4
<1>11. Once(c)
  BY <1>7, <1>8, <1>9, <1>10 DEF Once
<1> QED BY <1>3, <1>4, <1>5, <1>11

\* Blocks with a span in common are the same, blocks of different spans are not.
LEMMA ApartBlocks ==
  ASSUME NEW a, NEW b, Once(a), Once(b), SpansOf(a) \cap SpansOf(b) = {} PROVE ToSet(a) \cap ToSet(b) = {}
<1>1. SUFFICES ASSUME NEW x \in ToSet(a), x \in ToSet(b) PROVE FALSE
  OBVIOUS
<1>2. x.spans # <<>> /\ x \in Blocks
  <2>1. x \in Blocks
    <3>1. a \in Seq(Blocks)
      BY DEF Once
    <3> QED BY <3>1 DEF ToSet
  <2> QED BY <1>1, <2>1 DEF Once, Full
<1>3. x.spans \in Seq(Nat)
  BY <1>2 DEF Blocks
<1>4. x.spans[1] \in ToSet(x.spans)
  <2>1. 1 \in DOMAIN x.spans
    BY <1>2, <1>3
  <2> QED BY <2>1 DEF ToSet
<1>5. x.spans[1] \in SpansOf(a) /\ x.spans[1] \in SpansOf(b)
  BY <1>1, <1>4 DEF SpansOf
<1> QED BY <1>5

\* One block.
LEMMA OnceSingle ==
  ASSUME NEW b \in Blocks, b.spans # <<>>, IsInjective(b.spans)
  PROVE  /\ Once(<<b>>) /\ ToSet(<<b>>) = {b} /\ SpansOf(<<b>>) = ToSet(b.spans)
         /\ \A p \in Seq(Blocks) : Append(p, b) = p \o <<b>>
<1>1. <<b>> \in Seq(Blocks) /\ DOMAIN <<b>> = {1} /\ <<b>>[1] = b
  OBVIOUS
<1>2. ToSet(<<b>>) = {b} /\ IsInjective(<<b>>)
  BY <1>1 DEF ToSet, IsInjective
<1>3. SpansOf(<<b>>) = ToSet(b.spans)
  BY <1>2 DEF SpansOf
<1>4. Once(<<b>>)
  BY <1>1, <1>2 DEF Once, Full
<1>5. \A p \in Seq(Blocks) : Append(p, b) = p \o <<b>>
  OBVIOUS
<1> QED BY <1>2, <1>3, <1>4, <1>5

\* Blocks of different spans, put together.
LEMMA OnceFlatten ==
  ASSUME NEW q \in Seq(Seq(Blocks)), \A i \in DOMAIN q : Once(q[i]),
         \A i, j \in DOMAIN q : i # j => SpansOf(q[i]) \cap SpansOf(q[j]) = {}
  PROVE  /\ Once(FlattenSeq(q)) /\ ToSet(FlattenSeq(q)) = UNION {ToSet(q[i]) : i \in DOMAIN q}
         /\ SpansOf(FlattenSeq(q)) = UNION {SpansOf(q[i]) : i \in DOMAIN q}
<1>. DEFINE f == FlattenSeq(q)
<1>1. f \in Seq(Blocks) /\ ToSet(f) = UNION {ToSet(q[i]) : i \in DOMAIN q}
  BY FlattenSeqType, FlattenRange
<1>2. IsInjective(f)
  <2>1. \A i \in DOMAIN q : IsInjective(q[i])
    BY DEF Once
  <2>2. \A i, j \in DOMAIN q : i # j => ToSet(q[i]) \cap ToSet(q[j]) = {}
    BY ApartBlocks
  <2>3. Apart(q)
    BY <2>1, <2>2 DEF Apart
  <2> QED BY <2>3, FlattenApart
<1>. HIDE DEF f
<1>3. \A b \in ToSet(f) : \E i \in DOMAIN q : b \in ToSet(q[i])
  BY <1>1
<1>4. ASSUME NEW b \in ToSet(f) PROVE b.spans # <<>> /\ IsInjective(b.spans)
  BY <1>3 DEF Once, Full
<1>5. ASSUME NEW b \in ToSet(f), NEW c \in ToSet(f), b # c PROVE ToSet(b.spans) \cap ToSet(c.spans) = {}
  <2>1. PICK i \in DOMAIN q, j \in DOMAIN q : b \in ToSet(q[i]) /\ c \in ToSet(q[j])
    BY <1>3
  <2>2. CASE i = j
    BY <1>5, <2>1, <2>2 DEF Once
  <2>3. CASE i # j
    <3>1. ToSet(b.spans) \subseteq SpansOf(q[i]) /\ ToSet(c.spans) \subseteq SpansOf(q[j])
      BY <2>1 DEF SpansOf
    <3> QED BY <2>3, <3>1
  <2> QED BY <2>2, <2>3
<1>6. Once(f)
  BY <1>1, <1>2, <1>4, <1>5 DEF Once, Full
<1>7. SpansOf(f) = UNION {SpansOf(q[i]) : i \in DOMAIN q}
  <2>1. ASSUME NEW e \in SpansOf(f) PROVE e \in UNION {SpansOf(q[i]) : i \in DOMAIN q}
    <3>1. PICK b \in ToSet(f) : e \in ToSet(b.spans)
      BY DEF SpansOf
    <3>2. PICK i \in DOMAIN q : b \in ToSet(q[i])
      BY <1>3
    <3> QED BY <3>1, <3>2 DEF SpansOf
  <2>2. ASSUME NEW e \in UNION {SpansOf(q[i]) : i \in DOMAIN q} PROVE e \in SpansOf(f)
    <3>1. PICK i \in DOMAIN q : e \in SpansOf(q[i])
      BY <2>2
    <3>2. PICK b \in ToSet(q[i]) : e \in ToSet(b.spans)
      BY <3>1 DEF SpansOf
    <3> QED BY <1>1, <3>2 DEF SpansOf
  <2> QED BY <2>1, <2>2
<1> QED BY <1>1, <1>6, <1>7 DEF f

\* The document of the run is one of the documents, and its hints come with it.
Extracted ==
  /\ native.page \in Seq(Nat) /\ Spans(native) = 1..Len(native.page)
  /\ native.pages \in Nat /\ native.threshold \in Nat
  /\ native.tables \in Seq(Seq(Spans(native))) /\ native.groups \in Seq(Seq(Spans(native)))
  /\ IsInjective(FlattenSeq(native.tables)) /\ IsInjective(FlattenSeq(native.groups))
  /\ \A i, j \in DOMAIN native.tables :
       i < j => \/ Region(native.tables[i]) \cap Region(native.tables[j]) = {}
                \/ Region(native.tables[j]) \subseteq Region(native.tables[i])
  /\ job.hints \in Seq([kind : {"text", "table", "regrid"}, spans : Seq(Spans(native))])
  /\ \A h \in ToSet(job.hints) : h.spans # <<>> /\ IsInjective(h.spans)

Sourced == \E source \in Natives : job.doc = source.doc /\ job.hints \in source.hints

\* A run is over a document as the extractors make it.
LEMMA SourcedExtracted == ASSUME Sourced PROVE Extracted
<1>1. PICK source \in Natives : job.doc = source.doc /\ job.hints \in source.hints
  BY DEF Sourced
<1>2. native = source.doc
  BY <1>1 DEF native
<1>3. native.page \in Seq(Nat) /\ native.pages \in Nat /\ native.threshold \in Nat
  BY <1>1, <1>2, ConversionAssumption
<1>4. Spans(native) = 1..Len(native.page)
  BY <1>3 DEF Spans
<1>5. native.tables \in Seq(Seq(Spans(native))) /\ native.groups \in Seq(Seq(Spans(native)))
  BY <1>1, <1>2, ConversionAssumption
<1>6. IsInjective(FlattenSeq(native.tables)) /\ IsInjective(FlattenSeq(native.groups))
  BY <1>1, <1>2, ConversionAssumption
<1>7. \A i, j \in DOMAIN native.tables :
        i < j => \/ Region(native.tables[i]) \cap Region(native.tables[j]) = {}
                 \/ Region(native.tables[j]) \subseteq Region(native.tables[i])
  BY <1>1, <1>2, ConversionAssumption DEF Region
<1>8. /\ job.hints \in Seq([kind : {"text", "table", "regrid"}, spans : Seq(Spans(native))])
      /\ \A h \in ToSet(job.hints) : h.spans # <<>> /\ IsInjective(h.spans)
  BY <1>1, <1>2, ConversionAssumption
<1> QED BY <1>3, <1>4, <1>5, <1>6, <1>7, <1>8 DEF Extracted

\* The spans of a set, in the order of the source.
LEMMA OrderedFacts ==
  ASSUME Extracted, NEW S
  PROVE  /\ Ordered(S) \in Seq(Spans(native)) /\ Ordered(S) \in Seq(Nat)
         /\ ToSet(Ordered(S)) = Spans(native) \cap S
         /\ IsInjective(Ordered(S)) /\ Ascending(Ordered(S))
<1>0. native.page \in Seq(Nat) /\ Spans(native) = 1..Len(native.page)
  BY DEF Extracted
<1>1. PICK n \in Nat : n = Len(native.page)
  BY <1>0
<1>2. Spans(native) = 1..n
  BY <1>0, <1>1
<1>3. Ordered(S) = Picked([i \in 1..n |-> i], S)
  BY <1>2 DEF Ordered
<1>. DEFINE p == Picked([i \in 1..n |-> i], S)
<1>4. p \in Seq(1..n) /\ ToSet(p) = {i \in 1..n : i \in S} /\ IsInjective(p) /\ Ascending(p)
  BY PickedNumbers
<1>. HIDE DEF p
<1>5. p \in Seq(Nat)
  <2>1. 1..n \subseteq Nat
    OBVIOUS
  <2> QED BY <1>4, <2>1, SeqMonotone
<1>6. {i \in 1..n : i \in S} = 1..n \cap S
  OBVIOUS
<1> QED BY <1>2, <1>3, <1>4, <1>5, <1>6 DEF p

\* It is a sort by the first span.
LEMMA InOrderSorts ==
  ASSUME Extracted, NEW blocks
  PROVE  InOrder(blocks) = Sorted(blocks, [i \in DOMAIN blocks |-> blocks[i].spans[1]], Len(native.page))
<1>. DEFINE key == [i \in DOMAIN blocks |-> blocks[i].spans[1]]
            n == Len(native.page)
<1>1. Spans(native) = 1..n
  BY DEF Extracted
<1>. HIDE DEF n
<1>2. ASSUME NEW s \in 1..n
      PROVE  Picked(blocks, {i \in DOMAIN blocks : blocks[i].spans[1] = s}) = Bucket(blocks, key, s)
  <2>1. {i \in DOMAIN blocks : blocks[i].spans[1] = s} = {i \in DOMAIN blocks : key[i] = s}
    OBVIOUS
  <2> QED BY <2>1 DEF Bucket
<1>3. [s \in 1..n |-> Picked(blocks, {i \in DOMAIN blocks : blocks[i].spans[1] = s})]
        = [s \in 1..n |-> Bucket(blocks, key, s)]
  BY <1>2
<1>4. InOrder(blocks) = Sorted(blocks, key, n)
  BY <1>1, <1>3 DEF InOrder, Sorted
<1> QED BY <1>4 DEF n

\* Sorting by the first span keeps the blocks.
LEMMA InOrderFacts ==
  ASSUME Extracted, NEW blocks \in Seq(Blocks)
  PROVE  /\ InOrder(blocks) \in Seq(Blocks) /\ ToSet(InOrder(blocks)) \subseteq ToSet(blocks)
         /\ Full(blocks) => Full(InOrder(blocks))
         /\ Full(blocks) /\ SpansOf(blocks) \subseteq Spans(native) =>
              /\ ToSet(InOrder(blocks)) = ToSet(blocks)
              /\ Once(blocks) => Once(InOrder(blocks))
<1>. DEFINE key == [i \in DOMAIN blocks |-> blocks[i].spans[1]]
<1>0. native.page \in Seq(Nat) /\ Spans(native) = 1..Len(native.page)
  BY DEF Extracted
<1>1. PICK n \in Nat : n = Len(native.page)
  BY <1>0
<1>2. Spans(native) = 1..n
  BY <1>0, <1>1
<1>3. InOrder(blocks) = Sorted(blocks, key, n)
  BY <1>1, InOrderSorts
<1>4. /\ InOrder(blocks) \in Seq(Blocks) /\ ToSet(InOrder(blocks)) \subseteq ToSet(blocks)
      /\ (\A i \in DOMAIN blocks : key[i] \in 1..n) => ToSet(InOrder(blocks)) = ToSet(blocks)
      /\ IsInjective(blocks) => IsInjective(InOrder(blocks))
  <2>. HIDE DEF key
  <2> QED BY <1>3, SortedFacts
<1>5. Full(blocks) => Full(InOrder(blocks))
  BY <1>4 DEF Full
<1>6. ASSUME Full(blocks), SpansOf(blocks) \subseteq Spans(native) PROVE \A i \in DOMAIN blocks : key[i] \in 1..n
  <2>1. SUFFICES ASSUME NEW i \in DOMAIN blocks PROVE blocks[i].spans[1] \in 1..n
    OBVIOUS
  <2>2. blocks[i] \in ToSet(blocks)
    BY DEF ToSet
  <2>3. blocks[i].spans \in Seq(Nat) /\ blocks[i].spans # <<>>
    <3>1. blocks[i] \in Blocks
      OBVIOUS
    <3> QED BY <1>6, <2>2, <3>1 DEF Full, Blocks
  <2>4. 1 \in DOMAIN blocks[i].spans
    BY <2>3
  <2>5. blocks[i].spans[1] \in ToSet(blocks[i].spans)
    BY <2>4 DEF ToSet
  <2> QED BY <1>2, <1>6, <2>2, <2>5 DEF SpansOf
<1>7. ASSUME Once(blocks) PROVE Once(InOrder(blocks))
  BY <1>4, <1>5, <1>7 DEF Once
<1>. HIDE DEF key
<1> QED BY <1>4, <1>5, <1>6, <1>7

\* Lossless blocks hold the spans they are made of.
LEMMA LosslessFacts ==
  ASSUME NEW spans \in Seq(Nat), IsInjective(spans)
  PROVE  /\ Once(Lossless(spans)) /\ SpansOf(Lossless(spans)) = ToSet(spans)
         /\ \A b \in ToSet(Lossless(spans)) : b.kind = "lossless"
<1>. DEFINE J == {i \in DOMAIN spans : i > 1 /\ spans[i - 1] + 1 = spans[i]}
            pieces == Pieces(spans, J)
            blocks == [i \in DOMAIN pieces |-> Block("lossless", pieces[i])]
<1>1. Lossless(spans) = blocks
  BY DEF Lossless
<1>. HIDE DEF J
<1>2. pieces \in Seq(Seq(Nat)) /\ FlattenSeq(pieces) = spans /\ \A i \in DOMAIN pieces : pieces[i] # <<>>
  BY PiecesFlatten
<1>. HIDE DEF pieces
<1>3. DOMAIN pieces = 1..Len(pieces) /\ DOMAIN blocks = 1..Len(pieces) /\ \A i \in DOMAIN pieces : pieces[i] \in Seq(Nat)
  BY <1>2
<1>4. \A i \in DOMAIN pieces : /\ blocks[i] \in Blocks /\ blocks[i].spans = pieces[i]
                             /\ blocks[i].kind = "lossless"
  BY <1>3 DEF Blocks, BlockKinds, Block
<1>5. blocks \in Seq(Blocks)
  BY <1>3, <1>4
<1>. HIDE DEF blocks
<1>6. ToSet(blocks) = {blocks[i] : i \in DOMAIN pieces}
  BY <1>3 DEF ToSet
<1>7. Full(blocks)
  BY <1>2, <1>4, <1>6 DEF Full
<1>8. Allocated(blocks) = spans
  <2>1. Spread(blocks) = pieces
    <3>1. Spread(blocks) \in Seq(Seq(Nat)) /\ DOMAIN Spread(blocks) = 1..Len(pieces)
          /\ \A i \in 1..Len(pieces) : Spread(blocks)[i] = pieces[i]
      BY <1>3, <1>4, <1>5, SpreadFacts
    <3> QED BY <1>2, <3>1, SequencesEqual
  <2> QED BY <1>2, <1>5, <2>1, SpreadFacts
<1>9. Once(blocks)
  BY <1>5, <1>7, <1>8, OnceAllocated
<1>10. SpansOf(blocks) = ToSet(spans)
  BY <1>5, <1>8, AllocatedRange
<1> QED BY <1>1, <1>4, <1>6, <1>9, <1>10

\* The spans that are still to be placed.
LEMMA UnplacedFacts ==
  ASSUME Extracted, NEW document, document.blocks \in Seq(Blocks)
  PROVE  /\ Unplaced(document) \in Seq(Nat) /\ IsInjective(Unplaced(document)) /\ Ascending(Unplaced(document))
         /\ ToSet(Unplaced(document)) = Spans(native) \ (SpansOf(document.blocks) \cup document.excluded)
<1>. DEFINE S == Spans(native) \ (ToSet(Allocated(document.blocks)) \cup document.excluded)
<1>1. Unplaced(document) = Ordered(S)
  BY DEF Unplaced
<1>2. S = Spans(native) \ (SpansOf(document.blocks) \cup document.excluded)
  BY AllocatedRange
<1>3. Spans(native) \cap S = S
  OBVIOUS
<1>. HIDE DEF S
<1>4. /\ Ordered(S) \in Seq(Nat) /\ IsInjective(Ordered(S)) /\ Ascending(Ordered(S))
      /\ ToSet(Ordered(S)) = Spans(native) \cap S
  BY OrderedFacts
<1> QED BY <1>1, <1>2, <1>3, <1>4

\* What is left is put into lossless blocks, each span into one.
LEMMA LosslessBlocksFacts ==
  ASSUME Extracted, NEW document, document.blocks \in Seq(Blocks)
  PROVE  /\ Once(LosslessBlocks(document))
         /\ SpansOf(LosslessBlocks(document)) = Spans(native) \ (SpansOf(document.blocks) \cup document.excluded)
         /\ \A b \in ToSet(LosslessBlocks(document)) : b.kind = "lossless"
<1>. DEFINE left     == ToSet(Unplaced(document))
            inTables == UNION {ToSet(t) : t \in Tables(native)}
            grouped  == UNION {ToSet(g) : g \in ToSet(native.groups)}
            Left(g)  == Picked(g, {i \in DOMAIN g : g[i] \in left \ inTables})
            groups == native.groups
            q == [g \in DOMAIN groups |-> Lossless(Left(groups[g]))]
            a == FlattenSeq(q)
            b == Lossless(Ordered((left \ inTables) \ grouped))
            c == Lossless(Ordered(left \cap inTables))
<1>1. LosslessBlocks(document) = (a \o b) \o c
  BY DEF LosslessBlocks
<1>2. left = Spans(native) \ (SpansOf(document.blocks) \cup document.excluded)
  BY UnplacedFacts
<1>. HIDE DEF left, inTables, grouped
<1>3. left \subseteq Spans(native)
  BY <1>2
<1>4. groups \in Seq(Seq(Spans(native))) /\ IsInjective(FlattenSeq(groups)) /\ Apart(groups)
  <2>1. groups \in Seq(Seq(Spans(native))) /\ IsInjective(FlattenSeq(groups))
    BY DEF Extracted
  <2>. HIDE DEF groups
  <2>2. Apart(groups)
    BY <2>1, FlattenApart
  <2> QED BY <2>1, <2>2
<1>5. grouped = UNION {ToSet(groups[i]) : i \in DOMAIN groups}
  BY DEF grouped, ToSet
<1>. HIDE DEF groups
<1>6. ASSUME NEW i \in DOMAIN groups
      PROVE  /\ q[i] = Lossless(Left(groups[i])) /\ Once(q[i])
             /\ SpansOf(q[i]) = ToSet(groups[i]) \cap (left \ inTables)
             /\ \A x \in ToSet(q[i]) : x.kind = "lossless"
  <2>. DEFINE g == groups[i]
              I == {k \in DOMAIN g : g[k] \in left \ inTables}
  <2>1. g \in Seq(Spans(native)) /\ IsInjective(g)
    BY <1>4 DEF Apart
  <2>. HIDE DEF g
  <2>2. g \in Seq(Nat)
    <3>1. Spans(native) \subseteq Nat
      BY DEF Extracted
    <3> QED BY <2>1, <3>1, SeqMonotone
  <2>3. Left(g) = Picked(g, I)
    OBVIOUS
  <2>4. ToSet(g) = {g[k] : k \in DOMAIN g} /\ DOMAIN g = 1..Len(g)
    BY <2>2 DEF ToSet
  <2>5. {k \in 1..Len(g) : k \in I} = I
    BY <2>4
  <2>6. {g[k] : k \in I} = ToSet(g) \cap (left \ inTables)
    BY <2>4
  <2>. HIDE DEF I
  <2>7. PICK p \in Seq(Nat) : p = Picked(g, I)
    BY <2>2, PickedSeq
  <2>8. IsInjective(p)
    BY <2>1, <2>2, <2>7, PickedOnce
  <2>9. ToSet(p) = ToSet(g) \cap (left \ inTables)
    BY <2>2, <2>5, <2>6, <2>7, PickedRange
  <2>10. Once(Lossless(p)) /\ SpansOf(Lossless(p)) = ToSet(p) /\ \A x \in ToSet(Lossless(p)) : x.kind = "lossless"
    BY <2>8, LosslessFacts
  <2>11. q[i] = Lossless(p) /\ q[i] = Lossless(Left(groups[i]))
    BY <2>3, <2>7 DEF g
  <2>. HIDE DEF q, Left
  <2> QED BY <2>9, <2>10, <2>11 DEF g
<1>7. q \in Seq(Seq(Blocks)) /\ DOMAIN q = DOMAIN groups
  <2>1. \A i \in DOMAIN groups : Lossless(Left(groups[i])) \in Seq(Blocks)
    BY <1>6 DEF Once
  <2>2. DOMAIN groups = 1..Len(groups) /\ Len(groups) \in Nat
    BY <1>4
  <2>. HIDE DEF Left
  <2> QED BY <2>1, <2>2
<1>. HIDE DEF q, Left
<1>8. /\ Once(a) /\ ToSet(a) = UNION {ToSet(q[i]) : i \in DOMAIN q}
      /\ SpansOf(a) = UNION {SpansOf(q[i]) : i \in DOMAIN q}
  <2>1. \A i, j \in DOMAIN q : i # j => SpansOf(q[i]) \cap SpansOf(q[j]) = {}
    <3>1. SUFFICES ASSUME NEW i \in DOMAIN q, NEW j \in DOMAIN q, i # j
                   PROVE  SpansOf(q[i]) \cap SpansOf(q[j]) = {}
      OBVIOUS
    <3>2. ToSet(groups[i]) \cap ToSet(groups[j]) = {}
      BY <1>4, <1>7, <3>1 DEF Apart
    <3> QED BY <1>6, <1>7, <3>2
  <2> QED BY <1>6, <1>7, <2>1, OnceFlatten
<1>9. SpansOf(a) = grouped \cap (left \ inTables)
  <2>1. \A i \in DOMAIN groups : SpansOf(q[i]) = ToSet(groups[i]) \cap (left \ inTables)
    BY <1>6
  <2>2. ASSUME NEW e \in SpansOf(a) PROVE e \in grouped \cap (left \ inTables)
    <3>1. PICK i \in DOMAIN groups : e \in SpansOf(q[i])
      BY <1>7, <1>8
    <3>2. e \in ToSet(groups[i]) /\ e \in left \ inTables
      BY <2>1, <3>1
    <3> QED BY <1>5, <3>2
  <2>3. ASSUME NEW e \in grouped, e \in left \ inTables PROVE e \in SpansOf(a)
    <3>1. PICK i \in DOMAIN groups : e \in ToSet(groups[i])
      BY <1>5
    <3>2. e \in SpansOf(q[i])
      BY <2>1, <2>3, <3>1
    <3> QED BY <1>7, <1>8, <3>2
  <2>. HIDE DEF a
  <2> QED BY <2>2, <2>3
<1>10. ASSUME NEW S PROVE /\ Once(Lossless(Ordered(S))) /\ SpansOf(Lossless(Ordered(S))) = Spans(native) \cap S
                          /\ \A x \in ToSet(Lossless(Ordered(S))) : x.kind = "lossless"
  <2>1. Ordered(S) \in Seq(Nat) /\ IsInjective(Ordered(S)) /\ ToSet(Ordered(S)) = Spans(native) \cap S
    BY OrderedFacts
  <2> QED BY <2>1, LosslessFacts
<1>11. Once(b) /\ SpansOf(b) = (left \ inTables) \ grouped /\ \A x \in ToSet(b) : x.kind = "lossless"
  BY <1>3, <1>10
<1>12. Once(c) /\ SpansOf(c) = left \cap inTables /\ \A x \in ToSet(c) : x.kind = "lossless"
  BY <1>3, <1>10
<1>13. \A x \in ToSet(a) : x.kind = "lossless"
  BY <1>6, <1>7, <1>8
<1>. HIDE DEF a, b, c
<1>14. /\ Once(a \o b) /\ ToSet(a \o b) = ToSet(a) \cup ToSet(b)
       /\ SpansOf(a \o b) = SpansOf(a) \cup SpansOf(b)
  <2>1. SpansOf(a) \cap SpansOf(b) = {}
    BY <1>9, <1>11
  <2> QED BY <1>8, <1>11, <2>1, OnceConcat
<1>15. /\ Once((a \o b) \o c) /\ ToSet((a \o b) \o c) = ToSet(a \o b) \cup ToSet(c)
       /\ SpansOf((a \o b) \o c) = SpansOf(a \o b) \cup SpansOf(c)
  <2>1. SpansOf(a \o b) \cap SpansOf(c) = {}
    BY <1>9, <1>11, <1>12, <1>14
  <2> QED BY <1>12, <1>14, <2>1, OnceConcat
<1>16. SpansOf((a \o b) \o c) = left
  BY <1>9, <1>11, <1>12, <1>14, <1>15
<1>17. \A x \in ToSet((a \o b) \o c) : x.kind = "lossless"
  BY <1>11, <1>12, <1>13, <1>14, <1>15
<1> QED BY <1>1, <1>2, <1>15, <1>16, <1>17

\* A document places no span twice, and none it excludes.
Arrangements == [blocks : Seq(Blocks), excluded : SUBSET Spans(native)]
SoundDocument(document) ==
  /\ document \in Arrangements /\ Once(document.blocks)
  /\ SpansOf(document.blocks) \subseteq Spans(native)
  /\ SpansOf(document.blocks) \cap document.excluded = {}

\* The completed document has every span that is not excluded, once.
LEMMA CompletedFacts ==
  ASSUME Extracted, NEW document, SoundDocument(document)
  PROVE  /\ Completed(document).blocks \in Seq(Blocks) /\ Completed(document).excluded = document.excluded
         /\ Once(Completed(document).blocks)
         /\ SpansOf(Completed(document).blocks) = Spans(native) \ document.excluded
         /\ ToSet(Completed(document).blocks) = ToSet(document.blocks) \cup ToSet(LosslessBlocks(document))
<1>. DEFINE rest == LosslessBlocks(document)
            blocks == document.blocks
            all == blocks \o rest
<1>1. blocks \in Seq(Blocks) /\ Once(blocks) /\ document.excluded \subseteq Spans(native)
  BY DEF SoundDocument, Arrangements
<1>2. Once(rest) /\ SpansOf(rest) = Spans(native) \ (SpansOf(blocks) \cup document.excluded)
  BY <1>1, LosslessBlocksFacts
<1>3. Completed(document).blocks = InOrder(all) /\ Completed(document).excluded = document.excluded
  BY DEF Completed, SoundDocument, Arrangements
<1>4. SpansOf(blocks) \subseteq Spans(native) /\ SpansOf(blocks) \cap document.excluded = {}
  BY DEF SoundDocument
<1>. HIDE DEF rest, blocks
<1>5. Once(all) /\ ToSet(all) = ToSet(blocks) \cup ToSet(rest) /\ SpansOf(all) = SpansOf(blocks) \cup SpansOf(rest)
  <2>1. SpansOf(blocks) \cap SpansOf(rest) = {}
    BY <1>2
  <2> QED BY <1>1, <1>2, <2>1, OnceConcat
<1>6. SpansOf(all) = Spans(native) \ document.excluded
  BY <1>1, <1>2, <1>4, <1>5
<1>. HIDE DEF all
<1>7. all \in Seq(Blocks) /\ Full(all) /\ SpansOf(all) \subseteq Spans(native)
  BY <1>5, <1>6 DEF Once
<1>8. InOrder(all) \in Seq(Blocks) /\ ToSet(InOrder(all)) = ToSet(all) /\ Once(InOrder(all))
  BY <1>5, <1>7, InOrderFacts
<1>9. SpansOf(InOrder(all)) = SpansOf(all)
  BY <1>8 DEF SpansOf
<1> QED BY <1>3, <1>5, <1>6, <1>8, <1>9 DEF blocks, rest

\* Such a document passes the check of the coverage.
LEMMA CompletedCovers ==
  ASSUME Extracted, NEW document, document.blocks \in Seq(Blocks), Once(document.blocks),
         SpansOf(document.blocks) = Spans(native) \ document.excluded
  PROVE  Covered(document)
<1>1. PICK a \in Seq(Nat) : a = Allocated(document.blocks)
  BY AllocatedRange
<1>2. ToSet(a) = Spans(native) \ document.excluded
  BY <1>1, AllocatedRange
<1>3. IsInjective(a)
  BY <1>1, OnceAllocated DEF Once
<1>4. ASSUME NEW s \in Spans(native)
      PROVE  CountOf(s, document) = (IF s \in document.excluded THEN 0 ELSE 1)
  <2>1. CountOf(s, document) = Cardinality({i \in DOMAIN a : a[i] = s})
    BY <1>1 DEF CountOf
  <2>2. CASE s \in document.excluded
    <3>1. {i \in DOMAIN a : a[i] = s} = {}
      BY <1>2, <2>2 DEF ToSet
    <3> QED BY <2>1, <2>2, <3>1, FS_EmptySet
  <2>3. CASE s \notin document.excluded
    <3>1. PICK k \in DOMAIN a : a[k] = s
      BY <1>2, <2>3 DEF ToSet
    <3>2. {i \in DOMAIN a : a[i] = s} = {k}
      BY <1>3, <3>1 DEF IsInjective
    <3>3. Cardinality({k}) = 1
      BY FS_Singleton
    <3> QED BY <2>1, <2>3, <3>2, <3>3
  <2> QED BY <2>2, <2>3
<1> QED BY <1>4 DEF Covered

(***************************************************************************)
(* Native tables                                                           *)
(***************************************************************************)

\* A table is in its region, and has spans of its own when it is not empty.
LEMMA TableFacts ==
  ASSUME Extracted, NEW i \in DOMAIN native.tables
  PROVE  LET t == native.tables[i]
         IN  /\ t \in Seq(Spans(native)) /\ ToSet(t) \subseteq Region(t) /\ Region(t) \subseteq Spans(native)
             /\ t # <<>> => ToSet(t) # {} /\ t \in Tables(native)
<1>. DEFINE t == native.tables[i]
<1>1. t \in Seq(Spans(native)) /\ Spans(native) \subseteq Nat
  BY DEF Extracted
<1>2. t \in ToSet(native.tables)
  BY DEF ToSet
<1>. HIDE DEF t
<1>3. ASSUME NEW s \in ToSet(t) PROVE s \in Region(t)
  <2>1. s \in Spans(native)
    BY <1>1 DEF ToSet
  <2>2. s <= s
    BY <1>1, <2>1
  <2> QED BY <2>1, <2>2 DEF Region, RegionIn
<1>4. Region(t) \subseteq Spans(native)
  BY DEF Region, RegionIn
<1>5. ASSUME t # <<>> PROVE ToSet(t) # {} /\ t \in Tables(native)
  <2>1. 1 \in DOMAIN t
    BY <1>1, <1>5
  <2>2. t[1] \in ToSet(t)
    BY <2>1 DEF ToSet
  <2> QED BY <1>2, <1>5, <2>2 DEF Tables
<1> QED BY <1>1, <1>3, <1>4, <1>5 DEF t

\* Two tables have no span in common, and the region of the later is apart from that of
\* the earlier or inside it.
LEMMA TablesApart ==
  ASSUME Extracted, NEW i \in DOMAIN native.tables, NEW j \in DOMAIN native.tables, i < j
  PROVE  /\ ToSet(native.tables[i]) \cap ToSet(native.tables[j]) = {}
         /\ \/ Region(native.tables[i]) \cap Region(native.tables[j]) = {}
            \/ Region(native.tables[j]) \subseteq Region(native.tables[i])
<1>1. native.tables \in Seq(Seq(Spans(native))) /\ IsInjective(FlattenSeq(native.tables))
  BY DEF Extracted
<1>2. PICK q \in Seq(Seq(Spans(native))) : q = native.tables
  BY <1>1
<1>3. Apart(q)
  BY <1>1, <1>2, FlattenApart
<1>4. i # j
  BY DEF Extracted
<1> QED BY <1>2, <1>3, <1>4 DEF Apart, Extracted

\* A table that stays together: within one lossless block, or a block of its own.
WholeIn(document, t) ==
  \/ \E b \in ToSet(document.blocks) : b.kind = "lossless" /\ Region(t) \subseteq ToSet(b.spans)
  \/ Region(t) = ToSet(t) /\ Block("table", t) \in ToSet(document.blocks)

\* What is so when the first k tables have been looked at.
Enforced(document, k) ==
  /\ SoundDocument(document)
  /\ \A b \in ToSet(document.blocks) : b.kind = "lossless" =>
       \E i \in DOMAIN native.tables : i <= k /\ ToSet(b.spans) = Region(native.tables[i])
  /\ \A i \in DOMAIN native.tables : i <= k /\ native.tables[i] # <<>> => WholeIn(document, native.tables[i])

\* A document with the region of a table in one block.
LEMMA InOneBlockFacts ==
  ASSUME Extracted, NEW document \in Arrangements, NEW table
  PROVE  /\ InOneBlock(document, table) \in Arrangements
         /\ InOneBlock(document, table).excluded = document.excluded \ Region(table)
         /\ ToSet(InOneBlock(document, table).blocks) =
              {b \in ToSet(document.blocks) : ~Touches(b, table)}
                \cup {Block("lossless", Ordered(Region(table)))}
         /\ SoundDocument(document) /\ Region(table) # {} /\ Region(table) \subseteq Spans(native)
              => SoundDocument(InOneBlock(document, table))
<1>. DEFINE blocks == document.blocks
            I == DOMAIN blocks \ Touching(document, table)
            p == Picked(blocks, I)
            l == Block("lossless", Ordered(Region(table)))
            new == InOneBlock(document, table)
<1>1. blocks \in Seq(Blocks) /\ document.excluded \subseteq Spans(native)
  BY DEF Arrangements
<1>2. /\ Ordered(Region(table)) \in Seq(Nat) /\ IsInjective(Ordered(Region(table)))
      /\ ToSet(Ordered(Region(table))) = Spans(native) \cap Region(table)
  BY OrderedFacts
<1>3. new.blocks = Append(p, l) /\ new.excluded = document.excluded \ Region(table)
      /\ new = [blocks |-> new.blocks, excluded |-> new.excluded]
  BY DEF InOneBlock
<1>4. l \in Blocks /\ l.kind = "lossless" /\ l.spans = Ordered(Region(table))
  BY <1>2 DEF Block, Blocks, BlockKinds
<1>5. ToSet(blocks) = {blocks[i] : i \in DOMAIN blocks} /\ DOMAIN blocks = 1..Len(blocks)
  BY <1>1 DEF ToSet
<1>6. \A i \in DOMAIN blocks : i \in I <=> ~Touches(blocks[i], table)
  BY DEF Touching
<1>. HIDE DEF blocks, I
<1>7. p \in Seq(Blocks) /\ ToSet(p) = {blocks[i] : i \in {i \in 1..Len(blocks) : i \in I}}
  BY <1>1, PickedSeq, PickedRange
<1>8. ToSet(p) = {b \in ToSet(blocks) : ~Touches(b, table)}
  BY <1>5, <1>6, <1>7
<1>. HIDE DEF l
<1>9. <<l>> \in Seq(Blocks) /\ Append(p, l) = p \o <<l>> /\ ToSet(<<l>>) = {l}
  <2>1. <<l>> \in Seq(Blocks) /\ DOMAIN <<l>> = {1} /\ <<l>>[1] = l
    BY <1>4
  <2>2. p \o <<l>> = Append(p, l)
    BY <1>4, <1>7
  <2> QED BY <2>1, <2>2 DEF ToSet
<1>. HIDE DEF p
<1>10. ToSet(Append(p, l)) = ToSet(p) \cup {l} /\ Append(p, l) \in Seq(Blocks)
  <2>1. ToSet(p \o <<l>>) = ToSet(p) \cup ToSet(<<l>>)
    BY <1>7, <1>9, ConcatFacts
  <2>2. Append(p, l) \in Seq(Blocks)
    BY <1>4, <1>7
  <2> QED BY <1>9, <2>1, <2>2
<1>11. new \in Arrangements
  BY <1>1, <1>3, <1>10 DEF Arrangements
<1>12. ASSUME SoundDocument(document), Region(table) # {}, Region(table) \subseteq Spans(native) PROVE SoundDocument(new)
  <2>1. Once(blocks) /\ SpansOf(blocks) \subseteq Spans(native) /\ SpansOf(blocks) \cap document.excluded = {}
    BY <1>12 DEF SoundDocument, blocks
  <2>2. Once(p)
    BY <2>1, OncePicked DEF p
  <2>3. ToSet(l.spans) = Region(table)
    BY <1>2, <1>4, <1>12
  <2>4. SpansOf(<<l>>) = Region(table)
    BY <1>9, <2>3 DEF SpansOf
  <2>5. Once(<<l>>)
    <3>1. l.spans # <<>>
      <4>1. ToSet(<<>>) = {}
        BY DEF ToSet
      <4> QED BY <1>12, <2>3, <4>1
    <3>2. IsInjective(l.spans)
      BY <1>2, <1>4
    <3> QED BY <1>4, <3>1, <3>2, OnceSingle
  <2>6. SpansOf(p) \subseteq SpansOf(blocks) /\ SpansOf(p) \cap Region(table) = {}
    BY <1>8 DEF SpansOf, Touches
  <2>7. Once(p \o <<l>>) /\ SpansOf(p \o <<l>>) = SpansOf(p) \cup Region(table)
    <3>1. SpansOf(p) \cap SpansOf(<<l>>) = {}
      BY <2>4, <2>6
    <3> QED BY <2>2, <2>4, <2>5, <3>1, OnceConcat
  <2>8. Once(new.blocks) /\ SpansOf(new.blocks) = SpansOf(p) \cup Region(table)
    BY <1>3, <1>9, <2>7
  <2>9. SpansOf(new.blocks) \cap new.excluded = {}
    BY <1>3, <2>1, <2>6, <2>8
  <2>10. SpansOf(new.blocks) \subseteq Spans(native)
    BY <1>12, <2>1, <2>6, <2>8
  <2>. HIDE DEF new
  <2> QED BY <1>11, <2>8, <2>9, <2>10 DEF SoundDocument
<1>13. ToSet(new.blocks) = {b \in ToSet(document.blocks) : ~Touches(b, table)}
                             \cup {Block("lossless", Ordered(Region(table)))}
  BY <1>3, <1>8, <1>10 DEF blocks, l
<1>. HIDE DEF new
<1> QED BY <1>3, <1>11, <1>12, <1>13 DEF new

\* Whatever it does for a table, a document comes of it, and no exclusion.
LEMMA EnforceTableType ==
  ASSUME Extracted, NEW document \in Arrangements, NEW table
  PROVE  /\ EnforceTable(document, table) \in Arrangements
         /\ EnforceTable(document, table).excluded \subseteq document.excluded
BY InOneBlockFacts DEF EnforceTable

\* One table more is whole, and those before it stay so.
LEMMA EnforceTableStep ==
  ASSUME Extracted, NEW document, NEW k \in DOMAIN native.tables, Enforced(document, k - 1)
  PROVE  Enforced(EnforceTable(document, native.tables[k]), k)
<1>. DEFINE tables == native.tables
            t == tables[k]
            new == InOneBlock(document, t)
<1>0. DOMAIN tables = 1..Len(tables) /\ Len(tables) \in Nat /\ k \in Nat
  BY DEF Extracted
<1>1. SoundDocument(document) /\ document \in Arrangements
  BY DEF Enforced, SoundDocument
<1>2. /\ t \in Seq(Spans(native)) /\ ToSet(t) \subseteq Region(t) /\ Region(t) \subseteq Spans(native)
      /\ t # <<>> => ToSet(t) # {}
  BY TableFacts
<1>3. \A i \in DOMAIN tables : i <= k <=> (i <= k - 1 \/ i = k)
  BY <1>0
<1>3a. k <= k
  BY <1>0
<1>4. CASE t = <<>>
  <2>1. EnforceTable(document, t) = document
    BY <1>4 DEF EnforceTable
  <2> QED BY <1>3, <1>4, <2>1 DEF Enforced
<1>5. CASE t # <<>> /\ IsWhole(document, t)
  <2>1. EnforceTable(document, t) = document
    BY <1>5 DEF EnforceTable
  <2>2. WholeIn(document, t)
    <3>1. CASE \E b \in ToSet(document.blocks) : b.kind = "lossless" /\ Region(t) \subseteq ToSet(b.spans)
      BY <3>1 DEF WholeIn
    <3>2. CASE \E i \in DOMAIN document.blocks : Touching(document, t) = {i} /\ IsNative(document.blocks[i], t)
      <4>1. PICK i \in DOMAIN document.blocks : IsNative(document.blocks[i], t)
        BY <3>2
      <4>2. document.blocks[i] \in ToSet(document.blocks)
        BY DEF ToSet
      <4> QED BY <4>1, <4>2 DEF WholeIn, IsNative, Crosses
    <3> QED BY <1>5, <3>1, <3>2 DEF IsWhole
  <2> QED BY <1>3, <2>1, <2>2 DEF Enforced
<1>6. CASE t # <<>> /\ ~IsWhole(document, t)
  <2>1. EnforceTable(document, t) = new
    BY <1>6 DEF EnforceTable
  <2>. DEFINE l == Block("lossless", Ordered(Region(t)))
  <2>2. /\ ToSet(new.blocks) = {b \in ToSet(document.blocks) : ~Touches(b, t)} \cup {l}
        /\ SoundDocument(new)
    <3>1. Region(t) # {}
      BY <1>2, <1>6
    <3> QED BY <1>1, <1>2, <3>1, InOneBlockFacts
  <2>3. l.kind = "lossless" /\ ToSet(l.spans) = Region(t)
    <3>1. ToSet(Ordered(Region(t))) = Spans(native) \cap Region(t)
      BY OrderedFacts
    <3> QED BY <1>2, <3>1 DEF Block
  <2>. HIDE DEF l, new, t
  <2>4. WholeIn(new, t)
    BY <2>2, <2>3 DEF WholeIn
  <2>5. ASSUME NEW b \in ToSet(new.blocks), b.kind = "lossless"
        PROVE  \E i \in DOMAIN tables : i <= k /\ ToSet(b.spans) = Region(tables[i])
    <3>1. CASE b = l
      BY <1>3a, <2>3, <3>1 DEF t
    <3>2. CASE b \in ToSet(document.blocks)
      <4>1. PICK i \in DOMAIN tables : i <= k - 1 /\ ToSet(b.spans) = Region(tables[i])
        BY <2>5, <3>2 DEF Enforced
      <4> QED BY <1>3, <4>1
    <3> QED BY <2>2, <3>1, <3>2
  <2>6. ASSUME NEW i \in DOMAIN tables, i <= k - 1, tables[i] # <<>> PROVE WholeIn(new, tables[i])
    <3>. DEFINE u == tables[i]
    <3>1. WholeIn(document, u)
      BY <2>6 DEF Enforced
    <3>2. i < k
      BY <1>0, <2>6
    <3>3. CASE \E b \in ToSet(document.blocks) : b.kind = "lossless" /\ Region(u) \subseteq ToSet(b.spans)
      <4>1. PICK b \in ToSet(document.blocks) : b.kind = "lossless" /\ Region(u) \subseteq ToSet(b.spans)
        BY <3>3
      <4>2. PICK j \in DOMAIN tables : j <= k - 1 /\ ToSet(b.spans) = Region(tables[j])
        BY <4>1 DEF Enforced
      <4>3. j < k
        BY <1>0, <4>2
      <4>4. Region(tables[j]) \cap Region(t) = {} \/ Region(t) \subseteq Region(tables[j])
        BY <4>3, TablesApart DEF t
      <4>5. ~(Region(t) \subseteq ToSet(b.spans))
        BY <1>6, <4>1 DEF IsWhole
      <4>6. ~Touches(b, t)
        BY <4>2, <4>4, <4>5 DEF Touches
      <4>7. b \in ToSet(new.blocks)
        BY <2>2, <4>6
      <4> QED BY <4>1, <4>7 DEF WholeIn
    <3>4. CASE Region(u) = ToSet(u) /\ Block("table", u) \in ToSet(document.blocks)
      <4>1. ToSet(u) \cap ToSet(t) = {} /\ (Region(u) \cap Region(t) = {} \/ Region(t) \subseteq Region(u))
        BY <3>2, TablesApart DEF t
      <4>2. Region(u) \cap Region(t) = {}
        BY <1>2, <1>6, <3>4, <4>1
      <4>3. ~Touches(Block("table", u), t)
        BY <3>4, <4>2 DEF Touches, Block
      <4>4. Block("table", u) \in ToSet(new.blocks)
        BY <2>2, <3>4, <4>3
      <4> QED BY <3>4, <4>4 DEF WholeIn
    <3> QED BY <3>1, <3>3, <3>4 DEF WholeIn
  <2>7. \A i \in DOMAIN tables : i <= k /\ tables[i] # <<>> => WholeIn(new, tables[i])
    BY <1>3, <2>4, <2>6 DEF t
  <2>8. Enforced(new, k)
    BY <2>2, <2>5, <2>7 DEF Enforced
  <2> QED BY <2>1, <2>8 DEF t
<1> QED BY <1>4, <1>5, <1>6

\* The documents on the way, table after table.
EnforcesBy(document, g) ==
  /\ g[0] = document /\ EnforceTables(document) = g[Len(native.tables)]
  /\ \A i \in 1..Len(native.tables) : g[i] = EnforceTable(g[i - 1], native.tables[i])

\* Enforcing all tables is enforcing one after another.
LEMMA EnforceTablesSteps ==
  ASSUME Extracted, NEW document \in Arrangements PROVE \E g : EnforcesBy(document, g)
<1>. DEFINE n == Len(native.tables)
            t(i) == native.tables[i]
            Step == [i \in 1..n |-> [d \in Arrangements |-> EnforceTable(d, t(i))]]
            Q(f) == f = [i \in 0..n |-> IF i = 0 THEN document ELSE EnforceTable(f[i - 1], t(i))]
            g == CHOOSE f : Q(f)
<1>1. n \in Nat /\ DOMAIN native.tables = 1..n
  BY DEF Extracted
<1>2. Step \in [1..n -> [Arrangements -> Arrangements]]
  BY EnforceTableType
<1>3. PICK f \in [0..n -> Arrangements] : f[0] = document /\ \A i \in 1..n : f[i] = Step[i][f[i - 1]]
  <2>1. Step \in StepsOf(Arrangements, n)
    BY <1>2 DEF StepsOf
  <2>. HIDE DEF Step, n
  <2>3. \E f : Unfolds(Arrangements, n, document, Step, f)
    BY <1>1, <2>1, Recursion
  <2> QED BY <2>3 DEF Unfolds
<1>4. Q(f)
  <2>1. ASSUME NEW i \in 0..n PROVE f[i] = IF i = 0 THEN document ELSE EnforceTable(f[i - 1], t(i))
    <3>1. CASE i = 0
      BY <1>3, <3>1
    <3>2. CASE i # 0
      <4>1. i \in 1..n /\ f[i - 1] \in Arrangements
        BY <1>1, <1>3, <3>2
      <4>2. f[i] = Step[i][f[i - 1]]
        BY <1>3, <4>1
      <4>3. Step[i][f[i - 1]] = EnforceTable(f[i - 1], t(i))
        BY <4>1
      <4> QED BY <3>2, <4>2, <4>3
    <3> QED BY <3>1, <3>2
  <2>. HIDE DEF n, Step, t
  <2> QED BY <1>3, <2>1
<1>5. Q(g)
  BY <1>4
<1>6. EnforceTables(document) = g[n]
  BY DEF EnforceTables
<1>. HIDE DEF g, Step
<1>7. g[0] = document /\ \A i \in 1..n : g[i] = EnforceTable(g[i - 1], t(i))
  <2>1. g = [i \in 0..n |-> IF i = 0 THEN document ELSE EnforceTable(g[i - 1], t(i))]
    BY <1>5
  <2>2. 0 \in 0..n /\ \A i \in 1..n : i \in 0..n /\ i # 0
    BY <1>1
  <2>. HIDE DEF n, t
  <2> QED BY <2>1, <2>2
<1> QED BY <1>6, <1>7 DEF EnforcesBy

\* A document without lossless blocks has every table whole when all have been looked at.
LEMMA EnforceTablesFacts ==
  ASSUME Extracted, NEW document, SoundDocument(document), \A b \in ToSet(document.blocks) : b.kind # "lossless"
  PROVE  /\ Enforced(EnforceTables(document), Len(native.tables))
         /\ EnforceTables(document).excluded \subseteq document.excluded
<1>. DEFINE n == Len(native.tables)
<1>1. n \in Nat /\ DOMAIN native.tables = 1..n
  BY DEF Extracted
<1>2. PICK g : EnforcesBy(document, g)
  BY EnforceTablesSteps DEF SoundDocument
<1>6. EnforceTables(document) = g[n]
  BY <1>2 DEF EnforcesBy
<1>7. g[0] = document /\ \A i \in 1..n : g[i] = EnforceTable(g[i - 1], native.tables[i])
  BY <1>2 DEF EnforcesBy
<1>. DEFINE Good(i) == Enforced(g[i], i) /\ g[i].excluded \subseteq document.excluded
            S == {i \in Nat : i <= n => Good(i)}
<1>8. 0 \in S
  <2>1. Enforced(document, 0)
    BY <1>1 DEF Enforced
  <2> QED BY <1>7, <2>1
<1>9. ASSUME NEW i \in Nat, i \in S PROVE i + 1 \in S
  <2>1. SUFFICES ASSUME i + 1 <= n PROVE Good(i + 1)
    OBVIOUS
  <2>2. i + 1 \in 1..n /\ (i + 1) - 1 = i /\ i <= n /\ i + 1 \in DOMAIN native.tables
    BY <1>1, <2>1
  <2>3. Good(i) /\ g[i + 1] = EnforceTable(g[i], native.tables[i + 1])
    BY <1>7, <1>9, <2>2
  <2>4. g[i] \in Arrangements
    BY <2>3 DEF Enforced, SoundDocument
  <2>5. Enforced(g[i + 1], i + 1)
    BY <2>2, <2>3, EnforceTableStep
  <2>6. g[i + 1].excluded \subseteq g[i].excluded
    BY <2>3, <2>4, EnforceTableType
  <2> QED BY <2>3, <2>5, <2>6
<1>. HIDE DEF S, Good
<1>10. n \in S
  BY <1>1, <1>8, <1>9, Induction
<1>11. Good(n)
  BY <1>1, <1>10 DEF S
<1> QED BY <1>6, <1>11 DEF Good

\* A table that is not whole leaves a lossless block in the document.
LEMMA EnforceTablesNothing ==
  ASSUME Extracted, NEW document \in Arrangements,
         \A b \in ToSet(EnforceTables(document).blocks) : b.kind # "lossless"
  PROVE  EnforceTables(document) = document
<1>. DEFINE n == Len(native.tables)
<1>1. n \in Nat
  BY DEF Extracted
<1>2. PICK g : EnforcesBy(document, g)
  BY EnforceTablesSteps
<1>3. /\ g[0] = document /\ EnforceTables(document) = g[n]
      /\ \A i \in 1..n : g[i] = EnforceTable(g[i - 1], native.tables[i])
  BY <1>2 DEF EnforcesBy
<1>. DEFINE Good(i) == /\ g[i] \in Arrangements
                       /\ g[i] = document \/ \E b \in ToSet(g[i].blocks) : b.kind = "lossless"
            S == {i \in Nat : i <= n => Good(i)}
<1>4. 0 \in S
  BY <1>3
<1>5. ASSUME NEW i \in Nat, i \in S PROVE i + 1 \in S
  <2>1. SUFFICES ASSUME i + 1 <= n PROVE Good(i + 1)
    OBVIOUS
  <2>2. i + 1 \in 1..n /\ (i + 1) - 1 = i /\ i <= n
    BY <1>1, <2>1
  <2>. DEFINE t == native.tables[i + 1]
  <2>3. Good(i) /\ g[i + 1] = EnforceTable(g[i], t)
    BY <1>3, <1>5, <2>2
  <2>. HIDE DEF t
  <2>4. g[i + 1] \in Arrangements
    BY <2>3, EnforceTableType
  <2>5. g[i + 1] = g[i] \/ g[i + 1] = InOneBlock(g[i], t)
    BY <2>3 DEF EnforceTable
  <2>6. CASE g[i + 1] = InOneBlock(g[i], t)
    <3>. DEFINE new == Block("lossless", Ordered(Region(t)))
    <3>0. PICK d \in Arrangements : d = g[i]
      BY <2>3
    <3>a. new \in ToSet(InOneBlock(d, t).blocks)
      <4>1. ToSet(InOneBlock(d, t).blocks) = {b \in ToSet(d.blocks) : ~Touches(b, t)} \cup {new}
        BY InOneBlockFacts
      <4>. HIDE DEF new
      <4> QED BY <4>1
    <3>1. new \in ToSet(g[i + 1].blocks)
      BY <2>6, <3>0, <3>a
    <3>2. new.kind = "lossless"
      BY DEF Block
    <3> QED BY <2>4, <3>1, <3>2
  <2> QED BY <2>3, <2>4, <2>5, <2>6
<1>. HIDE DEF S, Good
<1>6. n \in S
  BY <1>1, <1>4, <1>5, Induction
<1>7. Good(n)
  BY <1>1, <1>6 DEF S
<1> QED BY <1>3, <1>7 DEF Good

(***************************************************************************)
(* Blocks from the hints, and from a plan                                  *)
(***************************************************************************)

Hints == [kind : {"text", "table", "regrid"}, spans : Seq(Spans(native))]

\* The hints that are taken place no span twice.
LEMMA PlacementsFacts ==
  ASSUME Extracted
  PROVE  Placements(job.hints) \in Seq(Hints) /\ Once(Placements(job.hints))
<1>. DEFINE hints == job.hints
            n == Len(hints)
            Free(u, h) == ToSet(h.spans) \cap ToSet(Allocated(u)) = {}
            Step == [i \in 1..n |-> [u \in Seq(Hints) |-> IF Free(u, hints[i]) THEN Append(u, hints[i]) ELSE u]]
            Q(f) == f = [i \in 0..n |-> IF i = 0 THEN <<>>
                                        ELSE IF Free(f[i - 1], hints[i]) THEN Append(f[i - 1], hints[i]) ELSE f[i - 1]]
            g == CHOOSE f : Q(f)
<1>1. hints \in Seq(Hints) /\ \A h \in ToSet(hints) : h.spans # <<>> /\ IsInjective(h.spans)
  BY DEF Extracted, Hints
<1>2. Hints \subseteq Blocks
  <2>1. Seq(Spans(native)) \subseteq Seq(Nat)
    <3>1. Spans(native) \subseteq Nat
      BY DEF Extracted
    <3> QED BY <3>1, SeqMonotone
  <2> QED BY <2>1 DEF Hints, Blocks, BlockKinds
<1>3. Placements(hints) = g[n]
  BY DEF Placements
<1>. HIDE DEF hints
<1>4. n \in Nat /\ (\A i \in 1..n : hints[i] \in Hints /\ hints[i] \in ToSet(hints)) /\ <<>> \in Seq(Hints)
  <2>1. DOMAIN hints = 1..n /\ n \in Nat
    BY <1>1
  <2> QED BY <1>1, <2>1 DEF ToSet
<1>. HIDE DEF Free
<1>5. Step \in [1..n -> [Seq(Hints) -> Seq(Hints)]]
  BY <1>4
<1>6. PICK f \in [0..n -> Seq(Hints)] : f[0] = <<>> /\ \A i \in 1..n : f[i] = Step[i][f[i - 1]]
  <2>1. Step \in StepsOf(Seq(Hints), n)
    BY <1>5 DEF StepsOf
  <2>. HIDE DEF Step, n
  <2>2. \E f : Unfolds(Seq(Hints), n, <<>>, Step, f)
    BY <1>4, <2>1, Recursion
  <2> QED BY <2>2 DEF Unfolds
<1>7. Q(f)
  <2>1. ASSUME NEW i \in 0..n
        PROVE  f[i] = IF i = 0 THEN <<>>
                      ELSE IF Free(f[i - 1], hints[i]) THEN Append(f[i - 1], hints[i]) ELSE f[i - 1]
    <3>1. CASE i = 0
      BY <1>6, <3>1
    <3>2. CASE i # 0
      <4>1. i \in 1..n /\ f[i - 1] \in Seq(Hints)
        BY <1>4, <1>6, <3>2, SMTT(20)
      <4>2. f[i] = Step[i][f[i - 1]]
        BY <1>6, <4>1
      <4>3. Step[i][f[i - 1]] = IF Free(f[i - 1], hints[i]) THEN Append(f[i - 1], hints[i]) ELSE f[i - 1]
        BY <4>1
      <4> QED BY <3>2, <4>2, <4>3
    <3> QED BY <3>1, <3>2
  <2>. HIDE DEF n, Step
  <2> QED BY <1>6, <2>1
<1>8. Q(g)
  BY <1>7
<1>. HIDE DEF g, Step
<1>9. /\ g[0] = <<>>
      /\ \A i \in 1..n : g[i] = IF Free(g[i - 1], hints[i]) THEN Append(g[i - 1], hints[i]) ELSE g[i - 1]
  <2>1. g = [i \in 0..n |-> IF i = 0 THEN <<>>
                            ELSE IF Free(g[i - 1], hints[i]) THEN Append(g[i - 1], hints[i]) ELSE g[i - 1]]
    BY <1>8
  <2>2. 0 \in 0..n /\ \A i \in 1..n : i \in 0..n /\ i # 0
    BY <1>4
  <2>. HIDE DEF n
  <2> QED BY <2>1, <2>2
<1>. DEFINE Good(i) == g[i] \in Seq(Hints) /\ Once(g[i])
            S == {i \in Nat : i <= n => Good(i)}
<1>10. 0 \in S
  <2>1. Once(<<>>)
    <3>1. ToSet(<<>>) = {} /\ <<>> \in Seq(Blocks) /\ DOMAIN <<>> = {}
      BY DEF ToSet
    <3> QED BY <3>1 DEF Once, Full, IsInjective
  <2> QED BY <1>4, <1>9, <2>1
<1>11. ASSUME NEW i \in Nat, i \in S PROVE i + 1 \in S
  <2>1. SUFFICES ASSUME i + 1 <= n PROVE Good(i + 1)
    OBVIOUS
  <2>2. i + 1 \in 1..n /\ (i + 1) - 1 = i /\ i <= n
    BY <1>4, <2>1
  <2>3. g[i] \in Seq(Hints) /\ Once(g[i])
    BY <1>11, <2>2
  <2>. DEFINE h == hints[i + 1]
  <2>4. h \in Hints /\ h.spans # <<>> /\ IsInjective(h.spans)
    BY <1>1, <1>4, <2>2
  <2>5. g[i + 1] = IF Free(g[i], h) THEN Append(g[i], h) ELSE g[i]
    BY <1>9, <2>2
  <2>. HIDE DEF h
  <2>6. CASE Free(g[i], h)
    <3>1. g[i] \in Seq(Blocks) /\ h \in Blocks
      BY <1>2, <2>3, <2>4 DEF Once
    <3>2. ToSet(h.spans) \cap SpansOf(g[i]) = {}
      BY <2>6, <3>1, AllocatedRange DEF Free
    <3>3. Once(<<h>>) /\ SpansOf(<<h>>) = ToSet(h.spans) /\ Append(g[i], h) = g[i] \o <<h>>
      BY <2>4, <3>1, OnceSingle
    <3>4. Once(g[i] \o <<h>>)
      BY <2>3, <3>2, <3>3, OnceConcat
    <3>5. Append(g[i], h) \in Seq(Hints)
      BY <2>3, <2>4
    <3> QED BY <2>5, <2>6, <3>3, <3>4, <3>5
  <2>7. CASE ~Free(g[i], h)
    BY <2>3, <2>5, <2>7
  <2> QED BY <2>6, <2>7
<1>. HIDE DEF S, Good
<1>12. n \in S
  BY <1>4, <1>10, <1>11, Induction
<1>13. Good(n)
  BY <1>4, <1>12 DEF S
<1> QED BY <1>3, <1>13 DEF Good, hints

\* Spans of repeated edges are repeated edges of more spans, too.
LEMMA EdgesGrow ==
  ASSUME Extracted, NEW alone \in SUBSET Spans(native)
  PROVE  RepeatedEdges(alone) \subseteq RepeatedEdges(Spans(native)) /\ RepeatedEdges(alone) \subseteq Spans(native)
<1>. DEFINE a == native.edges \cap alone
            b == native.edges \cap Spans(native)
            A == {native.page[s] : s \in a}
            B == {native.page[s] : s \in b}
<1>1. IsFiniteSet(Spans(native))
  <2>1. Spans(native) = 1..Len(native.page) /\ Len(native.page) \in Nat
    BY DEF Extracted
  <2> QED BY <2>1, FS_Interval
<1>2. IsFiniteSet(b)
  BY <1>1, FS_Subset
<1>3. IsFiniteSet(B)
  <2>. DEFINE f == [s \in b |-> native.page[s]]
  <2>1. f \in Surjection(b, B)
    BY DEF Surjection
  <2>. HIDE DEF f, b, B
  <2> QED BY <1>2, <2>1, FS_Surjection
<1>4. A \subseteq B
  OBVIOUS
<1>5. IsFiniteSet(A) /\ Cardinality(A) <= Cardinality(B)
  BY <1>3, <1>4, FS_Subset
<1>6. Cardinality(A) \in Nat /\ Cardinality(B) \in Nat
  BY <1>3, <1>5, FS_CardinalityType
<1>7. native.threshold \in Nat
  BY DEF Extracted
<1>8. /\ RepeatedEdges(alone) = IF Cardinality(A) >= native.threshold THEN a ELSE {}
      /\ RepeatedEdges(Spans(native)) = IF Cardinality(B) >= native.threshold THEN b ELSE {}
  BY DEF RepeatedEdges
<1>9. a \subseteq b /\ a \subseteq Spans(native)
  OBVIOUS
<1>. HIDE DEF A, B, a, b
<1> QED BY <1>5, <1>6, <1>7, <1>8, <1>9

\* The document the hints make.
LEMMA ReconciledFacts ==
  ASSUME Extracted
  PROVE  /\ SoundDocument(Reconciled) /\ Reconciled.excluded \subseteq RepeatedEdges(Spans(native))
         /\ \A b \in ToSet(Reconciled.blocks) : b.kind # "lossless"
<1>. DEFINE blocks == Placements(job.hints)
            edges == RepeatedEdges(Alone(blocks))
            I == {i \in DOMAIN blocks : ToSet(blocks[i].spans) \cap edges = {}}
<1>1. blocks \in Seq(Hints) /\ Once(blocks)
  BY PlacementsFacts
<1>2. Reconciled = [blocks |-> Picked(blocks, I), excluded |-> edges]
  BY DEF Reconciled
<1>3. edges \subseteq RepeatedEdges(Spans(native)) /\ edges \subseteq Spans(native)
  <2>1. Alone(blocks) \subseteq Spans(native)
    BY DEF Alone
  <2> QED BY <2>1, EdgesGrow
<1>. HIDE DEF blocks, edges
<1>4. /\ Once(Picked(blocks, I))
      /\ ToSet(Picked(blocks, I)) = {blocks[i] : i \in {i \in DOMAIN blocks : i \in I}}
  <2>. HIDE DEF I
  <2> QED BY <1>1, OncePicked
<1>5. \A b \in ToSet(Picked(blocks, I)) : b \in Hints /\ ToSet(b.spans) \cap edges = {}
  BY <1>1, <1>4
<1>. HIDE DEF I
<1>6. \A b \in Hints : ToSet(b.spans) \subseteq Spans(native) /\ b.kind # "lossless"
  <2>1. ASSUME NEW b \in Hints PROVE ToSet(b.spans) \subseteq Spans(native) /\ b.kind # "lossless"
    <3>1. b.spans \in Seq(Spans(native)) /\ b.kind \in {"text", "table", "regrid"}
      BY DEF Hints
    <3> QED BY <3>1 DEF ToSet
  <2> QED BY <2>1
<1>7. SpansOf(Picked(blocks, I)) \subseteq Spans(native) /\ SpansOf(Picked(blocks, I)) \cap edges = {}
  BY <1>5, <1>6 DEF SpansOf
<1>8. Picked(blocks, I) \in Seq(Blocks)
  BY <1>4 DEF Once
<1>9. SoundDocument(Reconciled)
  BY <1>2, <1>3, <1>4, <1>7, <1>8 DEF SoundDocument, Arrangements
<1> QED BY <1>2, <1>3, <1>5, <1>6, <1>9

\* A plan as it is kept: of text, tables and exclusions, and with no empty block.
PlanBlocks == [kind : {"text", "table", "exclude"}, spans : Seq(Nat)]
KeptPlan(plan) == plan \in [blocks : Seq(PlanBlocks), defect : {"none"}] /\ Full(plan.blocks)

\* No plan has a lossless block.
LEMMA PlanBlocksAreBlocks == PlanBlocks \subseteq Blocks /\ \A b \in PlanBlocks : b.kind # "lossless"
BY DEF PlanBlocks, Blocks, BlockKinds

\* A valid plan places every span of its request once.
LEMMA ValidPlanFacts ==
  ASSUME NEW spans \in Seq(Nat), IsInjective(spans), NEW plan, KeptPlan(plan), PlanValid(spans, plan)
  PROVE  Once(plan.blocks) /\ SpansOf(plan.blocks) = ToSet(spans)
<1>1. plan.blocks \in Seq(Blocks) /\ Full(plan.blocks)
  <2>1. plan.blocks \in Seq(PlanBlocks)
    BY DEF KeptPlan
  <2> QED BY <2>1, PlanBlocksAreBlocks, SeqMonotone DEF KeptPlan
<1>2. Allocated(plan.blocks) = spans
  BY DEF PlanValid
<1> QED BY <1>1, <1>2, OnceAllocated, AllocatedRange

\* The document with what is applied of a plan that is valid for what the hints left.
LEMMA AcceptedFacts ==
  ASSUME Extracted, placed = Reconciled, NEW kept, KeptPlan(kept.plan),
         kept.plan = NoPlan \/ PlanValid(Unplaced(placed), kept.plan),
         kept.applied \subseteq ToSet(kept.plan.blocks)
  PROVE  /\ SoundDocument(Accepted(kept)) /\ Accepted(kept).excluded \subseteq RepeatedEdges(Spans(native))
         /\ \A b \in ToSet(Accepted(kept).blocks) : b.kind # "lossless"
<1>. DEFINE blocks == kept.plan.blocks
            I == {i \in DOMAIN blocks : blocks[i] \in kept.applied /\ blocks[i].kind # "exclude"}
            out == {b \in kept.applied : b.kind = "exclude"}
            X == UNION {ToSet(b.spans) : b \in out}
            p == Picked(blocks, I)
<1>1. /\ SoundDocument(placed) /\ placed.excluded \subseteq RepeatedEdges(Spans(native))
      /\ \A b \in ToSet(placed.blocks) : b.kind # "lossless"
  BY ReconciledFacts
<1>2. /\ Once(placed.blocks) /\ placed.blocks \in Seq(Blocks) /\ placed.excluded \subseteq Spans(native)
      /\ SpansOf(placed.blocks) \subseteq Spans(native) /\ SpansOf(placed.blocks) \cap placed.excluded = {}
  BY <1>1 DEF SoundDocument, Arrangements
<1>3. Accepted(kept) = [blocks |-> placed.blocks \o p, excluded |-> placed.excluded \cup X]
  BY DEF Accepted
<1>4. blocks \in Seq(PlanBlocks) /\ \A b \in ToSet(blocks) : b \in PlanBlocks
  <2>1. blocks \in Seq(PlanBlocks)
    BY DEF KeptPlan
  <2> QED BY <2>1 DEF ToSet
<1>5. /\ Once(blocks) /\ SpansOf(blocks) \subseteq Spans(native) \ (SpansOf(placed.blocks) \cup placed.excluded)
      /\ X \subseteq RepeatedEdges(Spans(native))
  <2>1. CASE kept.plan = NoPlan
    <3>1. blocks = <<>>
      BY <2>1 DEF NoPlan
    <3>2. ToSet(<<>>) = {} /\ <<>> \in Seq(Blocks) /\ DOMAIN <<>> = {}
      BY DEF ToSet
    <3>3. Once(<<>>) /\ SpansOf(<<>>) = {}
      BY <3>2 DEF Once, Full, IsInjective, SpansOf
    <3>4. X = {}
      BY <3>1, <3>2
    <3>. HIDE DEF X, blocks
    <3> QED BY <3>1, <3>3, <3>4
  <2>2. CASE PlanValid(Unplaced(placed), kept.plan)
    <3>1. /\ Unplaced(placed) \in Seq(Nat) /\ IsInjective(Unplaced(placed))
          /\ ToSet(Unplaced(placed)) = Spans(native) \ (SpansOf(placed.blocks) \cup placed.excluded)
      BY <1>2, UnplacedFacts
    <3>2. Once(blocks) /\ SpansOf(blocks) = ToSet(Unplaced(placed))
      BY <2>2, <3>1, ValidPlanFacts
    <3>3. X \subseteq RepeatedEdges(Spans(native))
      <4>1. \A b \in ToSet(blocks) : b.kind = "exclude" => ToSet(b.spans) \subseteq RepeatedEdges(Spans(native))
        BY <2>2 DEF PlanValid, ExclusionsProven
      <4> QED BY <4>1
    <3> QED BY <3>1, <3>2, <3>3
  <2> QED BY <2>1, <2>2
<1>. HIDE DEF blocks
<1>6. Once(p) /\ ToSet(p) = {blocks[i] : i \in {i \in DOMAIN blocks : i \in I}}
  <2>. HIDE DEF I
  <2> QED BY <1>5, OncePicked
<1>7. \A b \in ToSet(p) : b \in ToSet(blocks) /\ b.kind # "exclude" /\ b.kind # "lossless"
  <2>1. \A b \in ToSet(p) : b \in ToSet(blocks) /\ b.kind # "exclude"
    BY <1>6 DEF ToSet
  <2> QED BY <1>4, <2>1, PlanBlocksAreBlocks
<1>. HIDE DEF p, I
<1>8. SpansOf(p) \subseteq SpansOf(blocks)
  BY <1>7 DEF SpansOf
<1>9. /\ Once(placed.blocks \o p) /\ ToSet(placed.blocks \o p) = ToSet(placed.blocks) \cup ToSet(p)
      /\ SpansOf(placed.blocks \o p) = SpansOf(placed.blocks) \cup SpansOf(p)
  <2>1. SpansOf(placed.blocks) \cap SpansOf(p) = {}
    BY <1>5, <1>8
  <2> QED BY <1>2, <1>6, <2>1, OnceConcat
<1>10. X \subseteq SpansOf(blocks)
  BY DEF SpansOf, blocks
<1>11. X \cap SpansOf(p) = {}
  <2>1. ASSUME NEW b \in out, NEW c \in ToSet(p) PROVE ToSet(b.spans) \cap ToSet(c.spans) = {}
    <3>1. b \in ToSet(blocks) /\ c \in ToSet(blocks) /\ b # c
      BY <1>7 DEF blocks
    <3> QED BY <1>5, <3>1 DEF Once
  <2> QED BY <2>1 DEF SpansOf
<1>. HIDE DEF X
<1>12. placed.blocks \o p \in Seq(Blocks)
  BY <1>9 DEF Once
<1>13. SoundDocument(Accepted(kept))
  <2>1. Accepted(kept) \in Arrangements
    BY <1>2, <1>3, <1>5, <1>10, <1>12 DEF Arrangements
  <2>2. SpansOf(placed.blocks \o p) \cap (placed.excluded \cup X) = {}
    BY <1>2, <1>5, <1>8, <1>9, <1>10, <1>11
  <2>3. SpansOf(placed.blocks \o p) \subseteq Spans(native)
    BY <1>2, <1>5, <1>8, <1>9
  <2> QED BY <1>3, <1>9, <2>1, <2>2, <2>3 DEF SoundDocument
<1>14. Accepted(kept).excluded \subseteq RepeatedEdges(Spans(native))
  BY <1>1, <1>3, <1>5
<1>15. \A b \in ToSet(Accepted(kept).blocks) : b.kind # "lossless"
  BY <1>1, <1>3, <1>7, <1>9
<1> QED BY <1>13, <1>14, <1>15

\* The repair kept: what is applied is in its plan.
RepairShape(kept) ==
  /\ kept = [outcome |-> kept.outcome, plan |-> kept.plan, applied |-> kept.applied, texts |-> kept.texts]
  /\ KeptPlan(kept.plan)
RepairFits(kept) ==
  /\ RepairShape(kept) /\ kept.applied \subseteq ToSet(kept.plan.blocks)
  /\ kept.plan = NoPlan \/ PlanValid(Unplaced(placed), kept.plan)

\* No repair is one that fits.
LEMMA NoRepairFits == RepairFits(NoRepair)
<1>1. NoPlan \in [blocks : Seq(PlanBlocks), defect : {"none"}]
  BY DEF NoPlan
<1>2. ToSet(<<>>) = {}
  BY DEF ToSet
<1>3. KeptPlan(NoPlan)
  BY <1>1, <1>2 DEF KeptPlan, Full, NoPlan
<1> QED BY <1>3 DEF RepairFits, RepairShape, NoRepair

\* The check of the tables only takes blocks back.
LEMMA TablesCheckedFits == ASSUME RepairFits(repair) PROVE RepairFits(TablesChecked)
<1>. DEFINE rejected == Rejected(ToSet(repair.plan.blocks))
            kept == [repair EXCEPT !.outcome = "rejected", !.applied = @ \ rejected]
<1>1. repair = [outcome |-> repair.outcome, plan |-> repair.plan, applied |-> repair.applied, texts |-> repair.texts]
  BY DEF RepairFits, RepairShape
<1>2. TablesChecked = IF rejected = {} THEN repair ELSE kept
  BY DEF TablesChecked
<1>. HIDE DEF rejected
<1>3. kept = [outcome |-> "rejected", plan |-> repair.plan, applied |-> repair.applied \ rejected, texts |-> repair.texts]
  <2>1. PICK k : k = kept
    OBVIOUS
  <2>2. k.outcome = "rejected" /\ k.plan = repair.plan /\ k.applied = repair.applied \ rejected /\ k.texts = repair.texts
    BY <1>1, <2>1
  <2>3. k = [outcome |-> k.outcome, plan |-> k.plan, applied |-> k.applied, texts |-> k.texts]
    BY <1>1, <2>1
  <2>. HIDE DEF kept
  <2> QED BY <2>1, <2>2, <2>3
<1>. HIDE DEF kept
<1>4. RepairFits(kept)
  BY <1>3 DEF RepairFits, RepairShape
<1> QED BY <1>2, <1>4

\* The kept that is kept has a plan of the same blocks.
LEMMA ReorderedShape ==
  ASSUME Extracted, NEW kept, RepairShape(kept) PROVE RepairShape(Reordered(kept))
<1>. DEFINE blocks == kept.plan.blocks
            plan == [kept.plan EXCEPT !.blocks = InOrder(blocks)]
<1>1. kept.plan \in [blocks : Seq(PlanBlocks), defect : {"none"}] /\ Full(blocks) /\ blocks \in Seq(PlanBlocks)
  BY DEF RepairShape, KeptPlan
<1>2. kept = [outcome |-> kept.outcome, plan |-> kept.plan, applied |-> kept.applied, texts |-> kept.texts]
  BY DEF RepairShape
<1>3. Reordered(kept) = [outcome |-> kept.outcome, plan |-> plan, applied |-> kept.applied, texts |-> kept.texts]
  BY <1>2 DEF Reordered
<1>4. blocks \in Seq(Blocks)
  BY <1>1, PlanBlocksAreBlocks, SeqMonotone
<1>5. /\ InOrder(blocks) \in Seq(Blocks) /\ ToSet(InOrder(blocks)) \subseteq ToSet(blocks)
      /\ Full(InOrder(blocks))
  <2>. HIDE DEF blocks
  <2> QED BY <1>1, <1>4, InOrderFacts
<1>6. ToSet(blocks) \subseteq PlanBlocks
  BY <1>1 DEF ToSet
<1>7. InOrder(blocks) \in Seq(PlanBlocks)
  <2>1. PICK o \in Seq(Blocks) : o = InOrder(blocks)
    BY <1>5
  <2>2. ToSet(o) \subseteq PlanBlocks
    BY <1>5, <1>6, <2>1
  <2>3. PICK t \in Seq(PlanBlocks) : t = o
    BY <2>2, RangeTyped
  <2> QED BY <2>1, <2>3
<1>8. plan = [blocks |-> InOrder(blocks), defect |-> "none"]
  BY <1>1
<1>9. KeptPlan(plan)
  BY <1>5, <1>7, <1>8 DEF KeptPlan
<1>. HIDE DEF plan
<1> QED BY <1>3, <1>9 DEF RepairShape

\* Every native table is in one block.
WholeTables(blocks) ==
  \A t \in Tables(native) :
    \E b \in ToSet(blocks) : b = Block("table", t) \/ (b.kind = "lossless" /\ ToSet(t) \subseteq ToSet(b.spans))

\* The document that is completed covers the source and keeps its tables whole.
LEMMA CompletionFacts ==
  ASSUME Extracted, placed = Reconciled, RepairFits(repair)
  PROVE  LET document == Completed(EnforceTables(Accepted(TablesChecked)))
         IN  /\ Covered(document) /\ document.excluded \subseteq RepeatedEdges(Spans(native))
             /\ WholeTables(document.blocks)
<1>. DEFINE kept == TablesChecked
            a == Accepted(kept)
            e == EnforceTables(a)
            document == Completed(e)
            tables == native.tables
<1>1. RepairFits(kept)
  BY TablesCheckedFits
<1>2. /\ SoundDocument(a) /\ a.excluded \subseteq RepeatedEdges(Spans(native))
      /\ \A b \in ToSet(a.blocks) : b.kind # "lossless"
  <2>. HIDE DEF kept
  <2> QED BY <1>1, AcceptedFacts DEF RepairFits, RepairShape
<1>. HIDE DEF kept, a
<1>3. Enforced(e, Len(tables)) /\ e.excluded \subseteq a.excluded
  BY <1>2, EnforceTablesFacts
<1>. HIDE DEF e
<1>4. /\ document.blocks \in Seq(Blocks) /\ document.excluded = e.excluded /\ Once(document.blocks)
      /\ SpansOf(document.blocks) = Spans(native) \ e.excluded
      /\ ToSet(e.blocks) \subseteq ToSet(document.blocks)
  <2>1. SoundDocument(e)
    BY <1>3 DEF Enforced
  <2> QED BY <2>1, CompletedFacts
<1>. HIDE DEF document
<1>5. Covered(document)
  BY <1>4, CompletedCovers
<1>6. document.excluded \subseteq RepeatedEdges(Spans(native))
  BY <1>2, <1>3, <1>4
<1>7. ASSUME NEW t \in Tables(native)
      PROVE  \E b \in ToSet(document.blocks) :
               b = Block("table", t) \/ (b.kind = "lossless" /\ ToSet(t) \subseteq ToSet(b.spans))
  <2>1. PICK i \in DOMAIN tables : t = tables[i]
    BY DEF Tables, ToSet
  <2>2. t # <<>>
    BY DEF Tables
  <2>3. i <= Len(tables)
    <3>1. DOMAIN tables = 1..Len(tables) /\ Len(tables) \in Nat
      BY DEF Extracted
    <3> QED BY <3>1
  <2>4. WholeIn(e, t)
    BY <1>3, <2>1, <2>2, <2>3 DEF Enforced
  <2>5. ToSet(t) \subseteq Region(t)
    BY <2>1, TableFacts
  <2> QED BY <1>4, <2>4, <2>5 DEF WholeIn
<1>8. WholeTables(document.blocks)
  BY <1>7 DEF WholeTables
<1> QED BY <1>5, <1>6, <1>8 DEF document, e, a, kept

(***************************************************************************)
(* Plans of batches                                                        *)
(***************************************************************************)

\* What blocks allocate one after the other.
LEMMA AllocatedConcat ==
  ASSUME NEW a \in Seq(Blocks), NEW b \in Seq(Blocks) PROVE Allocated(a \o b) = Allocated(a) \o Allocated(b)
<1>0. a \o b \in Seq(Blocks)
  OBVIOUS
<1>1. PICK c \in Seq(Blocks) : c = a \o b
  BY <1>0
<1>2. PICK k \in Nat, l \in Nat : k = Len(a) /\ l = Len(b)
  OBVIOUS
<1>3. /\ Len(c) = k + l /\ (\A i \in 1..k : c[i] = a[i]) /\ (\A i \in 1..l : c[k + i] = b[i])
      /\ DOMAIN a = 1..k /\ DOMAIN b = 1..l /\ DOMAIN c = 1..(k + l)
  BY <1>1, <1>2
<1>4. /\ Spread(a) \in Seq(Seq(Nat)) /\ Spread(b) \in Seq(Seq(Nat)) /\ Spread(c) \in Seq(Seq(Nat))
      /\ Len(Spread(a)) = k /\ Len(Spread(b)) = l /\ Len(Spread(c)) = k + l
      /\ Allocated(a) = FlattenSeq(Spread(a)) /\ Allocated(b) = FlattenSeq(Spread(b))
      /\ Allocated(c) = FlattenSeq(Spread(c))
      /\ (\A i \in 1..k : Spread(a)[i] = a[i].spans) /\ (\A i \in 1..l : Spread(b)[i] = b[i].spans)
      /\ \A i \in 1..(k + l) : Spread(c)[i] = c[i].spans
  BY <1>2, <1>3, SpreadFacts
<1>5. PICK p \in Seq(Seq(Nat)), q \in Seq(Seq(Nat)), r \in Seq(Seq(Nat)) : p = Spread(a) /\ q = Spread(b) /\ r = Spread(c)
  BY <1>4
<1>6. r = p \o q
  <2>0. Len(p) = k /\ Len(q) = l
    BY <1>4, <1>5
  <2>a. p \o q \in Seq(Seq(Nat))
    OBVIOUS
  <2>2. PICK o \in Seq(Seq(Nat)) : o = p \o q
    BY <2>a
  <2>1. Len(o) = k + l /\ (\A i \in 1..k : o[i] = p[i]) /\ \A i \in 1..l : o[k + i] = q[i]
    <3>. DEFINE E == Seq(Nat)
    <3>1. p \in Seq(E) /\ q \in Seq(E)
      OBVIOUS
    <3>. HIDE DEF E
    <3>2. Joins(p, q, p \o q)
      BY <3>1, ConcatIndex
    <3> QED BY <2>0, <2>2, <3>2 DEF Joins
  <2>3. ASSUME NEW i \in 1..(k + l) PROVE r[i] = o[i]
    <3>1. CASE i <= k
      <4>1. i \in 1..k
        BY <1>2, <3>1
      <4>2. o[i] = p[i] /\ c[i] = a[i]
        BY <1>3, <2>1, <2>2, <4>1
      <4> QED BY <1>4, <1>5, <4>1, <4>2
    <3>2. CASE i > k
      <4>1. i - k \in 1..l /\ k + (i - k) = i
        BY <1>2, <3>2
      <4>2. o[i] = q[i - k] /\ c[i] = b[i - k]
        BY <1>3, <2>1, <2>2, <4>1
      <4> QED BY <1>4, <1>5, <4>1, <4>2
    <3> QED BY <1>2, <3>1, <3>2
  <2>4. Len(r) = Len(o) /\ Len(r) = k + l
    BY <1>4, <1>5, <2>1, <2>2
  <2>5. r = o
    BY <2>3, <2>4, SequencesEqual
  <2> QED BY <2>2, <2>5
<1>7. FlattenSeq(p \o q) = FlattenSeq(p) \o FlattenSeq(q)
  BY FlattenConcat
<1> QED BY <1>1, <1>4, <1>5, <1>6, <1>7

\* What the parts allocate, one part after the other.
Allocations(q) == [i \in DOMAIN q |-> Allocated(q[i])]

\* What parts allocate together is what each allocates, joined.
LEMMA AllocatedFlatten ==
  ASSUME NEW q \in Seq(Seq(Blocks)) PROVE Allocated(FlattenSeq(q)) = FlattenSeq(Allocations(q))
<1>. DEFINE T == {t \in Seq(Seq(Blocks)) : Allocated(FlattenSeq(t)) = FlattenSeq(Allocations(t))}
<1>1. <<>> \in T
  <2>1. FlattenSeq(<<>>) = <<>> /\ <<>> \in Seq(Seq(Blocks)) /\ <<>> \in Seq(Blocks)
    BY FlattenEmpty
  <2>2. Allocations(<<>>) = <<>> /\ Spread(<<>>) = <<>>
    BY DEF Allocations, Spread
  <2>3. Allocated(<<>>) = FlattenSeq(Spread(<<>>))
    BY <2>1, SpreadFacts
  <2> QED BY <2>1, <2>2, <2>3
<1>2. ASSUME NEW t \in Seq(Seq(Blocks)), NEW x \in Seq(Blocks), t \in T PROVE Append(t, x) \in T
  <2>. DEFINE u == Append(t, x)
  <2>1. PICK n \in Nat : n = Len(t)
    OBVIOUS
  <2>2. /\ u \in Seq(Seq(Blocks)) /\ DOMAIN u = 1..(n + 1) /\ DOMAIN t = 1..n
        /\ u[n + 1] = x /\ \A i \in 1..n : u[i] = t[i]
    BY <2>1
  <2>. HIDE DEF u
  <2>3. FlattenSeq(u) = FlattenSeq(t) \o x /\ FlattenSeq(t) \in Seq(Blocks)
    BY FlattenAppend DEF u
  <2>4. Allocated(FlattenSeq(u)) = Allocated(FlattenSeq(t)) \o Allocated(x)
    BY <2>3, AllocatedConcat
  <2>5. \A i \in 1..n : Allocated(t[i]) \in Seq(Nat)
    BY <2>2, AllocatedRange
  <2>6. Allocated(x) \in Seq(Nat)
    BY AllocatedRange
  <2>7. /\ Allocations(t) \in Seq(Seq(Nat)) /\ Len(Allocations(t)) = n
        /\ \A i \in 1..n : Allocations(t)[i] = Allocated(t[i])
    BY <2>2, <2>5 DEF Allocations
  <2>8. Allocations(u) = Append(Allocations(t), Allocated(x))
    <3>1. PICK p \in Seq(Seq(Nat)) : p = Allocations(t)
      BY <2>7
    <3>2. PICK y \in Seq(Nat) : y = Allocated(x)
      BY <2>6
    <3>3. /\ Append(p, y) \in Seq(Seq(Nat)) /\ Len(Append(p, y)) = n + 1 /\ Append(p, y)[n + 1] = y
          /\ \A i \in 1..n : Append(p, y)[i] = p[i]
      <4>1. Len(p) = n
        BY <2>7, <3>1
      <4>2. /\ Append(p, y) \in Seq(Seq(Nat)) /\ Len(Append(p, y)) = Len(p) + 1 /\ Append(p, y)[Len(p) + 1] = y
            /\ \A i \in 1..Len(p) : Append(p, y)[i] = p[i]
        BY AppendFacts
      <4> QED BY <4>1, <4>2
    <3>. DEFINE r == [i \in 1..(n + 1) |-> Allocated(u[i])]
    <3>4. ASSUME NEW i \in 1..(n + 1) PROVE Allocated(u[i]) = Append(p, y)[i] /\ Allocated(u[i]) \in Seq(Nat)
      <4>1. CASE i \in 1..n
        BY <2>2, <2>5, <2>7, <3>1, <3>3, <4>1
      <4>2. CASE i = n + 1
        BY <2>2, <2>6, <3>2, <3>3, <4>2
      <4>3. i \in 1..n \/ i = n + 1
        BY <2>1
      <4> QED BY <4>1, <4>2, <4>3
    <3>a. r \in Seq(Seq(Nat))
      BY <2>1, <3>4
    <3>b. Len(r) = n + 1
      BY <2>1
    <3>c. \A i \in 1..(n + 1) : r[i] = Append(p, y)[i]
      BY <3>4
    <3>5. r \in Seq(Seq(Nat)) /\ Len(r) = n + 1 /\ \A i \in 1..(n + 1) : r[i] = Append(p, y)[i]
      BY <3>a, <3>b, <3>c
    <3>6. Allocations(u) = r
      BY <2>2 DEF Allocations
    <3>. HIDE DEF r
    <3>7. r = Append(p, y)
      BY <3>3, <3>5, SequencesEqual
    <3> QED BY <3>1, <3>2, <3>6, <3>7
  <2>9. FlattenSeq(Append(Allocations(t), Allocated(x))) = FlattenSeq(Allocations(t)) \o Allocated(x)
    BY <2>6, <2>7, FlattenAppend
  <2>10. Allocated(FlattenSeq(t)) = FlattenSeq(Allocations(t))
    BY <1>2
  <2>. HIDE DEF T
  <2>11. Allocated(FlattenSeq(u)) = FlattenSeq(Allocations(u))
    BY <2>4, <2>8, <2>9, <2>10
  <2> QED BY <2>2, <2>11 DEF T, u
<1>. HIDE DEF T
<1>3. q \in T
  BY <1>1, <1>2, SequenceInduction
<1> QED BY <1>3 DEF T

\* Blocks whose spans ascend are in order.
LEMMA InOrderSame ==
  ASSUME Extracted, NEW blocks \in Seq(Blocks), Full(blocks), Ascending(Allocated(blocks)),
         SpansOf(blocks) \subseteq Spans(native)
  PROVE  InOrder(blocks) = blocks
<1>. DEFINE key == [i \in DOMAIN blocks |-> blocks[i].spans[1]]
            n == Len(native.page)
<1>0. native.page \in Seq(Nat) /\ Spans(native) = 1..n
  BY DEF Extracted
<1>1. n \in Nat
  BY <1>0
<1>. HIDE DEF n
<1>2. /\ Spread(blocks) \in Seq(Seq(Nat)) /\ DOMAIN Spread(blocks) = DOMAIN blocks
      /\ Allocated(blocks) = FlattenSeq(Spread(blocks))
      /\ \A i \in DOMAIN blocks : Spread(blocks)[i] = blocks[i].spans
  BY SpreadFacts
<1>3. ASSUME NEW i \in DOMAIN blocks
      PROVE  /\ Spread(blocks)[i] # <<>> /\ blocks[i].spans[1] \in 1..n
  <2>1. blocks[i] \in ToSet(blocks)
    BY DEF ToSet
  <2>2. blocks[i].spans # <<>> /\ blocks[i].spans \in Seq(Nat)
    <3>1. blocks[i] \in Blocks
      OBVIOUS
    <3> QED BY <2>1, <3>1 DEF Full, Blocks
  <2>3. 1 \in DOMAIN blocks[i].spans
    BY <2>2
  <2>4. blocks[i].spans[1] \in ToSet(blocks[i].spans)
    BY <2>3 DEF ToSet
  <2>5. blocks[i].spans[1] \in SpansOf(blocks)
    BY <2>1, <2>4 DEF SpansOf
  <2> QED BY <1>0, <1>2, <2>2, <2>5
<1>4. \A i, j \in DOMAIN blocks : i < j => blocks[i].spans[1] < blocks[j].spans[1]
  <2>1. \A i, j \in DOMAIN Spread(blocks) : i < j => Spread(blocks)[i][1] < Spread(blocks)[j][1]
    BY <1>2, <1>3, FirstsAscend
  <2> QED BY <1>2, <2>1
<1>5. key \in [DOMAIN blocks -> 1..n]
  BY <1>3
<1>6. ASSUME NEW i \in DOMAIN blocks, NEW j \in DOMAIN blocks, i < j PROVE key[i] <= key[j]
  <2>1. key[i] < key[j] /\ key[i] \in 1..n /\ key[j] \in 1..n
    BY <1>3, <1>4, <1>6
  <2> QED BY <1>1, <2>1
<1>. HIDE DEF key
<1>7. Sorted(blocks, key, n) = blocks
  BY <1>1, <1>5, <1>6, SortedSame
<1> QED BY <1>7, InOrderSorts DEF key, n

\* Plans that are valid for the batches are valid for them all.
LEMMA MergedValid ==
  ASSUME Extracted, NEW spans \in Seq(Nat), Ascending(spans), ToSet(spans) \subseteq Spans(native),
         DOMAIN plans = DOMAIN Batches(spans),
         \A b \in DOMAIN plans : KeptPlan(plans[b].plan) /\ PlanValid(Batches(spans)[b], plans[b].plan)
  PROVE  PlanValid(spans, Merged) /\ KeptPlan(Merged)
<1>. DEFINE q == Batches(spans)
            m == [b \in DOMAIN plans |-> plans[b].plan.blocks]
            all == FlattenSeq(m)
<1>1. q \in Seq(Seq(Nat)) /\ FlattenSeq(q) = spans
  <2>. DEFINE J == {i \in DOMAIN spans : i > 1 /\ Together(spans, i - 1)}
  <2>1. q = Pieces(spans, J)
    BY DEF Batches
  <2>. HIDE DEF J
  <2> QED BY <2>1, PiecesFlatten
<1>. HIDE DEF q
<1>2. PICK n \in Nat : n = Len(q)
  BY <1>1
<1>3. DOMAIN q = 1..n /\ DOMAIN plans = 1..n
  BY <1>1, <1>2 DEF q
<1>4. ASSUME NEW b \in 1..n
      PROVE  /\ plans[b].plan.blocks \in Seq(PlanBlocks) /\ plans[b].plan.blocks \in Seq(Blocks)
             /\ Full(plans[b].plan.blocks) /\ Allocated(plans[b].plan.blocks) = q[b]
             /\ ExclusionsProven(plans[b].plan)
  <2>1. KeptPlan(plans[b].plan) /\ PlanValid(q[b], plans[b].plan)
    BY <1>3 DEF q
  <2>2. plans[b].plan.blocks \in Seq(PlanBlocks) /\ Full(plans[b].plan.blocks)
    BY <2>1 DEF KeptPlan
  <2>3. plans[b].plan.blocks \in Seq(Blocks)
    BY <2>2, PlanBlocksAreBlocks, SeqMonotone
  <2> QED BY <2>1, <2>2, <2>3 DEF PlanValid
<1>5. m \in Seq(Seq(Blocks)) /\ m \in Seq(Seq(PlanBlocks)) /\ DOMAIN m = 1..n /\ \A b \in 1..n : m[b] = plans[b].plan.blocks
  BY <1>3, <1>4
<1>. HIDE DEF m
<1>6. Allocations(m) = q
  <2>1. \A b \in 1..n : Allocated(m[b]) = q[b]
    BY <1>4, <1>5
  <2>2. Allocations(m) = [b \in 1..n |-> q[b]]
    BY <1>5, <2>1 DEF Allocations
  <2> QED BY <1>1, <1>3, <2>2
<1>7. all \in Seq(Blocks) /\ all \in Seq(PlanBlocks) /\ ToSet(all) = UNION {ToSet(m[b]) : b \in DOMAIN m}
  BY <1>5, FlattenSeqType, FlattenRange
<1>8. Allocated(all) = spans
  BY <1>1, <1>5, <1>6, AllocatedFlatten
<1>. HIDE DEF all
<1>9. \A x \in ToSet(all) : \E b \in 1..n : x \in ToSet(plans[b].plan.blocks)
  BY <1>5, <1>7
<1>10. Full(all)
  BY <1>4, <1>9 DEF Full
<1>11. SpansOf(all) \subseteq Spans(native)
  BY <1>7, <1>8, AllocatedRange
<1>12. InOrder(all) = all
  BY <1>7, <1>8, <1>10, <1>11, InOrderSame
<1>13. Merged = [blocks |-> all, defect |-> "none"]
  BY <1>12 DEF Merged, all, m
<1>14. ExclusionsProven(Merged)
  BY <1>4, <1>9, <1>13 DEF ExclusionsProven
<1> QED BY <1>7, <1>8, <1>10, <1>13, <1>14 DEF PlanValid, KeptPlan

(***************************************************************************)
(* The inductive invariant of the conversion                               *)
(***************************************************************************)

\* What the hints of the run leave, and the document a plan makes of it.
Spare == Unplaced(Reconciled)
AppliedOf(plan) == ToSet(plan.blocks) \ Rejected(ToSet(plan.blocks))
PlacedWith(plan) ==
  [blocks   |-> Reconciled.blocks \o Picked(plan.blocks, {i \in DOMAIN plan.blocks :
                                                            /\ plan.blocks[i] \in AppliedOf(plan)
                                                            /\ plan.blocks[i].kind # "exclude"}),
   excluded |-> Reconciled.excluded \cup
                UNION {ToSet(b.spans) : b \in {b \in AppliedOf(plan) : b.kind = "exclude"}}]
Built(plan) == Completed(EnforceTables(PlacedWith(plan)))

\* A plan that is kept is none, or valid for all that the hints leave, with its texts.
PlanFits(kept, x) ==
  /\ KeptPlan(kept.plan)
  /\ \/ kept.plan = NoPlan
     \/ PlanValid(Spare, kept.plan) /\ kept.texts = [s \in ToSet(Spare) |-> x[s]]
BuiltFrom(kept, x, document) ==
  /\ PlanFits(kept, x) /\ document = Built(kept.plan)
  /\ WholeTables(document.blocks) /\ document.excluded \subseteq RepeatedEdges(Spans(native))

\* Texts differ from the source's only by what an audit of their page patched.
Outcomes == {"applied", "reused", "unavailable", "provider_failed", "rejected"}
PatchedOn(a, x) ==
  /\ x \in [Spans(native) -> Nat] /\ a \in Seq([outcome : Outcomes, patched : SUBSET Spans(native)])
  /\ Len(a) <= native.pages
  /\ \A p \in DOMAIN a : /\ a[p].patched \subseteq OnPage(p)
                         /\ a[p].outcome \in {"applied", "reused"} => HasEvidence(p)
  /\ \A s \in Spans(native) : x[s] # 0 => native.page[s] \in DOMAIN a /\ s \in a[native.page[s]].patched
  /\ a # <<>> => IsPdf(native) /\ \A s \in Spans(native) : native.page[s] \in 1..native.pages
AllPages(a) == a = <<>> \/ Len(a) = native.pages

CandidateRun == IsPdf(native) /\ job.mode = "candidate"

InputInv ==
  /\ Sourced /\ conversions \in Nat
  /\ phase \in {"correcting", "placing", "repairing", "completing", "judging", "gate", "published",
                "refused", "aborted"}
  /\ job.mode = "legacy" => verdict = "none" /\ phase # "judging"
CorrectionInv ==
  /\ PatchedOn(audits, texts)
  /\ phase = "correcting" => page = Len(audits) + 1 /\ IsPdf(native) /\ (audits # <<>> => Planned)
  /\ phase \notin {"correcting", "aborted"} => AllPages(audits)

\* Every batch has no plan yet, or one that is valid for its spans.
BatchPlans ==
  /\ DOMAIN plans = DOMAIN Batches(Spare)
  /\ \A b \in DOMAIN plans :
       plans[b].plan = NoPlan \/ (KeptPlan(plans[b].plan) /\ PlanValid(Batches(Spare)[b], plans[b].plan))
PlacingInv ==
  /\ KeptPlan(repair.plan)
  /\ phase \in {"repairing", "completing"} => placed = Reconciled
  /\ phase = "repairing" => BatchPlans
  /\ phase = "completing" =>
       RepairShape(repair) /\ PlanFits(repair, texts) /\ repair.applied = ToSet(repair.plan.blocks)
FinalInv ==
  /\ phase \in {"correcting", "placing", "repairing", "completing"} => final = NoDocument
  /\ phase \in {"judging", "gate"} => CandidateRun \/ BuiltFrom(repair, texts, final)
  /\ final # NoDocument => BuiltFrom(repair, texts, final)
SavedInv ==
  /\ conversions > 1 \/ phase = "published" => saved.published
  /\ saved.published =>
       /\ KeptPlan(saved.repair.plan)
       /\ saved.doc = native /\ PatchedOn(saved.audits, saved.texts) /\ AllPages(saved.audits)
       /\ saved.final # NoDocument => BuiltFrom(saved.repair, saved.texts, saved.final)
       /\ saved.mode = "legacy" => Settled(saved)

\* A run with nothing of its contract changed since the settled run that it may reuse.
Reusing ==
  /\ phase # "published" /\ saved.published /\ saved.final # NoDocument /\ Settled(saved)
  /\ ~job.drifted /\ job.provider /\ ~CandidateRun
ReuseInv ==
  Reusing =>
    /\ phase = "correcting" =>
         \A s \in Spans(native) : texts[s] = IF native.page[s] < page THEN saved.texts[s] ELSE 0
    /\ phase \in {"placing", "completing", "judging", "gate", "refused"} => texts = saved.texts
    /\ phase # "repairing"
    /\ phase = "completing" => repair.plan = saved.repair.plan /\ repair.outcome \in {"none", "reused"}
    /\ phase \in {"judging", "gate", "refused"} =>
         final = saved.final /\ repair.outcome \notin {"applied", "degraded"}

ConversionInv == InputInv /\ CorrectionInv /\ PlacingInv /\ FinalInv /\ SavedInv /\ ReuseInv

(***************************************************************************)
(* What only depends on the source stays as it is from step to step        *)
(***************************************************************************)

SameInput == job.doc' = job.doc /\ job.hints' = job.hints

\* Every step is over one source and one set of hints, a later run included.
LEMMA SourceStays == ASSUME [ConvertNext]_convertVars PROVE SameInput
<1>1. CASE ConvertNext
  <2>1. CASE Convert
    BY <2>1 DEF Convert, Job, native, SameInput
  <2>2. CASE \E p \in 1..native.pages : PageWithoutEvidence(p) \/ Reuse(p) \/ PageWithoutProvider(p) \/ CorrectPage(p)
    BY <2>2 DEF PageWithoutEvidence, Reuse, PageWithoutProvider, CorrectPage, Asking, Correcting, SameInput
  <2>3. CASE \E b \in DOMAIN plans : AskBatch(b) \/ RepairFails(b)
    BY <2>3 DEF AskBatch, RepairFails, Repaired, SameInput
  <2>4. CASE \/ SkipCorrection \/ EndCorrection \/ PlaceByHints \/ GivesUp \/ MergePlans \/ Complete \/ Judge \/ Publish
    BY <2>4 DEF SkipCorrection, EndCorrection, PlaceByHints, Structured, GivesUp, MergePlans, Repaired, Complete,
                Judge, Publish, SameInput
  <2> QED BY <1>1, <2>1, <2>2, <2>3, <2>4 DEF ConvertNext
<1>2. CASE UNCHANGED convertVars
  BY <1>2 DEF convertVars, SameInput
<1> QED BY <1>1, <1>2

LEMMA SourcedStays == ASSUME Sourced, SameInput PROVE Sourced'
BY DEF Sourced, SameInput

\* Audits and texts that fit, and are what the step leaves, fit behind it.
LEMMA PatchedStays ==
  ASSUME SameInput, NEW a, NEW x, PatchedOn(a, x), audits' = a, texts' = x PROVE PatchedOn(audits, texts)'
BY DEF SameInput, PatchedOn, OnPage, HasEvidence, IsPdf, native

LEMMA SavedPatchedStays ==
  ASSUME SameInput, NEW s, PatchedOn(s.audits, s.texts), saved' = s PROVE PatchedOn(saved.audits, saved.texts)'
BY DEF SameInput, PatchedOn, OnPage, HasEvidence, IsPdf, native

\* The hints leave the same spans, in the same batches.
LEMMA ReconciledStays ==
  ASSUME SameInput
  PROVE  /\ Reconciled' = Reconciled /\ Spare' = Spare /\ RepeatedEdges(Spans(native))' = RepeatedEdges(Spans(native))
         /\ Batches(Spare)' = Batches(Spare)
<1>1. Reconciled' = Reconciled
  BY DEF SameInput, Reconciled, RepeatedEdges, Alone, native
<1>2. Spare' = Spare
  BY DEF SameInput, Spare, Unplaced, Ordered, Reconciled, RepeatedEdges, Alone, native
<1>3. RepeatedEdges(Spans(native))' = RepeatedEdges(Spans(native))
  BY DEF SameInput, RepeatedEdges, native
<1>4. Batches(Spare)' = Batches(Spare)
  BY SMTT(20) DEF SameInput, Batches, Together, Ranges, Spare, Unplaced, Ordered, Reconciled, RepeatedEdges, Alone, native
<1> QED BY <1>1, <1>2, <1>3, <1>4

\* A plan that fits, and is what the step leaves, fits behind it.
LEMMA PlanFitsStays ==
  ASSUME SameInput, NEW r, NEW x, PlanFits(r, x), repair' = r, texts' = x PROVE PlanFits(repair, texts)'
BY SMTT(20) DEF SameInput, PlanFits, PlanValid, ExclusionsProven, Spare, Unplaced, Ordered, Reconciled, RepeatedEdges,
       Alone, native

LEMMA BatchPlansStays ==
  ASSUME SameInput, NEW q, plans' = q, DOMAIN q = DOMAIN Batches(Spare),
         \A b \in DOMAIN q :
           q[b].plan = NoPlan \/ (KeptPlan(q[b].plan) /\ PlanValid(Batches(Spare)[b], q[b].plan))
  PROVE  BatchPlans'
<1>1. Batches(Spare)' = Batches(Spare) /\ RepeatedEdges(Spans(native))' = RepeatedEdges(Spans(native))
  BY ReconciledStays
<1> QED BY <1>1 DEF BatchPlans, PlanValid, ExclusionsProven

\* A plan makes the same document.
LEMMA BuiltSame ==
  ASSUME SameInput, NEW p PROVE Built(p)' = Built(p)
<1>1. PlacedWith(p)' = PlacedWith(p)
  BY DEF SameInput, PlacedWith, AppliedOf, Rejected, Touches, IsNative, Crosses, Region, Reconciled, RepeatedEdges,
         Alone, native
<1>2. PICK d : d = PlacedWith(p)
  OBVIOUS
<1>3. EnforceTables(d)' = EnforceTables(d)
  BY DEF SameInput, EnforceTables, EnforceTable, IsWhole, InOneBlock, Touching, Touches, IsNative, Crosses, Region,
         Ordered, native
<1>4. PICK e : e = EnforceTables(d)
  OBVIOUS
<1>5. Completed(e)' = Completed(e)
  BY DEF SameInput, Completed, LosslessBlocks, InOrder, Unplaced, Ordered, native
<1> QED BY <1>1, <1>2, <1>3, <1>4, <1>5 DEF Built

\* A document made of a plan that fits is one behind the step.
LEMMA BuiltStays ==
  ASSUME SameInput, NEW r, NEW x, NEW d, BuiltFrom(r, x, d), repair' = r, texts' = x, final' = d
  PROVE  BuiltFrom(repair, texts, final)'
<1>1. PlanFits(repair, texts)'
  BY PlanFitsStays DEF BuiltFrom
<1>2. Built(repair.plan)' = Built(r.plan)
  <2>1. PICK p : p = r.plan
    OBVIOUS
  <2>2. Built(p)' = Built(p)
    BY BuiltSame
  <2> QED BY <2>1, <2>2
<1>3. WholeTables(final.blocks)'
  BY DEF SameInput, BuiltFrom, WholeTables, native
<1>4. (final.excluded \subseteq RepeatedEdges(Spans(native)))'
  BY ReconciledStays DEF BuiltFrom
<1>5. (final = Built(repair.plan))'
  BY <1>2 DEF BuiltFrom
<1> QED BY <1>1, <1>3, <1>4, <1>5 DEF BuiltFrom

LEMMA SavedBuiltStays ==
  ASSUME SameInput, NEW s, BuiltFrom(s.repair, s.texts, s.final), saved' = s
  PROVE  BuiltFrom(saved.repair, saved.texts, saved.final)'
<1>1. PlanFits(saved.repair, saved.texts)'
  BY ReconciledStays DEF BuiltFrom, PlanFits, PlanValid, ExclusionsProven
<1>2. Built(saved.repair.plan)' = Built(s.repair.plan)
  <2>1. PICK p : p = s.repair.plan
    OBVIOUS
  <2>2. Built(p)' = Built(p)
    BY BuiltSame
  <2> QED BY <2>1, <2>2
<1>3. WholeTables(saved.final.blocks)'
  BY DEF SameInput, BuiltFrom, WholeTables, native
<1>4. (saved.final.excluded \subseteq RepeatedEdges(Spans(native)))'
  BY ReconciledStays DEF BuiltFrom
<1>5. (saved.final = Built(saved.repair.plan))'
  BY <1>2 DEF BuiltFrom
<1> QED BY <1>1, <1>3, <1>4, <1>5 DEF BuiltFrom

(***************************************************************************)
(* What a plan makes of the document                                       *)
(***************************************************************************)

\* What the hints leave ascends, and each of it once.
LEMMA SpareFacts ==
  ASSUME Extracted
  PROVE  /\ Spare \in Seq(Nat) /\ IsInjective(Spare) /\ Ascending(Spare)
         /\ ToSet(Spare) = Spans(native) \ (SpansOf(Reconciled.blocks) \cup Reconciled.excluded)
<1>1. Reconciled.blocks \in Seq(Blocks)
  BY ReconciledFacts DEF SoundDocument, Arrangements
<1> QED BY <1>1, UnplacedFacts DEF Spare

\* A plan that fits is in order.
LEMMA FittingPlan ==
  ASSUME Extracted, NEW plan, KeptPlan(plan), plan = NoPlan \/ PlanValid(Spare, plan)
  PROVE  /\ InOrder(plan.blocks) = plan.blocks /\ [plan EXCEPT !.blocks = InOrder(plan.blocks)] = plan
         /\ Spare = <<>> => plan = NoPlan
<1>. DEFINE blocks == plan.blocks
<1>1. plan = [blocks |-> blocks, defect |-> "none"] /\ blocks \in Seq(Blocks) /\ Full(blocks)
  <2>1. plan \in [blocks : Seq(PlanBlocks), defect : {"none"}] /\ Full(blocks)
    BY DEF KeptPlan
  <2>2. blocks \in Seq(Blocks)
    BY <2>1, PlanBlocksAreBlocks, SeqMonotone
  <2> QED BY <2>1, <2>2
<1>2. Allocated(blocks) \in Seq(Nat) /\ ToSet(Allocated(blocks)) = SpansOf(blocks)
  <2>. HIDE DEF blocks
  <2> QED BY <1>1, AllocatedRange
<1>3. Ascending(Allocated(blocks)) /\ SpansOf(blocks) \subseteq Spans(native)
  <2>1. CASE plan = NoPlan
    <3>1. blocks = <<>>
      BY <2>1 DEF NoPlan
    <3>2. DOMAIN <<>> = {} /\ ToSet(<<>>) = {} /\ <<>> \in Seq(Blocks)
      BY DEF ToSet
    <3>3. Spread(<<>>) = <<>>
      BY <3>2 DEF Spread
    <3>4. Allocated(<<>>) = <<>>
      BY <3>2, <3>3, SpreadFacts, FlattenEmpty
    <3>5. Ascending(<<>>) /\ SpansOf(<<>>) = {}
      BY <3>2 DEF Ascending, SpansOf
    <3>. HIDE DEF blocks
    <3> QED BY <3>1, <3>4, <3>5
  <2>2. CASE PlanValid(Spare, plan)
    <3>1. Allocated(blocks) = Spare
      BY <2>2 DEF PlanValid
    <3> QED BY <1>2, <3>1, SpareFacts
  <2> QED BY <2>1, <2>2
<1>4. InOrder(blocks) = blocks
  <2>. HIDE DEF blocks
  <2> QED BY <1>1, <1>3, InOrderSame
<1>5. ASSUME Spare = <<>>, PlanValid(Spare, plan) PROVE plan = NoPlan
  <2>1. Allocated(blocks) = <<>>
    BY <1>5 DEF PlanValid
  <2>2. SpansOf(blocks) = {}
    BY <1>2, <2>1 DEF ToSet
  <2>3. blocks = <<>>
    <3>1. ASSUME blocks # <<>> PROVE FALSE
      <4>1. 1 \in DOMAIN blocks /\ blocks[1] \in Blocks
        BY <1>1, <3>1
      <4>2. blocks[1] \in ToSet(blocks)
        BY <4>1 DEF ToSet
      <4>3. blocks[1].spans # <<>> /\ blocks[1].spans \in Seq(Nat)
        BY <1>1, <4>1, <4>2 DEF Full, Blocks
      <4>4. blocks[1].spans[1] \in ToSet(blocks[1].spans)
        BY <4>3 DEF ToSet
      <4> QED BY <2>2, <4>2, <4>4 DEF SpansOf
    <3> QED BY <3>1
  <2> QED BY <1>1, <2>3 DEF NoPlan
<1> QED BY <1>1, <1>4, <1>5

\* A document without a lossless block was whole without a plan only when the hints left nothing.
LEMMA UndegradedHasPlan ==
  ASSUME Extracted, ~Degraded(Built(NoPlan)) PROVE Spare = <<>>
<1>. DEFINE d == PlacedWith(NoPlan)
<1>1. /\ SoundDocument(Reconciled) /\ Reconciled.blocks \in Seq(Blocks) /\ Reconciled \in Arrangements
  BY ReconciledFacts DEF SoundDocument, Arrangements
<1>2. d = Reconciled
  <2>1. NoPlan.blocks = <<>> /\ ToSet(<<>>) = {} /\ DOMAIN <<>> = {}
    BY DEF NoPlan, ToSet
  <2>2. AppliedOf(NoPlan) = {}
    BY <2>1 DEF AppliedOf
  <2>3. Picked(NoPlan.blocks, {i \in DOMAIN NoPlan.blocks : /\ NoPlan.blocks[i] \in AppliedOf(NoPlan)
                                                           /\ NoPlan.blocks[i].kind # "exclude"}) = <<>>
    BY <2>1, PickedEmpty
  <2>4. UNION {ToSet(b.spans) : b \in {b \in AppliedOf(NoPlan) : b.kind = "exclude"}} = {}
    BY <2>2
  <2>5. d = [blocks |-> Reconciled.blocks \o <<>>, excluded |-> Reconciled.excluded \cup {}]
    BY <2>3, <2>4 DEF PlacedWith
  <2>6. PICK q \in Seq(Blocks) : q = Reconciled.blocks
    BY <1>1
  <2>7. q \o <<>> = q
    OBVIOUS
  <2>8. Reconciled = [blocks |-> Reconciled.blocks, excluded |-> Reconciled.excluded]
    BY <1>1 DEF Arrangements
  <2>. HIDE DEF d
  <2> QED BY <2>5, <2>6, <2>7, <2>8
<1>. HIDE DEF d
<1>. DEFINE e == EnforceTables(d)
<1>3. Built(NoPlan) = Completed(e)
  BY DEF Built, d
<1>4. \A b \in ToSet(Completed(e).blocks) : b.kind # "lossless"
  BY <1>3 DEF Degraded
<1>5. SoundDocument(e)
  <2>1. \A b \in ToSet(Reconciled.blocks) : b.kind # "lossless"
    BY ReconciledFacts
  <2> QED BY <1>1, <1>2, <2>1, EnforceTablesFacts DEF Enforced
<1>6. ToSet(Completed(e).blocks) = ToSet(e.blocks) \cup ToSet(LosslessBlocks(e))
  <2>. HIDE DEF e
  <2> QED BY <1>5, CompletedFacts
<1>7. e = Reconciled
  <2>1. \A b \in ToSet(EnforceTables(Reconciled).blocks) : b.kind # "lossless"
    BY <1>2, <1>4, <1>6
  <2> QED BY <1>1, <1>2, <2>1, EnforceTablesNothing
<1>. HIDE DEF e
<1>8. /\ \A b \in ToSet(LosslessBlocks(Reconciled)) : b.kind = "lossless"
      /\ SpansOf(LosslessBlocks(Reconciled)) = ToSet(Spare)
  BY <1>1, LosslessBlocksFacts, SpareFacts
<1>9. ToSet(LosslessBlocks(Reconciled)) = {}
  BY <1>4, <1>6, <1>7, <1>8
<1>10. ToSet(Spare) = {}
  BY <1>8, <1>9 DEF SpansOf
<1> QED BY <1>10, SpareFacts DEF ToSet

\* The completed document is the one the plan makes, and the record keeps the plan.
LEMMA CompleteBuilds ==
  ASSUME Extracted, placed = Reconciled, RepairShape(repair), PlanFits(repair, texts),
         repair.applied = ToSet(repair.plan.blocks)
  PROVE  LET document == Completed(EnforceTables(Accepted(TablesChecked)))
             kept == Reordered(TablesChecked)
         IN  /\ Covered(document) /\ document = Built(repair.plan) /\ kept.plan = repair.plan
             /\ kept.outcome \in {repair.outcome, "rejected"} /\ BuiltFrom(kept, texts, document)
<1>. DEFINE checked == TablesChecked
            kept == Reordered(checked)
            document == Completed(EnforceTables(Accepted(checked)))
            plan == repair.plan
            rejected == Rejected(ToSet(plan.blocks))
<1>1. repair = [outcome |-> repair.outcome, plan |-> repair.plan, applied |-> repair.applied, texts |-> repair.texts]
  BY DEF RepairShape
<1>. HIDE DEF checked, kept, document, rejected
<1>2. /\ KeptPlan(plan)
      /\ plan = NoPlan \/ (PlanValid(Spare, plan) /\ repair.texts = [s \in ToSet(Spare) |-> texts[s]])
  BY DEF PlanFits
<1>3. RepairFits(repair)
  BY <1>2 DEF RepairFits, Spare
<1>4. /\ Covered(document) /\ document.excluded \subseteq RepeatedEdges(Spans(native))
      /\ WholeTables(document.blocks)
  BY <1>3, CompletionFacts DEF document, checked
<1>5. /\ checked = [outcome |-> checked.outcome, plan |-> plan, applied |-> checked.applied, texts |-> repair.texts]
      /\ checked.applied = AppliedOf(plan) /\ checked.outcome \in {repair.outcome, "rejected"}
  <2>1. checked = IF rejected = {} THEN repair ELSE [repair EXCEPT !.outcome = "rejected", !.applied = @ \ rejected]
    BY DEF TablesChecked, checked, rejected
  <2>2. AppliedOf(plan) = ToSet(plan.blocks) \ rejected
    BY DEF AppliedOf, rejected
  <2>3. CASE rejected = {}
    BY <1>1, <2>1, <2>2, <2>3
  <2>4. CASE rejected # {}
    <3>1. PICK k : k = [repair EXCEPT !.outcome = "rejected", !.applied = @ \ rejected]
      OBVIOUS
    <3>2. k.outcome = "rejected" /\ k.plan = repair.plan /\ k.applied = repair.applied \ rejected /\ k.texts = repair.texts
      BY <1>1, <3>1
    <3>3. k = [outcome |-> k.outcome, plan |-> k.plan, applied |-> k.applied, texts |-> k.texts]
      BY <1>1, <3>1
    <3>4. checked = k
      BY <2>1, <2>4, <3>1
    <3> QED BY <2>2, <3>2, <3>3, <3>4
  <2> QED BY <2>3, <2>4
<1>6. Accepted(checked) = PlacedWith(plan)
  <2>1. checked.plan = plan /\ checked.applied = AppliedOf(plan)
    BY <1>5
  <2>. HIDE DEF plan
  <2> QED BY <2>1 DEF Accepted, PlacedWith
<1>7. document = Built(plan)
  BY <1>6 DEF Built, document
<1>8. kept.plan = plan /\ kept.outcome = checked.outcome /\ kept.texts = repair.texts
  <2>1. [plan EXCEPT !.blocks = InOrder(plan.blocks)] = plan
    BY <1>2, FittingPlan
  <2>2. PICK c : c = checked
    OBVIOUS
  <2>3. c = [outcome |-> c.outcome, plan |-> plan, applied |-> c.applied, texts |-> repair.texts]
    BY <1>5, <2>2
  <2>. HIDE DEF plan
  <2>4. Reordered(c) = [c EXCEPT !.plan = [plan EXCEPT !.blocks = InOrder(plan.blocks)]]
    BY <2>3 DEF Reordered
  <2>5. Reordered(c) = [c EXCEPT !.plan = plan]
    BY <2>1, <2>4
  <2>6. Reordered(c).plan = plan /\ Reordered(c).outcome = c.outcome /\ Reordered(c).texts = repair.texts
    BY <2>3, <2>5
  <2> QED BY <2>2, <2>6 DEF kept
<1>9. PlanFits(kept, texts)
  BY <1>2, <1>8 DEF PlanFits
<1>10. BuiltFrom(kept, texts, document)
  BY <1>4, <1>7, <1>8, <1>9 DEF BuiltFrom
<1> QED BY <1>4, <1>5, <1>7, <1>8, <1>10 DEF kept, document, checked

(***************************************************************************)
(* Answers, and the parts of the invariant a step leaves alone             *)
(***************************************************************************)

\* The batches of what the hints leave: none is empty.
LEMMA BatchFacts ==
  ASSUME Extracted
  PROVE  \A b \in DOMAIN Batches(Spare) : Batches(Spare)[b] \in Seq(Nat) /\ Batches(Spare)[b] # <<>>
<1>. DEFINE J == {i \in DOMAIN Spare : i > 1 /\ Together(Spare, i - 1)}
<1>1. Batches(Spare) = Pieces(Spare, J) /\ Spare \in Seq(Nat)
  BY SpareFacts DEF Batches
<1>. HIDE DEF J
<1>2. PICK q \in Seq(Seq(Nat)) : q = Batches(Spare) /\ \A b \in DOMAIN q : q[b] # <<>>
  BY <1>1, PiecesFlatten
<1> QED BY <1>2

\* An answer that is valid is a plan to keep.
LEMMA ValidReply ==
  ASSUME NEW spans \in Seq(Nat), spans # <<>>, NEW plan \in PlanReplies(spans), PlanValid(spans, plan)
  PROVE  KeptPlan(plan)
<1>. DEFINE Altered == {Tail(spans), Append(spans, spans[1]), Append(spans, 0), Reverse(spans)}
            Single(t, d) == Plan(<<Block("text", t)>>, d)
<1>1. plan \in PartitionPlans(spans) \/ \E t \in Altered \cup {spans}, d \in {"none", "schema", "order", "table", "confidence"} : plan = Single(t, d)
  BY DEF PlanReplies
<1>2. plan.defect = "none" /\ Allocated(plan.blocks) = spans
  BY DEF PlanValid
<1>3. CASE plan \in PartitionPlans(spans)
  <2>1. PICK split \in Partitions(spans) :
          \E kinds \in [DOMAIN split -> {"text", "table", "exclude"}] :
            plan = [blocks |-> [i \in DOMAIN split |-> Block(kinds[i], split[i])], defect |-> "none"]
    BY <1>3 DEF PartitionPlans, Plan
  <2>2. PICK kinds \in [DOMAIN split -> {"text", "table", "exclude"}] :
          plan = [blocks |-> [i \in DOMAIN split |-> Block(kinds[i], split[i])], defect |-> "none"]
    BY <2>1
  <2>3. PICK J : split = Pieces(spans, J)
    BY DEF Partitions
  <2>4. split \in Seq(Seq(Nat)) /\ \A i \in DOMAIN split : split[i] # <<>>
    BY <2>3, PiecesFlatten
  <2>5. PICK n \in Nat : n = Len(split)
    BY <2>4
  <2>6. DOMAIN split = 1..n /\ \A i \in 1..n : split[i] \in Seq(Nat) /\ split[i] # <<>> /\ kinds[i] \in {"text", "table", "exclude"}
    <3>1. DOMAIN split = 1..n /\ \A i \in 1..n : split[i] \in Seq(Nat)
      BY <2>4, <2>5
    <3> QED BY <2>4, <3>1
  <2>. DEFINE blocks == [i \in 1..n |-> Block(kinds[i], split[i])]
  <2>7. \A i \in 1..n : Block(kinds[i], split[i]) \in PlanBlocks /\ Block(kinds[i], split[i]).spans # <<>>
    BY <2>6 DEF Block, PlanBlocks
  <2>8. blocks \in Seq(PlanBlocks) /\ Full(blocks)
    <3>1. blocks \in Seq(PlanBlocks)
      BY <2>5, <2>7
    <3>2. \A b \in ToSet(blocks) : b.spans # <<>>
      BY <2>7 DEF ToSet
    <3> QED BY <3>1, <3>2 DEF Full
  <2>9. plan = [blocks |-> blocks, defect |-> "none"]
    BY <2>2, <2>6
  <2>. HIDE DEF blocks
  <2> QED BY <2>8, <2>9 DEF KeptPlan
<1>4. CASE \E t \in Altered \cup {spans}, d \in {"none", "schema", "order", "table", "confidence"} : plan = Single(t, d)
  <2>1. PICK s \in Altered \cup {spans}, d \in {"none", "schema", "order", "table", "confidence"} : plan = Single(s, d)
    BY <1>4
  <2>2. s \in Seq(Nat)
    <3>1. Tail(spans) \in Seq(Nat) /\ spans[1] \in Nat
      OBVIOUS
    <3>2. Append(spans, spans[1]) \in Seq(Nat) /\ Append(spans, 0) \in Seq(Nat)
      BY <3>1
    <3>3. Reverse(spans) \in Seq(Nat)
      BY DEF Reverse
    <3> QED BY <3>1, <3>2, <3>3
  <2>. DEFINE b == Block("text", s)
  <2>3. b \in PlanBlocks /\ b.spans = s
    BY <2>2 DEF Block, PlanBlocks
  <2>. HIDE DEF b
  <2>4. <<b>> \in Seq(PlanBlocks) /\ <<b>> \in Seq(Blocks) /\ ToSet(<<b>>) = {b}
    <3>1. b \in Blocks
      BY <2>3, PlanBlocksAreBlocks
    <3> QED BY <2>3, <3>1 DEF ToSet
  <2>5. Allocated(<<b>>) = spans
    BY <1>2, <2>1 DEF b, Plan
  <2>6. ToSet(spans) = ToSet(s)
    <3>1. ToSet(Allocated(<<b>>)) = SpansOf(<<b>>)
      BY <2>4, AllocatedRange
    <3>2. SpansOf(<<b>>) = ToSet(s)
      BY <2>3, <2>4 DEF SpansOf
    <3> QED BY <2>5, <3>1, <3>2
  <2>7. s # <<>>
    <3>1. spans[1] \in ToSet(spans)
      BY DEF ToSet
    <3>2. ToSet(<<>>) = {}
      BY DEF ToSet
    <3> QED BY <2>6, <3>1, <3>2
  <2>8. Full(<<b>>)
    BY <2>3, <2>4, <2>7 DEF Full
  <2>9. plan = [blocks |-> <<b>>, defect |-> "none"]
    BY <1>2, <2>1 DEF b, Plan
  <2> QED BY <2>4, <2>8, <2>9 DEF KeptPlan
<1>. HIDE DEF Altered
<1> QED BY <1>1, <1>3, <1>4

\* A record of a plan that fits.
LEMMA RecordFits ==
  ASSUME NEW outcome, NEW plan, KeptPlan(plan), plan = NoPlan \/ PlanValid(Spare, plan)
  PROVE  LET r == RepairRecord(outcome, plan, Spare)
         IN  /\ RepairShape(r) /\ PlanFits(r, texts) /\ r.applied = ToSet(r.plan.blocks)
             /\ r.plan = plan /\ r.outcome = outcome
BY DEF RepairRecord, RepairShape, PlanFits, TextsOf

\* The empty record has no plan and applies nothing.
LEMMA NoRepairShape ==
  /\ RepairShape(NoRepair) /\ PlanFits(NoRepair, texts) /\ NoRepair.applied = ToSet(NoRepair.plan.blocks)
  /\ NoRepair.plan = NoPlan /\ NoRepair.outcome = "none" /\ KeptPlan(NoPlan)
<1>1. RepairShape(NoRepair) /\ KeptPlan(NoPlan)
  BY NoRepairFits DEF RepairFits, RepairShape, NoRepair
<1>2. NoRepair.applied = ToSet(NoRepair.plan.blocks) /\ NoRepair.plan = NoPlan /\ NoRepair.outcome = "none"
  BY DEF NoRepair, NoPlan, ToSet
<1> QED BY <1>1, <1>2 DEF PlanFits

\* The parts of the invariant, over a step that leaves their variables alone.
LEMMA CorrectionKept ==
  ASSUME SameInput, CorrectionInv, audits' = audits, texts' = texts, phase' # "correcting",
         phase' = "aborted" \/ phase \notin {"correcting", "aborted"} \/ AllPages(audits)
  PROVE  CorrectionInv'
<1>1. PatchedOn(audits, texts)'
  <2>1. PICK a, x : a = audits /\ x = texts
    OBVIOUS
  <2> QED BY <2>1, PatchedStays DEF CorrectionInv
<1>2. native' = native
  BY DEF SameInput, native
<1>3. phase' = "aborted" \/ AllPages(audits)'
  BY <1>2 DEF CorrectionInv, AllPages
<1> QED BY <1>1, <1>3 DEF CorrectionInv

LEMMA FinalEmpty ==
  ASSUME final' = NoDocument, phase' \notin {"judging", "gate"} \/ CandidateRun' PROVE FinalInv'
BY DEF FinalInv

LEMMA FinalKept ==
  ASSUME SameInput, FinalInv, job.mode' = job.mode, repair' = repair, texts' = texts, final' = final,
         phase' \notin {"correcting", "placing", "repairing", "completing"},
         phase' \in {"judging", "gate"} => phase \in {"judging", "gate"}
  PROVE  FinalInv'
<1>1. CandidateRun' = CandidateRun
  BY DEF SameInput, CandidateRun, native
<1>2. ASSUME BuiltFrom(repair, texts, final) PROVE BuiltFrom(repair, texts, final)'
  <2>1. PICK r, x, d : r = repair /\ x = texts /\ d = final
    OBVIOUS
  <2> QED BY <1>2, <2>1, BuiltStays
<1> QED BY <1>1, <1>2 DEF FinalInv

LEMMA SavedKept ==
  ASSUME SameInput, SavedInv, saved' = saved, conversions' = conversions, phase' # "published"
  PROVE  SavedInv'
<1>1. native' = native
  BY DEF SameInput, native
<1>2. PICK s : s = saved
  OBVIOUS
<1>3. PatchedOn(saved.audits, saved.texts) => PatchedOn(saved.audits, saved.texts)'
  BY <1>2, SavedPatchedStays
<1>4. BuiltFrom(saved.repair, saved.texts, saved.final) => BuiltFrom(saved.repair, saved.texts, saved.final)'
  BY <1>2, SavedBuiltStays
<1>5. AllPages(saved.audits) => AllPages(saved.audits)'
  BY <1>1 DEF AllPages
<1>6. Settled(saved) => Settled(saved)'
  OBVIOUS
<1> QED BY <1>1, <1>3, <1>4, <1>5, <1>6 DEF SavedInv

LEMMA PlacingGone == ASSUME phase' \notin {"repairing", "completing"}, KeptPlan(repair'.plan) PROVE PlacingInv'
BY DEF PlacingInv

\* A run keeps what decides whether it reuses.
LEMMA ReusingKept ==
  ASSUME job' = job, saved' = saved, phase # "published", Reusing' PROVE Reusing
BY DEF Reusing, CandidateRun, native

(***************************************************************************)
(* The invariant holds at first, and every step keeps it                   *)
(***************************************************************************)

\* A run begins without audits, and with the texts of the source.
LEMMA FreshPatched == ASSUME Extracted PROVE PatchedOn(<<>>, [s \in Spans(native) |-> 0])
<1>. DEFINE x == [s \in Spans(native) |-> 0]
<1>1. x \in [Spans(native) -> Nat] /\ \A s \in Spans(native) : x[s] = 0
  OBVIOUS
<1>2. /\ <<>> \in Seq([outcome : Outcomes, patched : SUBSET Spans(native)]) /\ Len(<<>>) = 0
      /\ DOMAIN <<>> = {} /\ native.pages \in Nat
  BY DEF Extracted
<1>. HIDE DEF x
<1> QED BY <1>1, <1>2 DEF PatchedOn

\* The invariant holds of the first run before it does anything.
LEMMA ConversionStarts == ConvertInit => ConversionInv
<1>. SUFFICES ASSUME ConvertInit PROVE ConversionInv
  OBVIOUS
<1>1. PICK source \in Natives : \E hints \in source.hints : \E setting \in Settings : job = Job(source.doc, hints, setting)
  BY DEF ConvertInit
<1>2. PICK hints \in source.hints, setting \in Settings : job = Job(source.doc, hints, setting)
  BY <1>1
<1>3. job.doc = source.doc /\ job.hints = hints
  BY <1>2 DEF Job
<1>4. Sourced /\ Extracted
  BY <1>3, SourcedExtracted DEF Sourced
<1>5. /\ phase = FirstPhase(job) /\ page = 1 /\ texts = [s \in Spans(native) |-> 0] /\ audits = <<>>
      /\ final = NoDocument /\ verdict = "none" /\ saved = NotSaved /\ conversions = 1
  BY DEF ConvertInit
<1>6. /\ phase \in {"correcting", "placing", "judging"} /\ (phase = "correcting" => IsPdf(native))
      /\ phase = "judging" => job.mode = "candidate" /\ CandidateRun
  BY <1>5 DEF FirstPhase, CandidateRun, native
<1>7. InputInv
  BY <1>4, <1>5, <1>6 DEF InputInv
<1>8. CorrectionInv
  <2>1. PatchedOn(audits, texts)
    BY <1>4, <1>5, FreshPatched
  <2>2. page = Len(audits) + 1 /\ AllPages(audits)
    BY <1>5 DEF AllPages
  <2> QED BY <1>5, <1>6, <2>1, <2>2 DEF CorrectionInv
<1>9. PlacingInv
  <2>1. repair = NoRepair
    BY DEF ConvertInit
  <2> QED BY <1>6, <2>1, NoRepairShape DEF PlacingInv
<1>10. FinalInv
  BY <1>5, <1>6 DEF FinalInv
<1>11. saved.published = FALSE
  BY <1>5 DEF NotSaved
<1>12. SavedInv /\ ReuseInv
  BY <1>5, <1>6, <1>11 DEF SavedInv, ReuseInv, Reusing
<1> QED BY <1>7, <1>8, <1>9, <1>10, <1>12 DEF ConversionInv

\* Such a run reuses every page.
LEMMA ReusingPage ==
  ASSUME ConversionInv, Reusing, IsPdf(native), NEW p \in 1..native.pages
  PROVE  /\ HasEvidence(p) /\ Reusable(p)
         /\ DOMAIN saved.audits = 1..native.pages
<1>1. saved.published /\ Settled(saved) /\ saved.doc = native /\ PatchedOn(saved.audits, saved.texts)
  BY DEF ConversionInv, SavedInv, Reusing
<1>2. DOMAIN saved.audits = 1..native.pages /\ \A q \in DOMAIN saved.audits : saved.audits[q].outcome \in {"applied", "reused"}
  BY <1>1 DEF Settled
<1>3. HasEvidence(p)
  BY <1>1, <1>2 DEF PatchedOn
<1>4. saved.audits # <<>>
  <2>1. DOMAIN <<>> = {} /\ p \in DOMAIN saved.audits
    BY <1>2
  <2> QED BY <2>1
<1> QED BY <1>1, <1>2, <1>3, <1>4 DEF Reusable, Reusing

\* The audit of a page, and the texts it leaves.
LEMMA PageStep ==
  ASSUME ConversionInv, NEW p \in 1..native.pages, Correcting(p),
         NEW o \in Outcomes, NEW q \in SUBSET OnPage(p), NEW w, PageAudited(o, q, w),
         o \in {"applied", "reused"} => HasEvidence(p),
         texts' \in [Spans(native) -> Nat], \A s \in Spans(native) : texts'[s] = texts[s] \/ s \in q,
         Reusing => q = saved.audits[p].patched /\ \A s \in q : texts'[s] = saved.texts[s]
  PROVE  ConversionInv'
<1>1. /\ phase = "correcting" /\ page = p /\ Planned
      /\ UNCHANGED <<job, phase, placed, plans, repair, final, verdict, saved, conversions>>
  BY DEF Correcting
<1>2. SameInput /\ native' = native
  BY <1>1 DEF SameInput, native
<1>3. Extracted
  BY SourcedExtracted DEF ConversionInv, InputInv
<1>4. PICK n \in Nat, a \in Seq([outcome : Outcomes, patched : SUBSET Spans(native)]) :
        n = Len(audits) /\ a = audits /\ PatchedOn(audits, texts)
  BY DEF ConversionInv, CorrectionInv, PatchedOn
<1>5. p = n + 1 /\ IsPdf(native) /\ native.pages \in Nat /\ n + 1 <= native.pages
  BY <1>1, <1>3, <1>4 DEF ConversionInv, CorrectionInv, Extracted
<1>. DEFINE e == [outcome |-> o, patched |-> q]
<1>6. e \in [outcome : Outcomes, patched : SUBSET Spans(native)] /\ e.outcome = o /\ e.patched = q
  BY DEF OnPage
<1>. HIDE DEF e
<1>7. PICK b \in Seq([outcome : Outcomes, patched : SUBSET Spans(native)]) : b = Append(a, e)
  <2>. DEFINE R == [outcome : Outcomes, patched : SUBSET Spans(native)]
  <2>1. a \in Seq(R) /\ e \in R
    BY <1>6
  <2>. HIDE DEF R
  <2>2. Append(a, e) \in Seq(R)
    BY <2>1
  <2> QED BY <2>2 DEF R
<1>8. Len(b) = n + 1 /\ DOMAIN b = 1..(n + 1) /\ DOMAIN a = 1..n /\ b[n + 1] = e /\ \A i \in 1..n : b[i] = a[i]
  BY <1>4, <1>6, <1>7
<1>9. audits' = b /\ page' = p + 1
  BY <1>1, <1>4, <1>7 DEF PageAudited, e
<1>10. PICK x : x = texts'
  OBVIOUS
<1>11. PatchedOn(b, x)
  <2>1. ASSUME NEW i \in DOMAIN b
        PROVE  b[i].patched \subseteq OnPage(i) /\ (b[i].outcome \in {"applied", "reused"} => HasEvidence(i))
    <3>1. CASE i \in 1..n
      BY <1>4, <1>8, <3>1 DEF PatchedOn
    <3>2. CASE i = n + 1
      BY <1>5, <1>6, <1>8, <3>2
    <3>3. i \in 1..n \/ i = n + 1
      BY <1>8
    <3> QED BY <3>1, <3>2, <3>3
  <2>2. ASSUME NEW s \in Spans(native), x[s] # 0
        PROVE  native.page[s] \in DOMAIN b /\ s \in b[native.page[s]].patched
    <3>1. CASE s \in q
      <4>1. native.page[s] = n + 1
        BY <1>5, <3>1 DEF OnPage
      <4> QED BY <1>6, <1>8, <3>1, <4>1
    <3>2. CASE s \notin q
      <4>1. texts[s] # 0
        BY <1>10, <2>2, <3>2
      <4>2. native.page[s] \in 1..n /\ s \in a[native.page[s]].patched
        BY <1>4, <1>8, <4>1 DEF PatchedOn
      <4> QED BY <1>8, <4>2
    <3> QED BY <3>1, <3>2
  <2>3. \A s \in Spans(native) : native.page[s] \in 1..native.pages
    BY <1>1 DEF Planned
  <2>4. x \in [Spans(native) -> Nat] /\ Len(b) <= native.pages
    BY <1>5, <1>8, <1>10
  <2> QED BY <1>5, <2>1, <2>2, <2>3, <2>4 DEF PatchedOn
<1>12. InputInv'
  BY <1>1, <1>2, SourcedStays DEF ConversionInv, InputInv
<1>13. CorrectionInv'
  <2>1. PatchedOn(audits, texts)'
    BY <1>2, <1>9, <1>10, <1>11, PatchedStays
  <2>2. Planned'
    BY <1>1 DEF Planned, native
  <2>3. page' = Len(audits') + 1 /\ IsPdf(native)'
    BY <1>2, <1>5, <1>8, <1>9
  <2> QED BY <1>1, <2>1, <2>2, <2>3 DEF CorrectionInv
<1>14. PlacingInv'
  BY <1>1, PlacingGone DEF ConversionInv, PlacingInv
<1>15. FinalInv'
  BY <1>1, FinalEmpty DEF ConversionInv, FinalInv
<1>16. SavedInv'
  BY <1>1, <1>2, SavedKept DEF ConversionInv
<1>17. ReuseInv'
  <2>1. SUFFICES ASSUME Reusing'
                 PROVE  \A s \in Spans(native) : texts'[s] = IF native.page[s] < page' THEN saved.texts[s] ELSE 0
    BY <1>1, <1>2 DEF ReuseInv
  <2>2. Reusing
    BY <1>1, <2>1, ReusingKept
  <2>3. saved.published /\ PatchedOn(saved.audits, saved.texts) /\ p \in DOMAIN saved.audits
    BY <1>5, <2>2, ReusingPage DEF ConversionInv, SavedInv, Reusing
  <2>4. ASSUME NEW s \in Spans(native)
        PROVE  texts'[s] = IF native.page[s] < page' THEN saved.texts[s] ELSE 0
    <3>1. texts[s] = IF native.page[s] < p THEN saved.texts[s] ELSE 0
      BY <1>1, <2>2 DEF ConversionInv, ReuseInv
    <3>2. native.page[s] \in Nat /\ p \in Nat
      BY <1>1, <1>5 DEF Planned
    <3>3. CASE s \in q
      <4>1. native.page[s] = p
        BY <3>3 DEF OnPage
      <4> QED BY <1>9, <2>2, <3>2, <3>3, <4>1
    <3>4. CASE s \notin q /\ native.page[s] = p
      <4>1. saved.texts[s] = 0
        BY <2>2, <2>3, <3>4 DEF PatchedOn
      <4>2. texts'[s] = 0
        BY <3>1, <3>2, <3>4
      <4> QED BY <1>9, <3>2, <3>4, <4>1, <4>2
    <3>5. CASE s \notin q /\ native.page[s] # p
      <4>1. texts'[s] = texts[s]
        BY <3>5
      <4> QED BY <1>9, <3>1, <3>2, <3>5, <4>1
    <3> QED BY <3>3, <3>4, <3>5
  <2> QED BY <2>4
<1> QED BY <1>12, <1>13, <1>14, <1>15, <1>16, <1>17 DEF ConversionInv

\* The four ways to deal with a page keep the invariant.
LEMMA CorrectingStep ==
  ASSUME ConversionInv, NEW p \in 1..native.pages,
         PageWithoutEvidence(p) \/ Reuse(p) \/ PageWithoutProvider(p) \/ CorrectPage(p)
  PROVE  ConversionInv'
<1>1. PatchedOn(audits, texts) /\ texts \in [Spans(native) -> Nat] /\ conversions \in Nat
  BY DEF ConversionInv, CorrectionInv, InputInv, PatchedOn
<1>2. ASSUME Correcting(p) PROVE IsPdf(native)
  BY <1>2 DEF Correcting, ConversionInv, CorrectionInv
<1>3. ASSUME Correcting(p), UNCHANGED texts, NEW o \in Outcomes \ {"applied", "reused"},
             PageAudited(o, {}, {"correction"}), ~Reusing
      PROVE  ConversionInv'
  <2>1. {} \in SUBSET OnPage(p) /\ o \in Outcomes /\ o \notin {"applied", "reused"}
    OBVIOUS
  <2>2. texts' \in [Spans(native) -> Nat] /\ \A s \in Spans(native) : texts'[s] = texts[s]
    BY <1>1, <1>3
  <2> QED BY <1>3, <2>1, <2>2, PageStep
<1>4. CASE PageWithoutEvidence(p)
  <2>1. Correcting(p) /\ ~HasEvidence(p) /\ PageAudited("unavailable", {}, {"correction"}) /\ UNCHANGED texts
    BY <1>4 DEF PageWithoutEvidence
  <2>2. ~Reusing
    BY <1>2, <2>1, ReusingPage
  <2> QED BY <1>3, <2>1, <2>2 DEF Outcomes
<1>5. CASE PageWithoutProvider(p)
  <2>1. Correcting(p) /\ ~Reusable(p) /\ PageAudited("unavailable", {}, {"correction"}) /\ UNCHANGED texts
    BY <1>5 DEF PageWithoutProvider
  <2>2. ~Reusing
    BY <1>2, <2>1, ReusingPage
  <2> QED BY <1>3, <2>1, <2>2 DEF Outcomes
<1>6. CASE Reuse(p)
  <2>. DEFINE q == saved.audits[p].patched
  <2>1. /\ Correcting(p) /\ HasEvidence(p) /\ Reusable(p) /\ PageAudited("reused", q, {})
        /\ texts' = [s \in Spans(native) |-> IF s \in q THEN saved.texts[s] ELSE texts[s]]
    BY <1>6 DEF Reuse
  <2>2. /\ PatchedOn(saved.audits, saved.texts) /\ saved.audits # <<>> /\ AllPages(saved.audits)
    BY <2>1 DEF Reusable, ConversionInv, SavedInv
  <2>3. p \in DOMAIN saved.audits
    <3>1. Len(saved.audits) = native.pages /\ DOMAIN saved.audits = 1..Len(saved.audits)
      BY <2>2 DEF AllPages, PatchedOn
    <3> QED BY <3>1
  <2>4. q \in SUBSET OnPage(p) /\ saved.texts \in [Spans(native) -> Nat]
    BY <2>2, <2>3 DEF PatchedOn
  <2>. HIDE DEF q
  <2>5. texts' \in [Spans(native) -> Nat] /\ \A s \in Spans(native) : texts'[s] = texts[s] \/ s \in q
    BY <1>1, <2>1, <2>4
  <2>6. \A s \in q : texts'[s] = saved.texts[s]
    BY <2>1, <2>4 DEF OnPage
  <2>7. "reused" \in Outcomes
    BY DEF Outcomes
  <2> QED BY <2>1, <2>4, <2>5, <2>6, <2>7, PageStep DEF q
<1>7. CASE CorrectPage(p)
  <2>1. Correcting(p) /\ HasEvidence(p) /\ ~Reusable(p)
    BY <1>7 DEF CorrectPage, Asking
  <2>2. ~Reusing
    BY <1>2, <2>1, ReusingPage
  <2>3. PICK reply \in ModelReplies(p) :
          IF reply.kind = "answer" /\ ReplyValid(p, reply)
          THEN /\ texts' = [s \in Spans(native) |-> IF s \in reply.patched THEN conversions ELSE texts[s]]
               /\ PageAudited("applied", reply.patched, {})
          ELSE /\ UNCHANGED texts
               /\ PageAudited(IF reply.kind = "answer" THEN "rejected" ELSE "provider_failed", {}, {"correction"})
    BY <1>7 DEF CorrectPage
  <2>4. CASE reply.kind = "answer" /\ ReplyValid(p, reply)
    <3>1. PICK q \in SUBSET OnPage(p) : q = reply.patched
      BY <2>4 DEF ReplyValid
    <3>2. texts' = [s \in Spans(native) |-> IF s \in q THEN conversions ELSE texts[s]] /\ PageAudited("applied", q, {})
      BY <2>3, <2>4, <3>1
    <3>3. texts' \in [Spans(native) -> Nat] /\ \A s \in Spans(native) : texts'[s] = texts[s] \/ s \in q
      BY <1>1, <3>2
    <3>4. "applied" \in Outcomes
      BY DEF Outcomes
    <3> QED BY <2>1, <2>2, <3>2, <3>3, <3>4, PageStep
  <2>5. CASE ~(reply.kind = "answer" /\ ReplyValid(p, reply))
    <3>1. PICK o \in Outcomes \ {"applied", "reused"} : UNCHANGED texts /\ PageAudited(o, {}, {"correction"})
      BY <2>3, <2>5 DEF Outcomes
    <3> QED BY <1>3, <2>1, <2>2, <3>1
  <2> QED BY <2>4, <2>5
<1> QED BY <1>4, <1>5, <1>6, <1>7

\* Without pages to correct a reusable run has none behind it either.
LEMMA SkipStep == ASSUME ConversionInv, SkipCorrection PROVE ConversionInv'
<1>1. /\ phase = "correcting" /\ ~Planned /\ phase' = "placing"
      /\ UNCHANGED <<job, page, texts, audits, placed, plans, repair, final, verdict, saved, conversions>>
  BY DEF SkipCorrection
<1>2. SameInput /\ native' = native
  BY <1>1 DEF SameInput, native
<1>3. PatchedOn(audits, texts) /\ audits = <<>> /\ page = 1
  BY <1>1 DEF ConversionInv, CorrectionInv
<1>4. InputInv'
  BY <1>1, <1>2, SourcedStays DEF ConversionInv, InputInv
<1>5. CorrectionInv'
  BY <1>1, <1>2, <1>3, CorrectionKept DEF ConversionInv, AllPages
<1>6. PlacingInv'
  BY <1>1, PlacingGone DEF ConversionInv, PlacingInv
<1>7. FinalInv'
  BY <1>1, FinalEmpty DEF ConversionInv, FinalInv
<1>8. SavedInv'
  BY <1>1, <1>2, SavedKept DEF ConversionInv
<1>9. ReuseInv'
  <2>1. SUFFICES ASSUME Reusing PROVE texts = saved.texts
    BY <1>1, ReusingKept DEF ReuseInv
  <2>2. PatchedOn(saved.audits, saved.texts) /\ saved.published
    BY <2>1 DEF ConversionInv, SavedInv, Reusing
  <2>3. saved.audits = <<>>
    BY <1>1, <2>2 DEF Planned, PatchedOn
  <2>4. \A s \in Spans(native) : texts[s] = 0 /\ saved.texts[s] = 0
    <3>1. DOMAIN <<>> = {}
      OBVIOUS
    <3> QED BY <1>3, <2>2, <2>3, <3>1 DEF PatchedOn
  <2>5. texts \in [Spans(native) -> Nat] /\ saved.texts \in [Spans(native) -> Nat]
    BY <1>3, <2>2 DEF PatchedOn
  <2> QED BY <2>4, <2>5
<1> QED BY <1>4, <1>5, <1>6, <1>7, <1>8, <1>9 DEF ConversionInv

\* When all pages are through, a reusing run has all texts of the settled one.
LEMMA EndStep == ASSUME ConversionInv, EndCorrection PROVE ConversionInv'
<1>1. /\ phase = "correcting" /\ page > native.pages /\ phase' = "placing"
      /\ UNCHANGED <<job, page, texts, audits, placed, plans, repair, final, verdict, saved, conversions>>
  BY DEF EndCorrection
<1>2. SameInput /\ native' = native
  BY <1>1 DEF SameInput, native
<1>3. Extracted
  BY SourcedExtracted DEF ConversionInv, InputInv
<1>4. PatchedOn(audits, texts) /\ page = Len(audits) + 1 /\ native.pages \in Nat
  BY <1>1, <1>3 DEF ConversionInv, CorrectionInv, Extracted
<1>5. Len(audits) = native.pages
  <2>1. Len(audits) \in Nat /\ Len(audits) <= native.pages
    BY <1>4 DEF PatchedOn
  <2> QED BY <1>1, <1>4, <2>1
<1>6. InputInv'
  BY <1>1, <1>2, SourcedStays DEF ConversionInv, InputInv
<1>7. CorrectionInv'
  BY <1>1, <1>2, <1>5, CorrectionKept DEF ConversionInv, AllPages
<1>8. PlacingInv'
  BY <1>1, PlacingGone DEF ConversionInv, PlacingInv
<1>9. FinalInv'
  BY <1>1, FinalEmpty DEF ConversionInv, FinalInv
<1>10. SavedInv'
  BY <1>1, <1>2, SavedKept DEF ConversionInv
<1>11. ReuseInv'
  <2>1. SUFFICES ASSUME Reusing PROVE texts = saved.texts
    BY <1>1, ReusingKept DEF ReuseInv
  <2>2. PatchedOn(saved.audits, saved.texts)
    BY <2>1 DEF ConversionInv, SavedInv, Reusing
  <2>3. ASSUME NEW s \in Spans(native) PROVE texts[s] = saved.texts[s]
    <3>1. texts[s] = IF native.page[s] < page THEN saved.texts[s] ELSE 0
      BY <1>1, <2>1 DEF ConversionInv, ReuseInv
    <3>2. native.page[s] \in Nat
      BY <1>3 DEF Extracted, Spans
    <3>3. CASE ~(native.page[s] < page)
      <4>1. DOMAIN saved.audits = 1..Len(saved.audits) /\ Len(saved.audits) \in Nat /\ Len(saved.audits) <= native.pages
        BY <2>2 DEF PatchedOn
      <4>2. native.page[s] \notin DOMAIN saved.audits
        BY <1>1, <1>4, <1>5, <3>2, <3>3, <4>1
      <4>3. saved.texts[s] = 0
        BY <2>2, <4>2 DEF PatchedOn
      <4> QED BY <3>1, <3>3, <4>3
    <3> QED BY <3>1, <3>3
  <2>4. texts \in [Spans(native) -> Nat] /\ saved.texts \in [Spans(native) -> Nat]
    BY <1>4, <2>2 DEF PatchedOn
  <2> QED BY <2>3, <2>4
<1> QED BY <1>6, <1>7, <1>8, <1>9, <1>10, <1>11 DEF ConversionInv

\* What placing and repair have in common: a record of a plan that fits is completed next.
LEMMA RecordedStep ==
  ASSUME ConversionInv, phase \in {"placing", "repairing"}, phase' = "completing", placed' = Reconciled,
         UNCHANGED <<job, page, texts, audits, warnings, final, verdict, saved, conversions>>,
         NEW r, repair' = r, RepairShape(r), PlanFits(r, texts), r.applied = ToSet(r.plan.blocks),
         Reusing => phase = "placing" /\ r.plan = saved.repair.plan /\ r.outcome \in {"none", "reused"}
  PROVE  ConversionInv'
<1>1. SameInput /\ native' = native
  BY DEF SameInput, native
<1>2. InputInv'
  BY <1>1, SourcedStays DEF ConversionInv, InputInv
<1>3. CorrectionInv'
  BY <1>1, CorrectionKept DEF ConversionInv
<1>4. PlacingInv'
  <2>1. placed' = Reconciled'
    BY <1>1, ReconciledStays
  <2>2. PlanFits(repair, texts)'
    <3>1. PICK x : x = texts
      OBVIOUS
    <3> QED BY <1>1, <3>1, PlanFitsStays
  <2>3. KeptPlan(repair'.plan)
    BY DEF RepairShape
  <2> QED BY <2>1, <2>2, <2>3 DEF PlacingInv
<1>5. FinalInv'
  BY FinalEmpty DEF ConversionInv, FinalInv
<1>6. SavedInv'
  BY <1>1, SavedKept DEF ConversionInv
<1>7. ReuseInv'
  <2>1. SUFFICES ASSUME Reusing'
                 PROVE  texts = saved.texts /\ r.plan = saved.repair.plan /\ r.outcome \in {"none", "reused"}
    BY DEF ReuseInv
  <2>2. Reusing
    BY <2>1, ReusingKept
  <2> QED BY <2>2 DEF ConversionInv, ReuseInv
<1> QED BY <1>2, <1>3, <1>4, <1>5, <1>6, <1>7 DEF ConversionInv

\* The plan of the settled run is one to take over.
LEMMA ReusingPlan ==
  ASSUME ConversionInv, Reusing, phase = "placing"
  PROVE  /\ Spare = <<>> => saved.repair.plan = NoPlan
         /\ Spare # <<>> => PlanTrusted(Spare)
<1>1. /\ saved.published /\ saved.doc = native /\ BuiltFrom(saved.repair, saved.texts, saved.final)
      /\ Settled(saved) /\ texts = saved.texts
  BY DEF ConversionInv, SavedInv, ReuseInv, Reusing
<1>2. Extracted
  BY SourcedExtracted DEF ConversionInv, InputInv
<1>3. /\ KeptPlan(saved.repair.plan) /\ saved.final = Built(saved.repair.plan)
      /\ \/ saved.repair.plan = NoPlan
         \/ /\ PlanValid(Spare, saved.repair.plan)
            /\ saved.repair.texts = [s \in ToSet(Spare) |-> saved.texts[s]]
  BY <1>1 DEF BuiltFrom, PlanFits
<1>4. Spare = <<>> => saved.repair.plan = NoPlan
  BY <1>2, <1>3, FittingPlan
<1>5. ASSUME Spare # <<>> PROVE PlanTrusted(Spare)
  <2>1. saved.repair.plan # NoPlan
    BY <1>1, <1>2, <1>3, <1>5, UndegradedHasPlan DEF Settled
  <2> QED BY <1>1, <1>3, <2>1 DEF PlanTrusted, TextsOf, Reusing
<1> QED BY <1>4, <1>5

\* After the hints a reusing run asks nothing: it takes the plan over.
LEMMA PlaceStep == ASSUME ConversionInv, PlaceByHints PROVE ConversionInv'
<1>1. phase = "placing" /\ Spare = Unplaced(Reconciled)
  BY DEF PlaceByHints, Spare
<1>2. Extracted
  BY SourcedExtracted DEF ConversionInv, InputInv
<1>3. CASE Spare = <<>> \/ ~job.provider
  <2>1. Structured("completing", NoRepair)
    BY <1>1, <1>3 DEF PlaceByHints
  <2>2. ASSUME Reusing PROVE NoRepair.plan = saved.repair.plan
    BY <1>1, <1>3, <2>2, ReusingPlan, NoRepairShape DEF Reusing
  <2> QED BY <1>1, <2>1, <2>2, NoRepairShape, RecordedStep DEF Structured
<1>4. CASE ~(Spare = <<>> \/ ~job.provider) /\ PlanTrusted(Spare)
  <2>. DEFINE plan == saved.repair.plan
  <2>1. PICK r : r = RepairRecord("reused", plan, Spare)
    OBVIOUS
  <2>2. Structured("completing", r)
    BY <1>1, <1>4, <2>1 DEF PlaceByHints
  <2>3. KeptPlan(plan) /\ PlanValid(Spare, plan)
    BY <1>4 DEF PlanTrusted, ConversionInv, SavedInv
  <2>4. RepairShape(r) /\ PlanFits(r, texts) /\ r.applied = ToSet(r.plan.blocks) /\ r.plan = plan /\ r.outcome = "reused"
    <3>. HIDE DEF plan
    <3> QED BY <2>1, <2>3, RecordFits
  <2> QED BY <1>1, <2>2, <2>4, RecordedStep DEF Structured
<1>5. CASE ~(Spare = <<>> \/ ~job.provider) /\ ~PlanTrusted(Spare)
  <2>1. /\ Structured("repairing", NoRepair)
        /\ plans' = [b \in DOMAIN Batches(Spare) |-> [asked |-> 0, plan |-> NoPlan]]
    BY <1>1, <1>5 DEF PlaceByHints
  <2>2. /\ placed' = Reconciled /\ phase' = "repairing" /\ repair' = NoRepair
        /\ UNCHANGED <<job, page, texts, audits, warnings, final, verdict, saved, conversions>>
    BY <2>1 DEF Structured
  <2>3. SameInput /\ native' = native
    BY <2>2 DEF SameInput, native
  <2>4. ~Reusing
    BY <1>1, <1>5, ReusingPlan
  <2>5. InputInv'
    BY <1>1, <2>2, <2>3, SourcedStays DEF ConversionInv, InputInv
  <2>6. CorrectionInv'
    BY <1>1, <2>2, <2>3, CorrectionKept DEF ConversionInv
  <2>7. PlacingInv'
    <3>1. placed' = Reconciled'
      BY <2>2, <2>3, ReconciledStays
    <3>2. BatchPlans'
      <4>1. PICK q : q = plans'
        OBVIOUS
      <4>2. DOMAIN q = DOMAIN Batches(Spare) /\ \A b \in DOMAIN q : q[b].plan = NoPlan
        BY <2>1, <4>1
      <4> QED BY <2>3, <4>1, <4>2, BatchPlansStays
    <3>3. KeptPlan(repair'.plan)
      BY <2>2, NoRepairShape
    <3> QED BY <2>2, <3>1, <3>2, <3>3 DEF PlacingInv
  <2>8. FinalInv'
    BY <1>1, <2>2, FinalEmpty DEF ConversionInv, FinalInv
  <2>9. SavedInv'
    BY <2>2, <2>3, SavedKept DEF ConversionInv
  <2>10. ReuseInv'
    BY <1>1, <2>2, <2>4, ReusingKept DEF ReuseInv
  <2> QED BY <2>5, <2>6, <2>7, <2>8, <2>9, <2>10 DEF ConversionInv
<1> QED BY <1>3, <1>4, <1>5

\* An answer is kept for its batch only when it is valid.
LEMMA AskStep == ASSUME ConversionInv, NEW b \in DOMAIN plans, AskBatch(b) PROVE ConversionInv'
<1>1. /\ phase = "repairing" /\ phase' = phase
      /\ UNCHANGED <<job, phase, page, texts, audits, warnings, placed, repair, final, verdict, saved, conversions>>
  BY DEF AskBatch, NextBatch
<1>2. SameInput /\ native' = native
  BY <1>1 DEF SameInput, native
<1>3. Extracted
  BY SourcedExtracted DEF ConversionInv, InputInv
<1>4. placed = Reconciled /\ BatchPlans /\ KeptPlan(repair.plan)
  BY <1>1 DEF ConversionInv, PlacingInv
<1>. DEFINE spans == Batches(Spare)[b]
<1>5. spans \in Seq(Nat) /\ spans # <<>>
  BY <1>3, <1>4, BatchFacts DEF BatchPlans
<1>6. PICK plan \in PlanReplies(spans) :
        plans' = [plans EXCEPT ![b] = [asked |-> @.asked + 1, plan |-> IF PlanValid(spans, plan) THEN plan ELSE NoPlan]]
  BY <1>4 DEF AskBatch, Spare
<1>. HIDE DEF spans
<1>7. PlanValid(spans, plan) => KeptPlan(plan)
  BY <1>5, ValidReply
<1>8. PICK q : q = plans'
  OBVIOUS
<1>9. DOMAIN q = DOMAIN Batches(Spare)
  BY <1>4, <1>6, <1>8 DEF BatchPlans
<1>10. ASSUME NEW c \in DOMAIN q
       PROVE  q[c].plan = NoPlan \/ (KeptPlan(q[c].plan) /\ PlanValid(Batches(Spare)[c], q[c].plan))
  <2>1. CASE c = b
    <3>1. q[c].plan = IF PlanValid(spans, plan) THEN plan ELSE NoPlan
      BY <1>6, <1>8, <2>1
    <3> QED BY <1>7, <2>1, <3>1 DEF spans
  <2>2. CASE c # b
    <3>1. q[c] = plans[c] /\ c \in DOMAIN plans
      BY <1>6, <1>8, <2>2
    <3> QED BY <1>4, <3>1 DEF BatchPlans
  <2> QED BY <2>1, <2>2
<1>11. InputInv'
  BY <1>1, <1>2, SourcedStays DEF ConversionInv, InputInv
<1>12. CorrectionInv'
  BY <1>1, <1>2, CorrectionKept DEF ConversionInv
<1>13. PlacingInv'
  <2>1. placed' = Reconciled'
    BY <1>1, <1>2, <1>4, ReconciledStays
  <2>2. BatchPlans'
    BY <1>2, <1>8, <1>9, <1>10, BatchPlansStays
  <2> QED BY <1>1, <1>4, <2>1, <2>2 DEF PlacingInv
<1>14. FinalInv'
  BY <1>1, FinalEmpty DEF ConversionInv, FinalInv
<1>15. SavedInv'
  BY <1>1, <1>2, SavedKept DEF ConversionInv
<1>16. ReuseInv'
  <2>1. ~Reusing
    BY <1>1 DEF ConversionInv, ReuseInv
  <2> QED BY <1>1, <2>1, ReusingKept DEF ReuseInv
<1> QED BY <1>11, <1>12, <1>13, <1>14, <1>15, <1>16 DEF ConversionInv

\* Repair ends with no plan or with one that fits; a reusing run is never there.
LEMMA RepairedStep ==
  ASSUME ConversionInv, phase = "repairing", NEW outcome, NEW plan, Repaired(outcome, plan), KeptPlan(plan),
         plan = NoPlan \/ PlanValid(Spare, plan)
  PROVE  ConversionInv'
<1>1. placed = Reconciled /\ ~Reusing
  BY DEF ConversionInv, PlacingInv, ReuseInv
<1>2. PICK r : r = RepairRecord(outcome, plan, Spare)
  OBVIOUS
<1>3. /\ phase' = "completing" /\ repair' = r
      /\ UNCHANGED <<job, page, texts, audits, warnings, placed, final, verdict, saved, conversions>>
  BY <1>1, <1>2 DEF Repaired, Spare
<1>4. RepairShape(r) /\ PlanFits(r, texts) /\ r.applied = ToSet(r.plan.blocks)
  BY <1>2, RecordFits
<1> QED BY <1>1, <1>3, <1>4, RecordedStep

LEMMA FailsStep == ASSUME ConversionInv, NEW b \in DOMAIN plans, RepairFails(b) PROVE ConversionInv'
<1>1. phase = "repairing" /\ Repaired("degraded", NoPlan)
  BY DEF RepairFails, NextBatch
<1> QED BY <1>1, NoRepairShape, RepairedStep

\* Valid batches are valid together, for all that the hints leave.
LEMMA BatchesTogether ==
  ASSUME ConversionInv, phase = "repairing", \A b \in DOMAIN plans : plans[b].plan # NoPlan
  PROVE  PlanValid(Spare, Merged) /\ KeptPlan(Merged)
<1>1. Extracted /\ BatchPlans
  BY SourcedExtracted DEF ConversionInv, InputInv, PlacingInv
<1>2. /\ Spare \in Seq(Nat) /\ Ascending(Spare) /\ ToSet(Spare) \subseteq Spans(native)
  BY <1>1, SpareFacts
<1>3. /\ DOMAIN plans = DOMAIN Batches(Spare)
      /\ \A b \in DOMAIN plans : KeptPlan(plans[b].plan) /\ PlanValid(Batches(Spare)[b], plans[b].plan)
  BY <1>1 DEF BatchPlans
<1> QED BY <1>1, <1>2, <1>3, MergedValid

LEMMA MergePlansStep == ASSUME ConversionInv, MergePlans PROVE ConversionInv'
<1>1. phase = "repairing" /\ placed = Reconciled
  BY DEF MergePlans, ConversionInv, PlacingInv
<1>2. CASE \E b \in DOMAIN plans : plans[b].plan = NoPlan
  <2>1. Repaired("rejected", NoPlan)
    BY <1>2 DEF MergePlans
  <2> QED BY <1>1, <2>1, NoRepairShape, RepairedStep
<1>3. CASE ~ \E b \in DOMAIN plans : plans[b].plan = NoPlan
  <2>1. PICK m : m = Merged
    OBVIOUS
  <2>2. PlanValid(Spare, m) /\ KeptPlan(m)
    BY <1>1, <1>3, <2>1, BatchesTogether
  <2>3. Repaired("applied", m)
    BY <1>1, <1>3, <2>1, <2>2 DEF MergePlans, Spare
  <2> QED BY <1>1, <2>2, <2>3, RepairedStep
<1> QED BY <1>2, <1>3

LEMMA GivesUpStep == ASSUME ConversionInv, GivesUp PROVE ConversionInv'
<1>1. /\ phase' = "aborted" /\ phase \in {"correcting", "repairing"}
      /\ UNCHANGED <<job, page, texts, audits, warnings, placed, plans, repair, final, verdict, saved, conversions>>
  BY DEF GivesUp, Asking, Correcting
<1>2. SameInput
  BY <1>1 DEF SameInput
<1>3. InputInv'
  BY <1>1, <1>2, SourcedStays DEF ConversionInv, InputInv
<1>4. CorrectionInv'
  BY <1>1, <1>2, CorrectionKept DEF ConversionInv
<1>5. PlacingInv'
  BY <1>1, PlacingGone DEF ConversionInv, PlacingInv
<1>6. FinalInv'
  BY <1>1, FinalEmpty DEF ConversionInv, FinalInv
<1>7. SavedInv'
  BY <1>1, <1>2, SavedKept DEF ConversionInv
<1>8. ReuseInv'
  BY <1>1 DEF ReuseInv
<1> QED BY <1>3, <1>4, <1>5, <1>6, <1>7, <1>8 DEF ConversionInv

\* The document is what the functions make of the plan, and covers the source.
LEMMA CompleteStep == ASSUME ConversionInv, Complete PROVE ConversionInv'
<1>. DEFINE document == Completed(EnforceTables(Accepted(TablesChecked)))
            kept == Reordered(TablesChecked)
<1>1. /\ phase = "completing" /\ final' = document /\ repair' = kept
      /\ phase' = IF ~Covered(document) THEN "lost"
                  ELSE IF IsPdf(native) /\ job.mode = "shadow" THEN "judging" ELSE "gate"
      /\ UNCHANGED <<job, page, texts, audits, warnings, placed, plans, verdict, saved, conversions>>
  BY DEF Complete
<1>2. SameInput
  BY <1>1 DEF SameInput
<1>3. Extracted
  BY SourcedExtracted DEF ConversionInv, InputInv
<1>4. /\ placed = Reconciled /\ RepairShape(repair) /\ PlanFits(repair, texts)
      /\ repair.applied = ToSet(repair.plan.blocks)
  BY <1>1 DEF ConversionInv, PlacingInv
<1>5. /\ Covered(document) /\ document = Built(repair.plan) /\ kept.plan = repair.plan
      /\ kept.outcome \in {repair.outcome, "rejected"} /\ BuiltFrom(kept, texts, document)
  BY <1>3, <1>4, CompleteBuilds
<1>. HIDE DEF document, kept
<1>6. phase' \in {"judging", "gate"} /\ (phase' = "judging" => job.mode = "shadow")
  BY <1>1, <1>5
<1>7. InputInv'
  BY <1>1, <1>2, <1>6, SourcedStays DEF ConversionInv, InputInv
<1>8. CorrectionInv'
  BY <1>1, <1>2, <1>6, CorrectionKept DEF ConversionInv
<1>9. PlacingInv'
  BY <1>1, <1>5, <1>6, PlacingGone DEF ConversionInv, PlacingInv
<1>10. FinalInv'
  <2>1. BuiltFrom(repair, texts, final)'
    <3>1. PICK r, x, d : r = kept /\ x = texts /\ d = document
      OBVIOUS
    <3> QED BY <1>1, <1>2, <1>5, <3>1, BuiltStays
  <2> QED BY <1>6, <2>1 DEF FinalInv
<1>11. SavedInv'
  BY <1>1, <1>2, <1>6, SavedKept DEF ConversionInv
<1>12. ReuseInv'
  <2>1. SUFFICES ASSUME Reusing
                 PROVE  texts = saved.texts /\ document = saved.final /\ kept.outcome \notin {"applied", "degraded"}
    BY <1>1, <1>6, ReusingKept DEF ReuseInv
  <2>2. texts = saved.texts /\ repair.plan = saved.repair.plan /\ repair.outcome \in {"none", "reused"}
    BY <1>1, <2>1 DEF ConversionInv, ReuseInv
  <2>3. saved.final = Built(saved.repair.plan)
    BY <2>1 DEF ConversionInv, SavedInv, Reusing, BuiltFrom
  <2> QED BY <1>5, <2>2, <2>3
<1> QED BY <1>7, <1>8, <1>9, <1>10, <1>11, <1>12 DEF ConversionInv

LEMMA JudgeStep == ASSUME ConversionInv, Judge PROVE ConversionInv'
<1>1. /\ phase = "judging" /\ phase' \in {"aborted", "gate"}
      /\ UNCHANGED <<job, page, texts, audits, warnings, placed, plans, repair, final, saved, conversions>>
  BY DEF Judge
<1>2. SameInput
  BY <1>1 DEF SameInput
<1>3. InputInv'
  BY <1>1, <1>2, SourcedStays DEF ConversionInv, InputInv
<1>4. CorrectionInv'
  BY <1>1, <1>2, CorrectionKept DEF ConversionInv
<1>5. PlacingInv'
  BY <1>1, PlacingGone DEF ConversionInv, PlacingInv
<1>6. FinalInv'
  BY <1>1, <1>2, FinalKept DEF ConversionInv
<1>7. SavedInv'
  BY <1>1, <1>2, SavedKept DEF ConversionInv
<1>8. ReuseInv'
  <2>1. SUFFICES ASSUME Reusing
                 PROVE  texts = saved.texts /\ final = saved.final /\ repair.outcome \notin {"applied", "degraded"}
    BY <1>1, ReusingKept DEF ReuseInv
  <2> QED BY <1>1, <2>1 DEF ConversionInv, ReuseInv
<1> QED BY <1>3, <1>4, <1>5, <1>6, <1>7, <1>8 DEF ConversionInv

\* What the gate lets pass is settled, unless the candidate decided.
LEMMA PublishStep == ASSUME ConversionInv, Publish PROVE ConversionInv'
<1>1. /\ phase = "gate"
      /\ UNCHANGED <<job, page, texts, audits, warnings, placed, plans, repair, final, verdict, conversions>>
  BY DEF Publish
<1>2. SameInput /\ native' = native
  BY <1>1 DEF SameInput, native
<1>3. phase' \in {"published", "refused"} /\ (phase' = "refused" => saved' = saved)
  BY DEF Publish
<1>4. InputInv'
  BY <1>1, <1>2, <1>3, SourcedStays DEF ConversionInv, InputInv
<1>5. CorrectionInv'
  BY <1>1, <1>2, <1>3, CorrectionKept DEF ConversionInv
<1>6. PlacingInv'
  BY <1>1, <1>3, PlacingGone DEF ConversionInv, PlacingInv
<1>7. FinalInv'
  BY <1>1, <1>2, <1>3, FinalKept DEF ConversionInv
<1>8. SavedInv'
  <2>1. CASE phase' = "refused"
    BY <1>1, <1>2, <1>3, <2>1, SavedKept DEF ConversionInv
  <2>2. CASE phase' = "published"
    <3>1. PICK s : s = [published |-> TRUE, doc |-> native, mode |-> job.mode, texts |-> texts, audits |-> audits,
                        repair |-> repair, final |-> final]
      OBVIOUS
    <3>2. saved' = s /\ Gate
      BY <2>2, <3>1 DEF Publish
    <3>3. /\ s.published /\ s.doc = native /\ s.mode = job.mode /\ s.texts = texts /\ s.audits = audits
          /\ s.repair = repair /\ s.final = final
      BY <3>1
    <3>4. PatchedOn(saved.audits, saved.texts)' /\ AllPages(saved.audits)' /\ KeptPlan(saved'.repair.plan)
      <4>1. PatchedOn(s.audits, s.texts) /\ AllPages(s.audits) /\ KeptPlan(s.repair.plan)
        BY <1>1, <3>3 DEF ConversionInv, CorrectionInv, PlacingInv
      <4> QED BY <1>2, <3>2, <4>1, SavedPatchedStays DEF AllPages
    <3>5. ASSUME s.final # NoDocument PROVE BuiltFrom(saved.repair, saved.texts, saved.final)'
      <4>1. BuiltFrom(s.repair, s.texts, s.final)
        BY <3>3, <3>5 DEF ConversionInv, FinalInv
      <4> QED BY <1>2, <3>2, <4>1, SavedBuiltStays
    <3>6. ASSUME s.mode = "legacy" PROVE Settled(s)
      <4>1. verdict = "none" /\ ~CandidateRun
        BY <1>1, <3>3, <3>6 DEF ConversionInv, InputInv, CandidateRun
      <4>2. LegacyGate /\ WholeTables(final.blocks)
        BY <1>1, <3>2, <4>1 DEF Gate, ConversionInv, FinalInv, BuiltFrom
      <4>3. \A t \in Tables(native) : Block("table", t) \in ToSet(final.blocks)
        BY <4>2 DEF LegacyGate, Degraded, WholeTables
      <4>4. ASSUME IsPdf(native)
            PROVE  /\ DOMAIN audits = 1..native.pages
                   /\ \A p \in DOMAIN audits : audits[p].outcome \in {"applied", "reused"}
                   /\ \A sp \in Spans(native) : texts[sp] # 0 => sp \in audits[native.page[sp]].patched
        <5>1. Examined /\ PatchedOn(audits, texts)
          BY <4>2, <4>4 DEF LegacyGate, ConversionInv, CorrectionInv
        <5>2. DOMAIN audits = 1..Len(audits)
          BY <5>1 DEF PatchedOn
        <5> QED BY <5>1, <5>2 DEF Examined, PatchedOn
      <4> QED BY <3>3, <4>2, <4>3, <4>4 DEF Settled, LegacyGate
    <3> QED BY <1>2, <3>2, <3>3, <3>4, <3>5, <3>6 DEF SavedInv
  <2> QED BY <1>3, <2>1, <2>2
<1>9. ReuseInv'
  <2>1. CASE phase' = "published"
    BY <2>1 DEF ReuseInv, Reusing
  <2>2. CASE phase' = "refused"
    <3>1. SUFFICES ASSUME Reusing
                   PROVE  texts = saved.texts /\ final = saved.final /\ repair.outcome \notin {"applied", "degraded"}
      BY <1>1, <1>3, <2>2, ReusingKept DEF ReuseInv
    <3> QED BY <1>1, <3>1 DEF ConversionInv, ReuseInv
  <2> QED BY <1>3, <2>1, <2>2
<1> QED BY <1>4, <1>5, <1>6, <1>7, <1>8, <1>9 DEF ConversionInv

\* The next run begins with what the published one left.
LEMMA ConvertStep == ASSUME ConversionInv, Convert PROVE ConversionInv'
<1>1. /\ phase = "published" /\ page' = 1 /\ texts' = [s \in Spans(native) |-> 0] /\ audits' = <<>>
      /\ repair' = NoRepair /\ final' = NoDocument /\ verdict' = "none" /\ conversions' = conversions + 1 /\ saved' = saved
  BY DEF Convert
<1>2. job'.doc = native /\ job'.hints = job.hints /\ phase' = FirstPhase(job')
  BY DEF Convert, Job
<1>3. SameInput /\ native' = native
  BY <1>2 DEF SameInput, native
<1>4. Extracted
  BY SourcedExtracted DEF ConversionInv, InputInv
<1>5. /\ phase' \in {"correcting", "placing", "judging"} /\ (phase' = "correcting" => IsPdf(native))
      /\ (phase' = "judging" => job'.mode = "candidate" /\ CandidateRun') /\ (phase' = "placing" => ~IsPdf(native))
  BY <1>2, <1>3 DEF FirstPhase, CandidateRun
<1>6. InputInv'
  BY <1>1, <1>3, <1>5, SourcedStays DEF ConversionInv, InputInv
<1>7. CorrectionInv'
  <2>1. PatchedOn(audits, texts)'
    <3>1. PICK a, x : a = audits' /\ x = texts'
      OBVIOUS
    <3>2. PatchedOn(a, x)
      BY <1>1, <1>4, <3>1, FreshPatched
    <3> QED BY <1>3, <3>1, <3>2, PatchedStays
  <2>2. AllPages(audits)' /\ page' = Len(audits') + 1
    BY <1>1 DEF AllPages
  <2> QED BY <1>1, <1>3, <1>5, <2>1, <2>2 DEF CorrectionInv
<1>8. PlacingInv'
  BY <1>1, <1>5, NoRepairShape, PlacingGone
<1>9. FinalInv'
  BY <1>1, <1>5, FinalEmpty
<1>10. saved.published
  BY <1>1 DEF ConversionInv, SavedInv
<1>11. SavedInv'
  <2>1. PICK s : s = saved
    OBVIOUS
  <2>2. PatchedOn(saved.audits, saved.texts)'
    BY <1>1, <1>3, <1>10, <2>1, SavedPatchedStays DEF ConversionInv, SavedInv
  <2>3. (saved.final # NoDocument)' => BuiltFrom(saved.repair, saved.texts, saved.final)'
    BY <1>1, <1>3, <1>10, <2>1, SavedBuiltStays DEF ConversionInv, SavedInv
  <2> QED BY <1>1, <1>3, <1>5, <1>10, <2>2, <2>3 DEF ConversionInv, SavedInv, AllPages
<1>12. ReuseInv'
  <2>1. SUFFICES ASSUME Reusing'
                 PROVE  /\ phase' \in {"correcting", "placing"}
                        /\ phase' = "correcting" =>
                             \A s \in Spans(native) : texts'[s] = IF native.page[s] < 1 THEN saved.texts[s] ELSE 0
                        /\ phase' = "placing" => texts' = saved.texts
    BY <1>1, <1>3, <1>5 DEF ReuseInv
  <2>2. phase' \in {"correcting", "placing"}
    BY <1>5, <2>1 DEF Reusing
  <2>3. PatchedOn(saved.audits, saved.texts)
    BY <1>10 DEF ConversionInv, SavedInv
  <2>4. /\ saved.texts \in [Spans(native) -> Nat] /\ DOMAIN saved.audits = 1..Len(saved.audits)
        /\ saved.audits # <<>> => IsPdf(native)
    BY <2>3 DEF PatchedOn
  <2>5. ASSUME NEW s \in Spans(native), native.page[s] < 1 PROVE saved.texts[s] = 0
    <3>1. native.page[s] \in Nat
      BY <1>4 DEF Extracted, Spans
    <3>2. native.page[s] \notin DOMAIN saved.audits
      BY <2>4, <2>5, <3>1
    <3> QED BY <2>3, <3>2 DEF PatchedOn
  <2>6. ASSUME phase' = "placing" PROVE texts' = saved.texts
    <3>1. saved.audits = <<>> /\ DOMAIN <<>> = {}
      BY <1>5, <2>4, <2>6
    <3>2. \A s \in Spans(native) : saved.texts[s] = 0
      BY <2>3, <3>1 DEF PatchedOn
    <3> QED BY <1>1, <2>4, <3>2
  <2> QED BY <1>1, <2>2, <2>5, <2>6
<1> QED BY <1>6, <1>7, <1>8, <1>9, <1>11, <1>12 DEF ConversionInv

(***************************************************************************)
(* The conversion keeps its invariant, and its five properties             *)
(***************************************************************************)

LEMMA StutterStep == ASSUME ConversionInv, UNCHANGED convertVars PROVE ConversionInv'
<1>1. UNCHANGED <<job, phase, page, texts, audits, warnings, placed, plans, repair, final, verdict, saved, conversions>>
  BY DEF convertVars
<1>2. SameInput /\ native' = native
  BY <1>1 DEF SameInput, native
<1>3. InputInv'
  BY <1>1, <1>2, SourcedStays DEF ConversionInv, InputInv
<1>4. CorrectionInv'
  <2>1. PatchedOn(audits, texts)'
    <3>1. PICK a, x : a = audits /\ x = texts
      OBVIOUS
    <3> QED BY <1>1, <1>2, <3>1, PatchedStays DEF ConversionInv, CorrectionInv
  <2>2. Planned' = Planned
    BY <1>1, <1>2 DEF Planned
  <2>3. AllPages(audits)' = AllPages(audits) /\ IsPdf(native)' = IsPdf(native)
    BY <1>1, <1>2 DEF AllPages, IsPdf
  <2> QED BY <1>1, <2>1, <2>2, <2>3 DEF ConversionInv, CorrectionInv
<1>5. PlacingInv'
  <2>1. Reconciled' = Reconciled /\ Batches(Spare)' = Batches(Spare)
    BY <1>2, ReconciledStays
  <2>2. ASSUME BatchPlans PROVE BatchPlans'
    <3>1. PICK q : q = plans
      OBVIOUS
    <3> QED BY <1>1, <1>2, <2>2, <3>1, BatchPlansStays DEF BatchPlans
  <2>3. ASSUME PlanFits(repair, texts) PROVE PlanFits(repair, texts)'
    <3>1. PICK r, x : r = repair /\ x = texts
      OBVIOUS
    <3> QED BY <1>1, <1>2, <2>3, <3>1, PlanFitsStays
  <2>4. PICK r : r = repair
    OBVIOUS
  <2> QED BY <1>1, <2>1, <2>2, <2>3 DEF ConversionInv, PlacingInv
<1>6. FinalInv'
  <2>1. CandidateRun' = CandidateRun
    BY <1>1, <1>2 DEF CandidateRun, IsPdf
  <2>2. ASSUME BuiltFrom(repair, texts, final) PROVE BuiltFrom(repair, texts, final)'
    <3>1. PICK r, x, d : r = repair /\ x = texts /\ d = final
      OBVIOUS
    <3> QED BY <1>1, <1>2, <2>2, <3>1, BuiltStays
  <2> QED BY <1>1, <2>1, <2>2 DEF ConversionInv, FinalInv
<1>7. SavedInv'
  <2>1. PICK s : s = saved
    OBVIOUS
  <2>2. PatchedOn(saved.audits, saved.texts) => PatchedOn(saved.audits, saved.texts)'
    BY <1>1, <1>2, <2>1, SavedPatchedStays
  <2>3. BuiltFrom(saved.repair, saved.texts, saved.final) => BuiltFrom(saved.repair, saved.texts, saved.final)'
    BY <1>1, <1>2, <2>1, SavedBuiltStays
  <2> QED BY <1>1, <1>2, <2>2, <2>3 DEF ConversionInv, SavedInv, AllPages
<1>8. ReuseInv'
  <2>1. Reusing' => Reusing
    BY <1>1 DEF Reusing, CandidateRun, native
  <2> QED BY <1>1, <1>2, <2>1 DEF ConversionInv, ReuseInv
<1> QED BY <1>3, <1>4, <1>5, <1>6, <1>7, <1>8 DEF ConversionInv

\* Every step keeps the invariant.
LEMMA ConversionInvariant == ConvertSpec => []ConversionInv
<1>1. ASSUME ConversionInv, [ConvertNext]_convertVars PROVE ConversionInv'
  <2>1. ASSUME NEW p \in 1..native.pages, PageWithoutEvidence(p) \/ Reuse(p) \/ PageWithoutProvider(p) \/ CorrectPage(p)
        PROVE  ConversionInv'
    BY <1>1, <2>1, CorrectingStep
  <2>2. CASE SkipCorrection
    BY <1>1, <2>2, SkipStep
  <2>3. CASE EndCorrection
    BY <1>1, <2>3, EndStep
  <2>4. CASE PlaceByHints
    BY <1>1, <2>4, PlaceStep
  <2>5. ASSUME NEW b \in DOMAIN plans, AskBatch(b) PROVE ConversionInv'
    BY <1>1, <2>5, AskStep
  <2>6. ASSUME NEW b \in DOMAIN plans, RepairFails(b) PROVE ConversionInv'
    BY <1>1, <2>6, FailsStep
  <2>7. CASE GivesUp
    BY <1>1, <2>7, GivesUpStep
  <2>8. CASE MergePlans
    BY <1>1, <2>8, MergePlansStep
  <2>9. CASE Complete
    BY <1>1, <2>9, CompleteStep
  <2>10. CASE Judge
    BY <1>1, <2>10, JudgeStep
  <2>11. CASE Publish
    BY <1>1, <2>11, PublishStep
  <2>12. CASE Convert
    BY <1>1, <2>12, ConvertStep
  <2>13. CASE UNCHANGED convertVars
    BY <1>1, <2>13, StutterStep
  <2> QED
    BY <1>1, <2>1, <2>2, <2>3, <2>4, <2>5, <2>6, <2>7, <2>8, <2>9, <2>10, <2>11, <2>12, <2>13 DEF ConvertNext
<1> QED BY <1>1, ConversionStarts, PTL DEF ConvertSpec

\* A run of the candidate pipeline in the legacy one's place makes no document here.
CandidateInv ==
  CandidateRun => phase \in {"judging", "gate", "published", "refused", "aborted"} /\ final = NoDocument

\* It stays in its phases.
LEMMA CandidateInvariant == ConvertSpec => []CandidateInv
<1>1. ASSUME ConvertInit PROVE CandidateInv
  BY <1>1 DEF ConvertInit, CandidateInv, CandidateRun, FirstPhase, native
<1>2. ASSUME CandidateInv, [ConvertNext]_convertVars PROVE CandidateInv'
  <2>1. CASE Convert
    BY <2>1 DEF Convert, Job, native, CandidateInv, CandidateRun, FirstPhase
  <2>2. CASE \E p \in 1..native.pages : PageWithoutEvidence(p) \/ Reuse(p) \/ PageWithoutProvider(p) \/ CorrectPage(p)
    BY <1>2, <2>2 DEF PageWithoutEvidence, Reuse, PageWithoutProvider, CorrectPage, Asking, Correcting, CandidateInv,
                      CandidateRun, native
  <2>3. CASE \E b \in DOMAIN plans : AskBatch(b) \/ RepairFails(b)
    BY <1>2, <2>3 DEF AskBatch, RepairFails, NextBatch, Repaired, CandidateInv, CandidateRun, native
  <2>4. CASE SkipCorrection \/ EndCorrection \/ PlaceByHints
    BY <1>2, <2>4 DEF SkipCorrection, EndCorrection, PlaceByHints, Structured, CandidateInv, CandidateRun, native
  <2>5. CASE GivesUp \/ MergePlans
    BY <1>2, <2>5 DEF GivesUp, MergePlans, Repaired, CandidateInv, CandidateRun, native
  <2>6. CASE Complete
    BY <1>2, <2>6 DEF Complete, CandidateInv, CandidateRun, native
  <2>7. CASE Judge \/ Publish
    BY <1>2, <2>7 DEF Judge, Publish, CandidateInv, CandidateRun, native
  <2>8. CASE UNCHANGED convertVars
    BY <1>2, <2>8 DEF convertVars, CandidateInv, CandidateRun, native
  <2> QED BY <1>2, <2>1, <2>2, <2>3, <2>4, <2>5, <2>6, <2>7, <2>8 DEF ConvertNext
<1> QED BY <1>1, <1>2, PTL DEF ConvertSpec

\* Whatever the hints propose and the model answers, the coverage check never
\* finds a span missing or twice, and what is left out is repeated at the edges
\* of pages: the loss the last check of finalize_document is there to catch
\* cannot happen.
THEOREM DocumentsLoseNothing == ConvertSpec => []NothingIsLost
<1>1. ASSUME ConversionInv PROVE NothingIsLost
  <2>1. phase # "lost"
    BY <1>1 DEF ConversionInv, InputInv
  <2>2. final = NoDocument \/ BuiltFrom(repair, texts, final)
    BY <1>1 DEF ConversionInv, FinalInv
  <2> QED BY <2>1, <2>2 DEF NothingIsLost, BuiltFrom, NoDocument
<1> QED BY <1>1, ConversionInvariant, PTL

\* No repair, exclusion or block beside a native table takes it apart: in every
\* document it is one block of its own or whole inside a lossless block.
THEOREM TablesAreWhole == ConvertSpec => []TablesStayWhole
<1>1. ASSUME ConversionInv PROVE TablesStayWhole
  BY <1>1 DEF ConversionInv, FinalInv, BuiltFrom, WholeTables, TablesStayWhole
<1> QED BY <1>1, ConversionInvariant, PTL

\* Plans that are valid batch by batch are valid when they are merged: asking
\* in batches rejects no repair that would have been accepted as one.
THEOREM BatchesMerge == ConvertSpec => []BatchesCompose
<1>1. ASSUME ConversionInv PROVE BatchesCompose
  <2>1. SUFFICES ASSUME phase = "repairing", \A b \in DOMAIN plans : plans[b].plan # NoPlan
                 PROVE  PlanValid(Unplaced(placed), Merged)
    BY DEF BatchesCompose
  <2>2. BatchPlans /\ placed = Reconciled
    BY <1>1, <2>1 DEF ConversionInv, PlacingInv
  <2>3. KeptPlan(Merged) /\ PlanValid(Spare, Merged)
    BY <1>1, <2>1, BatchesTogether
  <2> QED BY <2>2, <2>3 DEF Spare
<1> QED BY <1>1, ConversionInvariant, PTL

\* What the legacy pipeline publishes has no lossless block, every native table
\* as a block of its own, and a PDF's every page examined, with no change to a
\* text but an accepted patch of its page.
THEOREM PublishedSettled == ConvertSpec => []PublishedIsSettled
<1>1. ASSUME ConversionInv PROVE PublishedIsSettled
  BY <1>1 DEF ConversionInv, SavedInv, PublishedIsSettled
<1> QED BY <1>1, ConversionInvariant, PTL

\* A run over the same source and hints, under the same parser, prompt and
\* schema, takes the settled run's patches and plan over: it ends with the same
\* document and the same texts, and its repair is not one of a new request.
THEOREM ReuseIsFaithful == ConvertSpec => []ReuseReproduces
<1>1. ASSUME ConversionInv, CandidateInv PROVE ReuseReproduces
  <2>1. SUFFICES ASSUME conversions > 1, phase \in {"judging", "gate", "refused"}, final # NoDocument,
                        saved.final # NoDocument, Settled(saved), ~job.drifted, job.provider
                 PROVE  final = saved.final /\ texts = saved.texts /\ repair.outcome \notin {"applied", "degraded"}
    BY DEF ReuseReproduces
  <2>2. saved.published /\ ~CandidateRun
    BY <1>1, <2>1 DEF ConversionInv, SavedInv, CandidateInv
  <2>3. Reusing
    BY <2>1, <2>2 DEF Reusing
  <2> QED BY <1>1, <2>1, <2>3 DEF ConversionInv, ReuseInv
<1> QED BY <1>1, ConversionInvariant, CandidateInvariant, PTL
=============================================================================
