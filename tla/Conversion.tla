------------------------------ MODULE Conversion ------------------------------
(***************************************************************************)
(* The conversion of a semantic document by structure hints and two kinds  *)
(* of model answers: the correction of a page's text, and the repair of    *)
(* the spans no hint placed. What neither places is kept in lossless       *)
(* blocks. The pipeline's gates then publish the text or refuse it, and a  *)
(* later run over the same source may reuse the answers of a published     *)
(* one. Spans are 1..n in the order of the source; a text is the run that  *)
(* wrote it, 0 for the source's own.                                       *)
(***************************************************************************)
EXTENDS Integers, FiniteSets, Sequences, SequencesExt, Selections

CONSTANTS
  Natives,    \* documents as extracted, with the hints that may come with them
  Settings,  \* [mode, provider, propagate, drifted]: "legacy", "shadow" or "candidate", whether
             \* there is a provider, whether its failure ends the run, and whether a prompt,
             \* a schema or a renderer is another than in the run before
  MaxConversions  \* bound on runs

Spans(d) == DOMAIN d.page
Tables(d) == {t \in ToSet(d.tables) : t # <<>>}

\* Everything between the first and the last span of a table.
RegionIn(d, table) == {s \in Spans(d) : \E a, b \in ToSet(table) : a <= s /\ s <= b}

\* The extractors give a span to one cell of one table and to one group at most. A table
\* comes before those nested in its cells, and then its own text is around them or beside.
\* A hint names spans of the document, and is no lossless block.
ASSUME ConversionAssumption ==
  \A source \in Natives :
    LET d == source.doc
    IN  /\ d.page \in Seq(Nat) /\ d.pages \in Nat /\ d.threshold \in Nat
        /\ d.tables \in Seq(Seq(Spans(d))) /\ d.groups \in Seq(Seq(Spans(d)))
        /\ IsInjective(FlattenSeq(d.tables)) /\ IsInjective(FlattenSeq(d.groups))
        /\ \A i, j \in DOMAIN d.tables :
             i < j => \/ RegionIn(d, d.tables[i]) \cap RegionIn(d, d.tables[j]) = {}
                      \/ RegionIn(d, d.tables[j]) \subseteq RegionIn(d, d.tables[i])
        /\ \A hints \in source.hints :
             /\ hints \in Seq([kind : {"text", "table", "regrid"}, spans : Seq(Spans(d))])
             /\ \A h \in ToSet(hints) : h.spans # <<>> /\ IsInjective(h.spans)

VARIABLES
  job,       \* the run: native document, hints, mode, provider, propagate, drifted
  phase,     \* "correcting", "placing", "repairing", "completing", "judging", "gate", or the end
  page,      \* the next page to correct
  texts,     \* span -> the run that wrote its text
  audits,    \* pages examined so far -> [outcome, patched]
  warnings,  \* correction warnings
  placed,    \* [blocks, excluded] so far
  plans,     \* batch -> [asked, plan] of the repair under way
  repair,    \* the repair record
  final,     \* [blocks, excluded] of the completed document
  verdict,   \* of the candidate pipeline over the same PDF
  saved,     \* what the last published run left, or NotSaved
  conversions \* runs so far

convertVars == <<job, phase, page, texts, audits, warnings, placed, plans, repair, final,
                 verdict, saved, conversions>>

native == job.doc
IsPdf(d) == d.mode \in {"pdf_embedded", "ocr"}
OnPage(p) == {s \in Spans(native) : native.page[s] = p}

\* The spans of S in the order of the source.
Ordered(S) == Picked([s \in Spans(native) |-> s], S)

Block(kind, spans) == [kind |-> kind, spans |-> spans]
Allocated(blocks) == FlattenSeq([i \in DOMAIN blocks |-> blocks[i].spans])

NoPlan   == [blocks |-> <<>>, defect |-> "none"]
NoRepair == [outcome |-> "none", plan |-> NoPlan, applied |-> {}, texts |-> <<>>]
NotSaved == [published |-> FALSE]
NoDocument == [blocks |-> <<>>, excluded |-> {}]

-----------------------------------------------------------------------------
(* Visual correction, page after page                                       *)

\* A reply is valid as a whole or not at all: it names this request, and each
\* of its patches is a sound respelling of a span of this page.
ReplyValid(p, reply) == reply.bound /\ reply.sound /\ reply.patched \subseteq OnPage(p)

ModelReplies(p) ==
  {[kind |-> k] : k \in {"error", "malformed", "other_model"}}
  \cup [kind : {"answer"}, bound : BOOLEAN, sound : BOOLEAN,
        patched : {{}, OnPage(p), Spans(native)}]

\* The patches of a page whose correction is not accepted are kept as hashes.
PageAudited(outcome, patched, warned) ==
  /\ audits' = Append(audits, [outcome |-> outcome, patched |-> patched])
  /\ warnings' = warnings \cup warned
  /\ page' = page + 1

\* There is a planner when there is a provider or a trusted report; a span that
\* is on no page of the document makes the evidence of all unavailable.
Planned ==
  /\ job.provider \/ saved.published
  /\ \A s \in Spans(native) : native.page[s] \in 1..native.pages

Correcting(p) ==
  /\ phase = "correcting" /\ page = p /\ Planned
  /\ UNCHANGED <<job, phase, placed, plans, repair, final, verdict, saved, conversions>>

HasEvidence(p) == OnPage(p) # {} /\ OnPage(p) \subseteq native.boxed

\* The audit of the same page of the trusted report binds all that went into
\* the request, and its patches are validated again.
Reusable(p) ==
  /\ saved.published /\ saved.doc = native /\ ~job.drifted
  /\ saved.audits # <<>> /\ saved.audits[p].outcome \in {"applied", "reused"}

PageWithoutEvidence(p) ==
  Correcting(p) /\ ~HasEvidence(p) /\ PageAudited("unavailable", {}, {"correction"}) /\ UNCHANGED texts

Reuse(p) ==
  /\ Correcting(p) /\ HasEvidence(p) /\ Reusable(p)
  /\ texts' = [s \in Spans(native) |-> IF s \in saved.audits[p].patched THEN saved.texts[s] ELSE texts[s]]
  /\ PageAudited("reused", saved.audits[p].patched, {})

PageWithoutProvider(p) ==
  /\ Correcting(p) /\ HasEvidence(p) /\ ~Reusable(p) /\ ~job.provider
  /\ PageAudited("unavailable", {}, {"correction"}) /\ UNCHANGED texts

Asking(p) == Correcting(p) /\ HasEvidence(p) /\ ~Reusable(p) /\ job.provider

CorrectPage(p) ==
  /\ Asking(p)
  /\ \E reply \in ModelReplies(p) :
       /\ reply.kind = "error" => ~job.propagate
       /\ IF reply.kind = "answer" /\ ReplyValid(p, reply)
          THEN /\ texts' = [s \in Spans(native) |-> IF s \in reply.patched THEN conversions ELSE texts[s]]
               /\ PageAudited("applied", reply.patched, {})
          ELSE /\ UNCHANGED texts
               /\ PageAudited(IF reply.kind = "answer" THEN "rejected" ELSE "provider_failed", {}, {"correction"})

SkipCorrection ==
  /\ phase = "correcting" /\ ~Planned
  /\ warnings' = {"correction"} /\ phase' = "placing"
  /\ UNCHANGED <<job, page, texts, audits, placed, plans, repair, final, verdict, saved, conversions>>

EndCorrection ==
  /\ phase = "correcting" /\ page > native.pages /\ phase' = "placing"
  /\ UNCHANGED <<job, page, texts, audits, warnings, placed, plans, repair, final, verdict, saved, conversions>>

-----------------------------------------------------------------------------
(* Placing spans by hints                                                   *)

\* A hint whose spans another one took is dropped.
Placements(hints) ==
  LET upTo[i \in 0..Len(hints)] ==
        IF i = 0 THEN <<>>
        ELSE IF ToSet(hints[i].spans) \cap ToSet(Allocated(upTo[i - 1])) = {}
        THEN Append(upTo[i - 1], hints[i]) ELSE upTo[i - 1]
  IN  upTo[Len(hints)]

\* Text at the edge of a page that stands alone in its block and is repeated
\* on enough pages is a running header, a footer or a page number.
RepeatedEdges(alone) ==
  LET edges == native.edges \cap alone
  IN  IF Cardinality({native.page[s] : s \in edges}) >= native.threshold THEN edges ELSE {}
Alone(blocks) == {s \in Spans(native) : \E b \in ToSet(blocks) : b.spans = <<s>>}

Reconciled ==
  LET blocks == Placements(job.hints)
      edges  == RepeatedEdges(Alone(blocks))
  IN  [blocks   |-> Picked(blocks, {i \in DOMAIN blocks : ToSet(blocks[i].spans) \cap edges = {}}),
       excluded |-> edges]

Unplaced(document) == Ordered(Spans(native) \ (ToSet(Allocated(document.blocks)) \cup document.excluded))

-----------------------------------------------------------------------------
(* Repair                                                                   *)

\* Evidence that belongs together: what one page holds, a table, or a stretch
\* without pages. Two neighbours go to one request when such a range of
\* positions spans both.
Ranges(spans) ==
  {{i \in DOMAIN spans : native.page[spans[i]] = p} : p \in {native.page[s] : s \in ToSet(spans)} \ {0}}
  \cup {{i \in DOMAIN spans : spans[i] \in ToSet(t)} : t \in Tables(native)}
  \cup {{i, i + 1} : i \in {i \in 1..(Len(spans) - 1) : native.page[spans[i]] = 0 /\ native.page[spans[i + 1]] = 0}}
Together(spans, i) == \E range \in Ranges(spans) : \E a, b \in range : a <= i /\ i < b
Batches_ByPage(spans) ==
  LET pages == SetToSortSeq({native.page[s] : s \in ToSet(spans)}, <)
  IN  [b \in DOMAIN pages |-> Picked(spans, {i \in DOMAIN spans : native.page[spans[i]] = pages[b]})]
Batches(spans) == Pieces(spans, {i \in DOMAIN spans : i > 1 /\ Together(spans, i - 1)})

\* A plan allocates the spans of its request, each once and in order; its
\* tables are grids, and what it leaves out is repeated at the page edges.
ExclusionsProven(plan) ==
  \A b \in ToSet(plan.blocks) : b.kind = "exclude" => ToSet(b.spans) \subseteq RepeatedEdges(Spans(native))
PlanValid(spans, plan) ==
  plan.defect = "none" /\ Allocated(plan.blocks) = spans /\ ExclusionsProven(plan)

Partitions(spans) == {Pieces(spans, joined) : joined \in SUBSET DOMAIN spans}

Plan(blocks, defect) == [blocks |-> blocks, defect |-> defect]
PartitionPlans(spans) ==
  UNION {{Plan([i \in DOMAIN split |-> Block(kinds[i], split[i])], "none") :
            kinds \in [DOMAIN split -> {"text", "table", "exclude"}]} : split \in Partitions(spans)}
PlanReplies(spans) ==
  PartitionPlans(spans)
  \cup {Plan(<<Block("text", s)>>, "none") :
          s \in {Tail(spans), Append(spans, spans[1]), Append(spans, 0), Reverse(spans)}}
  \cup {Plan(<<Block("text", spans)>>, d) : d \in {"schema", "order", "table", "confidence"}}

TextsOf(spans) == [s \in ToSet(spans) |-> texts[s]]

\* Only the plan of the same spans with the same texts under the same parser,
\* prompt and schema is taken over, and it is validated again.
PlanTrusted_SourceTexts(spans) ==
  /\ saved.published /\ saved.doc = native /\ ~job.drifted
  /\ saved.repair.plan # NoPlan /\ saved.repair.texts = [s \in ToSet(spans) |-> 0]
  /\ PlanValid(spans, saved.repair.plan)
PlanTrusted(spans) ==
  /\ saved.published /\ saved.doc = native /\ ~job.drifted
  /\ saved.repair.plan # NoPlan /\ saved.repair.texts = TextsOf(spans)
  /\ PlanValid(spans, saved.repair.plan)

RepairRecord(outcome, plan, spans) ==
  [outcome |-> outcome, plan |-> plan, applied |-> ToSet(plan.blocks), texts |-> TextsOf(spans)]

Structured(next, record) ==
  /\ placed' = Reconciled /\ phase' = next /\ repair' = record
  /\ UNCHANGED <<job, page, texts, audits, warnings, final, verdict, saved, conversions>>

PlaceByHints ==
  /\ phase = "placing"
  /\ LET spans == Unplaced(Reconciled)
     IN  IF spans = <<>> \/ ~job.provider
         THEN Structured("completing", NoRepair) /\ UNCHANGED plans
         ELSE IF PlanTrusted(spans)
         THEN Structured("completing", RepairRecord("reused", saved.repair.plan, spans)) /\ UNCHANGED plans
         ELSE /\ Structured("repairing", NoRepair)
              /\ plans' = [b \in DOMAIN Batches(spans) |-> [asked |-> 0, plan |-> NoPlan]]

Pending(asked) == {b \in DOMAIN plans : plans[b].asked = asked /\ plans[b].plan = NoPlan}

Repaired(outcome, plan) ==
  /\ phase' = "completing" /\ repair' = RepairRecord(outcome, plan, Unplaced(placed))
  /\ plans' = <<>>
  /\ UNCHANGED <<job, page, texts, audits, warnings, placed, final, verdict, saved, conversions>>

\* Every batch is asked once, in order, and then those without a valid plan
\* once more with what was wrong.
NextBatch(b) ==
  /\ phase = "repairing" /\ Pending(0) \cup Pending(1) # {}
  /\ b = IF Pending(0) # {} THEN Min(Pending(0)) ELSE Min(Pending(1))

AskBatch(b) ==
  /\ NextBatch(b)
  /\ LET spans == Batches(Unplaced(placed))[b]
     IN  \E plan \in PlanReplies(spans) :
           plans' = [plans EXCEPT ![b] = [asked |-> @.asked + 1,
                                          plan  |-> IF PlanValid(spans, plan) THEN plan ELSE NoPlan]]
  /\ UNCHANGED <<job, phase, page, texts, audits, warnings, placed, repair, final, verdict, saved, conversions>>

RepairFails(b) == NextBatch(b) /\ ~job.propagate /\ Repaired("degraded", NoPlan)

\* A failure of the provider may instead end the run: its caller tries again.
GivesUp ==
  /\ job.propagate
  /\ \/ \E p \in 1..native.pages : Asking(p)
     \/ phase = "repairing" /\ Pending(0) \cup Pending(1) # {}
  /\ phase' = "aborted"
  /\ UNCHANGED <<job, page, texts, audits, warnings, placed, plans, repair, final, verdict, saved, conversions>>

\* Sorted by the first span; blocks that begin with one span stay in their order.
InOrder(blocks) ==
  FlattenSeq([s \in Spans(native) |-> Picked(blocks, {i \in DOMAIN blocks : blocks[i].spans[1] = s})])

\* The plans of the batches become one plan over all spans, which is validated
\* again.
Merged == [blocks |-> InOrder(FlattenSeq([b \in DOMAIN plans |-> plans[b].plan.blocks])), defect |-> "none"]

MergePlans ==
  /\ phase = "repairing" /\ Pending(0) \cup Pending(1) = {}
  /\ IF \E b \in DOMAIN plans : plans[b].plan = NoPlan
     THEN Repaired("rejected", NoPlan)
     ELSE IF PlanValid(Unplaced(placed), Merged) THEN Repaired("applied", Merged) ELSE Repaired("rejected", NoPlan)

-----------------------------------------------------------------------------
(* Native tables and what is left                                           *)

\* A table whose region holds other spans crosses them.
Region(table) == RegionIn(native, table)
Crosses(table) == Region(table) # ToSet(table)
IsNative(block, table) == ~Crosses(table) /\ block = Block("table", table)
Touches(block, table) == ToSet(block.spans) \cap Region(table) # {}

\* A repair keeps a native table as it is, in one block, or loses every block
\* that touches it.
Rejected(blocks) ==
  UNION {{b \in blocks : Touches(b, t)} :
           t \in {t \in Tables(native) : ~ \E b \in blocks : /\ IsNative(b, t)
                                                          /\ \A c \in blocks : Touches(c, t) => c = b}}

TablesChecked ==
  LET rejected == Rejected(ToSet(repair.plan.blocks))
  IN  IF rejected = {} THEN repair
      ELSE [repair EXCEPT !.outcome = "rejected", !.applied = @ \ rejected]

Accepted(record) ==
  [blocks   |-> placed.blocks \o Picked(record.plan.blocks,
                                        {i \in DOMAIN record.plan.blocks :
                                           /\ record.plan.blocks[i] \in record.applied
                                           /\ record.plan.blocks[i].kind # "exclude"}),
   excluded |-> placed.excluded \cup
                UNION {ToSet(b.spans) : b \in {b \in record.applied : b.kind = "exclude"}}]

\* A native table that is not one block of its own, or inside a lossless block,
\* has its region put into one, and everything that touched it is dropped.
Touching(document, table) == {i \in DOMAIN document.blocks : Touches(document.blocks[i], table)}
InOneBlock(document, table) ==
  [blocks   |-> Append(Picked(document.blocks, DOMAIN document.blocks \ Touching(document, table)),
                       Block("lossless", Ordered(Region(table)))),
   excluded |-> document.excluded \ Region(table)]
IsWhole(document, table) ==
  \/ \E b \in ToSet(document.blocks) : b.kind = "lossless" /\ Region(table) \subseteq ToSet(b.spans)
  \/ \E i \in DOMAIN document.blocks : Touching(document, table) = {i} /\ IsNative(document.blocks[i], table)

EnforceTable_KeepExcluded(document, table) ==
  IF table = <<>> \/ IsWhole(document, table) THEN document
  ELSE [InOneBlock(document, table) EXCEPT !.excluded = document.excluded]
EnforceTable_OneBlock(document, table) ==
  IF table = <<>> \/ Cardinality(Touching(document, table)) = 1 THEN document ELSE InOneBlock(document, table)
EnforceTable(document, table) ==
  IF table = <<>> \/ IsWhole(document, table) THEN document ELSE InOneBlock(document, table)
EnforceTables(document) ==
  LET upTo[i \in 0..Len(native.tables)] ==
        IF i = 0 THEN document ELSE EnforceTable(upTo[i - 1], native.tables[i])
  IN  upTo[Len(native.tables)]

Lossless(spans) ==
  LET runs == Pieces(spans, {i \in DOMAIN spans : i > 1 /\ spans[i - 1] + 1 = spans[i]})
  IN  [i \in DOMAIN runs |-> Block("lossless", runs[i])]

\* What is still not allocated becomes lossless blocks: by the groups of the
\* source, then the orphans, then what belongs to native tables.
LosslessBlocks(document) ==
  LET left     == ToSet(Unplaced(document))
      inTables == UNION {ToSet(t) : t \in Tables(native)}
      grouped  == UNION {ToSet(g) : g \in ToSet(native.groups)}
      Left(g)  == Picked(g, {i \in DOMAIN g : g[i] \in left \ inTables})
  IN  FlattenSeq([g \in DOMAIN native.groups |-> Lossless(Left(native.groups[g]))])
      \o Lossless(Ordered((left \ inTables) \ grouped))
      \o Lossless(Ordered(left \cap inTables))

Completed(document) ==
  [document EXCEPT !.blocks = InOrder(document.blocks \o LosslessBlocks(document))]

\* The record that is kept has the plan in the order of the completed document.
Reordered(record) == [record EXCEPT !.plan.blocks = InOrder(@)]

CountOf(s, document) == Cardinality({i \in DOMAIN Allocated(document.blocks) : Allocated(document.blocks)[i] = s})
Covered(document) ==
  \A s \in Spans(native) : CountOf(s, document) = (IF s \in document.excluded THEN 0 ELSE 1)

Complete ==
  /\ phase = "completing"
  /\ LET record   == TablesChecked
         document == Completed(EnforceTables(Accepted(record)))
     IN  /\ final' = document /\ repair' = Reordered(record)
         /\ phase' = IF ~Covered(document) THEN "lost"
                     ELSE IF IsPdf(native) /\ job.mode = "shadow" THEN "judging" ELSE "gate"
  /\ UNCHANGED <<job, page, texts, audits, warnings, placed, plans, verdict, saved, conversions>>

-----------------------------------------------------------------------------
(* The candidate pipeline, and the gates                                    *)

\* Beside the legacy text, the candidate pipeline that fails leaves no
\* validation; in its place, it ends the run.
Judge ==
  /\ phase = "judging"
  /\ \E v \in {"verified", "review_pending", "review_required", "failed", "none"} :
       /\ verdict' = v
       /\ phase' = IF v = "none" /\ job.mode = "candidate" THEN "aborted" ELSE "gate"
  /\ UNCHANGED <<job, page, texts, audits, warnings, placed, plans, repair, final, saved, conversions>>

Degraded(document) == \E b \in ToSet(document.blocks) : b.kind = "lossless"
Examined == Len(audits) = native.pages /\ \A p \in DOMAIN audits : audits[p].outcome \in {"applied", "reused"}

\* The findings of the legacy text: they are looked for only when there is no
\* validation of the candidate pipeline.
LegacyGate_AnyAudit == ~Degraded(final)
LegacyGate == ~Degraded(final) /\ (IsPdf(native) => Examined /\ warnings = {})
Gate == IF verdict = "none" THEN LegacyGate ELSE verdict \in {"verified", "review_pending"}

Publish ==
  /\ phase = "gate"
  /\ IF Gate
     THEN /\ phase' = "published"
          /\ saved' = [published |-> TRUE, doc |-> native, mode |-> job.mode, texts |-> texts, audits |-> audits,
                       repair |-> repair, final |-> final]
     ELSE phase' = "refused" /\ UNCHANGED saved
  /\ UNCHANGED <<job, page, texts, audits, warnings, placed, plans, repair, final, verdict, conversions>>

Job(d, hints, setting) ==
  [doc |-> d, hints |-> hints, mode |-> setting.mode, provider |-> setting.provider,
   propagate |-> setting.propagate, drifted |-> setting.drifted]

FirstPhase(j) ==
  IF ~IsPdf(j.doc) THEN "placing" ELSE IF j.mode = "candidate" THEN "judging" ELSE "correcting"

ConvertInit ==
  /\ \E source \in Natives : \E hints \in source.hints : \E setting \in Settings :
       ~setting.drifted /\ job = Job(source.doc, hints, setting)
  /\ phase = FirstPhase(job) /\ page = 1 /\ texts = [s \in Spans(native) |-> 0]
  /\ audits = <<>> /\ warnings = {} /\ placed = NoDocument /\ plans = <<>>
  /\ repair = NoRepair /\ final = NoDocument /\ verdict = "none"
  /\ saved = NotSaved /\ conversions = 1

\* The next run of the product: over the same source and the same hints, with
\* what the published run left.
Convert ==
  /\ phase = "published" /\ conversions < MaxConversions
  /\ \E setting \in Settings :
       LET j == Job(native, job.hints, setting) IN job' = j /\ phase' = FirstPhase(j)
  /\ page' = 1 /\ texts' = [s \in Spans(native) |-> 0] /\ audits' = <<>> /\ warnings' = {}
  /\ placed' = NoDocument /\ plans' = <<>> /\ repair' = NoRepair /\ final' = NoDocument
  /\ verdict' = "none" /\ conversions' = conversions + 1 /\ UNCHANGED saved

ConvertNext ==
  \/ \E p \in 1..native.pages :
       PageWithoutEvidence(p) \/ Reuse(p) \/ PageWithoutProvider(p) \/ CorrectPage(p)
  \/ SkipCorrection \/ EndCorrection \/ PlaceByHints
  \/ \E b \in DOMAIN plans : AskBatch(b) \/ RepairFails(b)
  \/ GivesUp \/ MergePlans \/ Complete \/ Judge \/ Publish \/ Convert

ConvertSpec == ConvertInit /\ [][ConvertNext]_convertVars

-----------------------------------------------------------------------------
(* Properties                                                               *)

\* validate_source_coverage never raises: whatever the hints propose and the
\* model answers, dropped and degraded blocks included, every span of the source
\* is in the document once, unless it is proven to be a repeated page edge.
NothingIsLost == phase # "lost" /\ final.excluded \subseteq RepeatedEdges(Spans(native))

\* A native table is in the document as it is, or whole within one lossless
\* block: a repair, an exclusion or a table around it never takes it apart.
TablesStayWhole ==
  final # NoDocument =>
    \A t \in Tables(native) :
      \E b \in ToSet(final.blocks) : b = Block("table", t) \/ (b.kind = "lossless" /\ ToSet(t) \subseteq ToSet(b.spans))

\* Plans that are valid for their batches are valid together: splitting a
\* request never makes the repair fail when the whole is validated again.
BatchesCompose ==
  phase = "repairing" /\ (\A b \in DOMAIN plans : plans[b].plan # NoPlan) => PlanValid(Unplaced(placed), Merged)

\* Nothing in a published conversion is unresolved, and its text differs from
\* the source's only by accepted patches of the page it is on.
Settled(s) ==
  /\ ~Degraded(s.final)
  /\ \A t \in Tables(s.doc) : Block("table", t) \in ToSet(s.final.blocks)
  /\ IsPdf(s.doc) =>
       /\ DOMAIN s.audits = 1..s.doc.pages
       /\ \A p \in DOMAIN s.audits : s.audits[p].outcome \in {"applied", "reused"}
       /\ \A sp \in Spans(s.doc) : s.texts[sp] # 0 => sp \in s.audits[s.doc.page[sp]].patched

\* What is published without the candidate pipeline is settled.
PublishedIsSettled == saved.published /\ saved.mode = "legacy" => Settled(saved)

\* A later run over the same source, with nothing of its contract changed, gives
\* the same text and structure as the settled run before it, without a request.
ReuseReproduces ==
  /\ conversions > 1 /\ phase \in {"judging", "gate", "refused"} /\ final # NoDocument
  /\ saved.final # NoDocument /\ Settled(saved) /\ ~job.drifted /\ job.provider
  => final = saved.final /\ texts = saved.texts /\ repair.outcome \notin {"applied", "degraded"}
=============================================================================
