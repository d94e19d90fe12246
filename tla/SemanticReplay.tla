---------------------------- MODULE SemanticReplay ----------------------------
(***************************************************************************)
(* Products that share one semantic document.  A run decides the questions *)
(* of the document, trusting the decisions its own product has on the      *)
(* default branch and those of every verified product with the same        *)
(* document; what it publishes can be trusted by later runs once it is     *)
(* merged.  The bytes of a document are a function of the document and the *)
(* answers; which answers an undecided question gets is the model's.       *)
(***************************************************************************)
EXTENDS Integers

CONSTANTS
  Products,
  Documents,      \* semantic sources
  Setups,         \* policies and models: part of every request hash, as the document is
  Questions,      \* the candidate sets of a document
  Leads,          \* the ones, as the tables, whose answers decide what the others are about
  Answers,        \* candidates of a question
  Render(_, _),   \* rendered bytes of a document and its answers
  Strict,         \* a branch is merged only on top of the default branch
  MaxRevisions    \* bound on the revisions of the default branch

VARIABLES
  main,      \* the artifacts of each product on the default branch
  revision,  \* its number
  branch     \* per product: its document, the revision it contains, and the last run

replayVars == <<main, revision, branch>>

Undecided == "deferred"
Modes == {"candidate", "shadow", "legacy"}

\* What a product has in generated/ and quality/.  Without a diagnostics manifest there
\* are no decisions either.
NoArtifacts == [doc |-> "none", mode |-> "none", status |-> "none", text |-> "none"]

-----------------------------------------------------------------------------
(* The catalog of a base revision                                           *)

\* load_semantic_replay_catalog reads all of it at one revision.  An artifact of another
\* document, or without diagnostics of the candidate pipeline, is passed over.
Matching(doc) ==
  {p \in Products : main[p].doc = doc /\ main[p].mode = "candidate"}

\* The manifest of a document under review lists semantic-review.json as well, and the
\* reports it lists are compared before its status is.
Untrusted(doc) == \E p \in Matching(doc) : main[p].status # "verified"

Baselines(doc) == {p \in Matching(doc) : main[p].status = "verified"}

\* The hash of a request: what the question is about, and for whom it is decided.
RequestHash(doc, setup, answers, question) ==
  <<doc, setup, question, IF question \in Leads THEN {} ELSE {<<q, answers[q]>> : q \in Leads}>>

\* semantic_replay_identity: the document and the hashes of its requests.
IdentityOf(doc, setup, answers) == <<doc, {RequestHash(doc, setup, answers, q) : q \in Questions}>>
ReplayIdentity(artifacts) == IdentityOf(artifacts.doc, artifacts.setup, artifacts.answers)

\* SemanticReplayCatalog.build
Conflicting(doc) ==
  \E p, q \in Baselines(doc) :
    /\ ReplayIdentity(main[p]) = ReplayIdentity(main[q])
    /\ main[p].text # main[q].text

\* A report answers a question if it was asked the same, and its answer stands.
Answered(artifacts, request, question) ==
  IF /\ artifacts.mode \in {"candidate", "shadow"}
     /\ RequestHash(artifacts.doc, artifacts.setup, artifacts.answers, question) = request
  THEN {artifacts.answers[question]} \ {Undecided} ELSE {}

\* The decision report the quality report of the product vouches for.
OwnAnswer(p, request, question) == Answered(main[p], request, question)

\* Mutant: only the product's own report is trusted.
TrustedProducts_Own(doc) == {}
TrustedProducts(doc) == Baselines(doc)

\* What a run for a product may trust: the report of the product itself comes first,
\* whatever its mode, and then the baselines, in an order that is left open.
Trusted(p, doc, request, question) ==
  LET own == OwnAnswer(p, request, question)
  IN  IF own # {} THEN own
      ELSE UNION {Answered(main[q], request, question) : q \in TrustedProducts(doc)}

\* canonical_markdown_for
Expected(doc, identity) ==
  {main[q].text : q \in {b \in Baselines(doc) : ReplayIdentity(main[b]) = identity}}

-----------------------------------------------------------------------------
(* A run                                                                    *)

NoRun == [state |-> "none"]

\* Mutant: what differs from the trusted bytes is published.
Mismatch_Ignored(doc, identity, text) == FALSE

Mismatch(doc, identity, text) ==
  \E expected \in Expected(doc, identity) : expected # text

\* validate_canonical, without the invariants of the text itself.
Status(answers) == IF \E q \in Questions : answers[q] = Undecided THEN "review_pending" ELSE "verified"

Failed == [state |-> "failed"]

\* What is written to generated/ and quality/, with the reports of the decisions.
Artifacts(doc, mode, setup, answers) ==
  [doc |-> doc, mode |-> mode, setup |-> setup, answers |-> answers, status |-> Status(answers),
   text |-> IF mode = "candidate" THEN Render(doc, answers) ELSE "legacy"]

\* A hard error publishes nothing, also in shadow mode.
Result(p, mode, setup, answers, asked) ==
  LET doc == branch[p].doc
  IN  IF \/ Untrusted(doc) \/ Conflicting(doc)
         \/ Mismatch(doc, IdentityOf(doc, setup, answers), Render(doc, answers))
      THEN Failed
      ELSE [state |-> "published", base |-> revision, asked |-> asked,
            artifacts |-> Artifacts(doc, mode, setup, answers)]

\* The questions that nothing trusted answers are the model's, and any of them may be
\* deferred. A document for which no candidate is safe is not published.
Process(p, mode, setup) ==
  /\ branch[p].doc \in Documents /\ branch[p].run.state = "none" /\ mode # "legacy"
  /\ \E answers \in [Questions -> Answers \cup {Undecided}] :
       LET doc == branch[p].doc
           trusted(q) == Trusted(p, doc, RequestHash(doc, setup, answers, q), q)
           asked == {q \in Questions : trusted(q) = {}}
       IN  /\ \A q \in Questions \ asked : answers[q] \in trusted(q)
           /\ \/ branch' = [branch EXCEPT ![p].run = Result(p, mode, setup, answers, asked)]
              \/ branch' = [branch EXCEPT ![p].run = Failed]
  /\ UNCHANGED <<main, revision>>

\* The legacy path decides nothing, but the catalog is loaded for it too. A candidate
\* pipeline that raises in shadow mode leaves the same.
ProcessLegacy(p) ==
  /\ branch[p].doc \in Documents /\ branch[p].run.state = "none"
  /\ branch' = [branch EXCEPT ![p].run =
       IF Untrusted(branch[p].doc) \/ Conflicting(branch[p].doc)
       THEN Failed
       ELSE [state |-> "published", base |-> revision, asked |-> {},
             artifacts |-> [NoArtifacts EXCEPT !.doc = branch[p].doc, !.mode = "legacy",
                                               !.status = "legacy", !.text = "legacy"]]]
  /\ UNCHANGED <<main, revision>>

\* A person changes the document of a product, on a branch from the default branch.
Push(p, doc) ==
  /\ doc # branch[p].doc
  /\ branch' = [branch EXCEPT ![p] = [doc |-> doc, contains |-> revision, run |-> NoRun]]
  /\ UNCHANGED <<main, revision>>

\* A failed run is asked for again.
Retry(p) ==
  /\ branch[p].run.state = "failed"
  /\ branch' = [branch EXCEPT ![p].run = NoRun]
  /\ UNCHANGED <<main, revision>>

\* Base synchronisation merges the default branch into the branch: a new head.
SyncBase(p) ==
  /\ branch[p].doc \in Documents /\ branch[p].contains # revision
  /\ branch' = [branch EXCEPT ![p] = [doc |-> branch[p].doc, contains |-> revision, run |-> NoRun]]
  /\ UNCHANGED <<main, revision>>

UpToDate(p) == Strict => branch[p].contains = revision

Merge(p) ==
  /\ branch[p].run.state = "published" /\ UpToDate(p) /\ revision < MaxRevisions
  /\ main' = [main EXCEPT ![p] = branch[p].run.artifacts] /\ revision' = revision + 1
  /\ branch' = [branch EXCEPT ![p] = [doc |-> "none", contains |-> revision, run |-> NoRun]]

ReplayInit ==
  /\ main = [p \in Products |-> NoArtifacts] /\ revision = 1
  /\ branch = [p \in Products |-> [doc |-> "none", contains |-> 1, run |-> NoRun]]

ReplayNext ==
  \E p \in Products :
    \/ \E doc \in Documents : Push(p, doc)
    \/ \E mode \in Modes, setup \in Setups : Process(p, mode, setup)
    \/ ProcessLegacy(p) \/ Retry(p) \/ SyncBase(p) \/ Merge(p)

-----------------------------------------------------------------------------
Texts == {Render(doc, answers) : doc \in Documents, answers \in [Questions -> Answers \cup {Undecided}]}

Deciding == [doc : Documents, mode : {"candidate", "shadow"}, setup : Setups,
             answers : [Questions -> Answers \cup {Undecided}],
             status : {"verified", "review_pending"}, text : Texts \cup {"legacy"}]
Undeciding == [doc : Documents \cup {"none"}, mode : {"legacy", "none"},
               status : {"legacy", "none"}, text : {"legacy", "none"}]
Published == [state : {"published"}, base : Nat, asked : SUBSET Questions,
              artifacts : Deciding \cup Undeciding]

\* The artifacts, branches and runs are well formed.
ReplayTypeOK ==
  /\ main \in [Products -> Deciding \cup Undeciding] /\ revision \in Nat
  /\ branch \in [Products -> [doc : Documents \cup {"none"}, contains : 0..revision,
                              run : {NoRun, Failed} \cup Published]]

IsVerified(artifacts) == artifacts.mode = "candidate" /\ artifacts.status = "verified"
Agree(a, b) == IsVerified(a) /\ IsVerified(b) /\ ReplayIdentity(a) = ReplayIdentity(b) => a.text = b.text

\* What was decided on top of the latest revision agrees with it, and a run is not
\* older than what its branch contains.
RunsAgree ==
  \A p \in Products :
    branch[p].run.state = "published" =>
      /\ branch[p].contains <= branch[p].run.base /\ branch[p].run.base <= revision
      /\ branch[p].run.base = revision => \A q \in Products : Agree(branch[p].run.artifacts, main[q])

(* Verified products with the same document, decided by the same requests  *)
(* to the same model, are published with the same bytes.                   *)
SameSourceSameBytes == \A p, q \in Products : Agree(main[p], main[q])

(* A run that decides what a verified product on its base has decided asks *)
(* no model.                                                               *)
ReplayAsksNothing ==
  \A p, q \in Products :
    LET run == branch[p].run
    IN  /\ run.state = "published" /\ run.base = revision /\ run.artifacts.mode # "legacy"
        /\ q \in Baselines(run.artifacts.doc) /\ ReplayIdentity(main[q]) = ReplayIdentity(run.artifacts)
        => run.asked = {}
===============================================================================
