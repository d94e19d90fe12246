# Verification of the ARD Ossie provider

TLA+ models of the control logic of this repository (`src/src/ard_ossie` and
`src/.github/workflows`), TLC configurations that check them on small instances,
and proofs that TLAPS checks for every value of the constants. `PROJECT.json` maps
every definition to the lines it models and lists hazards, runs and theorems.

The program turns the sources of a data product (a dictionary workbook, an HTML
description, a semantic PDF) into a registry and generated artifacts, in pull
requests that workflows prepare, process, gate and release. What is hard in it is
less the conversion than the coordination: several workflow runs, people who push
and merge, git and GitHub calls that take effect and still fail, files that are
promoted while a process may die, and a model whose answers must not lose text and
must not be asked for twice.

## Inventory

Paths without a directory are under `src/src/ard_ossie`.

| Part | State | Operations | Modules |
| --- | --- | --- | --- |
| Intake (`application/intake.py`, `github_event.py`, `ard-issue-intake.yml`) | branch, Draft pull request, labels, `product.yaml` | authorise, route, prepare, commit, push, open, finalise | `Intake` |
| Base sync (`application/base_sync.py`) | the managed branch | route, merge base, reset outputs, push, check again | `Intake` |
| Direct change (`application/source_check.py`) | branch, Draft pull request | detect the product, source check, ensure the pull request | `Processing` |
| Processing (`application/processing.py`, `ard-process.yml`) | head, statuses, result file | head checks, pipeline, commit, push, statuses, dispatch; reconcile | `Processing` |
| Finalise (`application/finalize.py`) | failure statuses, labels, comment | write after a run | `Processing`, `RepositoryGate` |
| Pipeline (`pipeline.py`) | `registry/`, `generated/`, `quality/` | parse, resolve, plan versions, gate, stage, promote, report | `Registry`, `Promotion`, `AtomicPromotion`, `QualityWriter`, `Conversion` |
| Registry (`registry.py`, `identity.py`, `versioning.py`, `impact.py`) | products, tables, mappings, changesets | classify, plan, write | `Versioning`, `Registry` |
| Changesets (`application/changesets.py`, `ard-changeset.yml`) | record, coordination branch, tracking pull requests, statuses | create, ready | `Changesets` |
| Release (`application/release_*.py`, `release.py`, `ard-release.yml`) | tags, Releases, assets, `ard/dispatched` | detect, plan, bundle, tag, push, upsert, upload, dispatch | `Release`, `Changesets` |
| Semantic pipeline (`semantic/`, `application/semantic_replay.py`) | evidence, decisions, correction and repair records | candidates, votes, recovery, generation, replay, correction, structure, repair, tables | `Spacing`, `Adjudication`, `SemanticReplay`, `Conversion` |
| LLM service and providers (`llm/`) | attempts of a call | retry, repair, translate | `LLM` |
| Repository checks (`application/repository_checks.py`, `ard-repository-change.yml`) | jobs, statuses, tool cache | check, verify, finalise | `RepositoryGate`, `VerificationTools` |
| Bootstrap (`application/github_bootstrap.py`) | labels, variables, environments, secret, protection | plan, apply, enable reviews | `Bootstrap` |
| Subprocess runner (`adapters/subprocess.py`) | processes, pipes, threads | run with a deadline | `SubprocessRunner` |
| Adapters, path policy (`adapters/`) | clone, remote | git and GitHub calls | in the module of the caller |
| Command line (`cli/`, `application/output.py`) | result envelope | prepare, run, write | `Processing`, `Bootstrap` |
| Parsing (`ingestion.py`, `docling_parser.py`, `excel_adapter.py`) | none | convert documents | not modelled |
| Preview, renderers (`application/modeling.py`, `ossie_compiler.py`, `renderers.py`) | none | render a registry | not modelled |

How they interact: the intake and direct workflows hand a head to processing;
processing runs the pipeline on it, which asks the LLM service and the semantic
pipeline, writes the registry and may dispatch a readiness run of a changeset;
merges are what protection allows, which bootstrap writes; a push to the default
branch starts detection and release. The git and GitHub calls of all of them go
through the subprocess runner.

What makes each correct: releases are immutable, verified and announced after they
are published, under non-atomic pushes and reruns; a promotion is all or nothing;
the registry keeps identities unique and versions exact under pull requests that
are processed against an older base; a changeset is merged at the heads its
readiness records and released whole; processing reports success only for what it
processed; an intake hands over what was approved, on the approved base, and loses
nobody's work; a decision is earned and stands; a conversion loses no text; a green
head was verified; a command returns.

## Modules

### Release: publication and dispatch

`Release` is one action per step of `ReleasePublicationService.run` and
`ReleaseDispatchService.run`. A job is a (product, commit) pair of the release
matrix. `pc` is the place in the publication, `link` that in the linkage job;
`localTags` is the clone, `remoteTags` and `releases` what GitHub has; `files`,
`plan` and `bundle` are the three times the product's content is read.
`FreshCheckout` says whether each attempt starts in a new clone, as the workflow
does: `tag_target` reads the tags of the clone, so a reused one could take a tag
that was never pushed for an existing one. Calls may take effect and be reported
as failed. The gates of `resolve_release_plan` are the set `Releasable`.

### Promotion and QualityWriter: what a run leaves on disk

`Promotion` follows `_promote_directories` statement by statement: `stale`
(remove an old backup), `save`, `install`, and on an exception `remove` and
`restore`. Directories are their contents; the token of a backup is the input's
hash, so `backup` is indexed by the input. `Crash` is the loss of the process
anywhere. `AtomicPromotion` is what the pipeline promises while no process dies:
one step replaces all directories. `Promotion` implements it with
`published <- Published` (`PromotesAtomically`).

`QualityWriter` is `_secure_write_quality`, the other way a run ends: the chain of
directory descriptors, the identity checks, staging, renames in order, cleanup,
and the refusal on platforms without descriptors, while somebody else moves
directories or changes files between any two calls. What a run writes depends on the
document: always the siblings, the seven diagnostics when the semantic pipeline gave a
result, with them the review record when a decision was deferred, and the repair record
when the document was repaired (`Extras`). The report hashes exactly what is written
with it, and `ReportIsWrittenLast` is about that: whenever and however a run ends, what
the new report hashes is not of an earlier run. It is no promise about the rest of the
directory. Only the repair record of an earlier run is removed, by an unlink after the
renames, so it is still there if the process dies or a call fails in between; the
diagnostics and the review record of an earlier run stay beside the new report even of a
run that succeeds. The property says of the first that it is gone once the run is past
its unlink, and nothing of the others. `MCPipeline` checks promotion and reports side by
side with `Registry`; a run of the pipeline takes one of the two.

### Versioning and Registry

`Versioning` is `plan_version`. `Registry` holds the registry of the default
branch and, for every pull request, its request, the base its branch contains and
its own registry. `Process` is `process_product` from the resolution of tables to
the promotion; `BaseSync`, `MergePR` and `Close` are what moves a pull request. A
table is its columns, a product the columns of its tables and the versions it uses.

### Changesets

`Changesets` is one changeset from its definition to its release: the changeset
service, processing with write-back, the merges, and detection and publication at
each push. A workflow run holds the concurrency group (`job`); within it every
call is an action of its own, because people push and merge while it runs. Heads
are not numbered: `recorded` says whether the live head is the one readiness was
recorded at, which no other head can become. `MCChangesets` also instantiates
`Release` for the two jobs such a merge starts, for the liveness of their reruns.

### Processing

`Processing` is one product branch from a push to a merge: the direct workflow, the
reusable processor (`SourceCheck` to `Report`, one action per remote call), the
reconciliation of a partial publication and the finalizer. A commit is its parent,
the content of its sources and whether its outputs are those of the sources
(`exact`). `Call` is a remote call that may fail with or without its effect;
`HumanPush`, `Review`, `Merge` and the delay of the pull request (`PrCatchesUp`)
interleave with every call, and `Killed` is a cancelled or lost run. In
`Changesets` and `Registry` a run of processing is one action; what they rely on, a
quality status only for what was processed, is `QualityIsEarned` here.

### Intake

`Intake` is the path of approved issues to the managed Draft pull request: the
route job, the intake of a new or an existing branch, the base synchronisation with
its reset of outputs and its checks before and after the push, the pull request,
labels and finalisation, each remote call with its failures. All issues of an
instance share a product, a changeset and so a branch, while the workflow
serialises the runs of one issue only. An issue is edited between approvals, a
coordinator populates tracking branches, the default branch moves, people push,
close and mark ready. A config is the fields that later steps compare.

### SubprocessRunner and LLM: waiting for others

`SubprocessRunner` is one command: a thread per pipe, a writer of stdin, and the
caller that waits, kills the group and joins. Reads are units; `orphan` is a
descendant with a session of its own. `LLM` is `LLMService.generate` and the four
adapters: attempts shared by retries and repairs, the classification of failures
and answers, and where each adapter puts the instruction of a repair. `MCIntake`
checks both beside `Intake`: they are what its calls rest on, and share no state.
`Selections` has the part of a sequence that a comprehension with a condition keeps, of
which the audits of `Adjudication`, the counts of `LLM` and the documents of `Conversion`
are made, and the pieces a loop cuts a sequence into, which are the batches of a repair.

### Spacing, Adjudication, SemanticReplay, Conversion: the semantic PDF

`Spacing` has the candidates of a spacing, their defects and the fallback.
`Adjudication` decides one set of candidates per run: by rule, by a stored decision
whose hashes still match, by votes, recovery and tiebreak, or by a generated
spacing that a verifier accepts; the record of a run is what the next may trust.
`SemanticReplay` is whole documents of several products: which decisions a run
trusts, what it publishes, and what the merge makes of it. `Conversion` is the
legacy text: correction of pages in requests that may be split, structure, repair
of the spans no hint placed, native tables, the gates and the reuse of correction
and repair records. What the extractors guarantee of a document is
`ConversionAssumption`, which TLC evaluates for the documents of the run.

Abstractions of `Conversion`: blank native tables and block orders are left out;
plans that fail validation are kept for audit only, and would fail again; the audit
patches of rejected pages are not kept; the verdict of the candidate is an input of
the environment; a table or text box nested in a cell of a DOCX always becomes a
lossless block; a change of the model alone does not stop the reuse of a record
(the trusted provider and model are used), so `drifted` is the prompt, the schema or
the renderer.

### Bootstrap, RepositoryGate, VerificationTools: what guards main

`Bootstrap` is plan, apply with its own plan and its postcondition, and
`enable_review_protection`, with an administrator who changes settings in between
and calls that fail. A setting is absent, drifted or desired; the protection is its
three fields that matter. `RepositoryGate` is the workflow for changes of the
repository: events, the concurrency group that cancels, jobs that fetch the head
the pull request has by then, the matrix, and a finalizer that runs whatever
happened and writes two contexts one after the other; the merge button asks the
protection. `GateSpec` composes it with `Bootstrap`. `VerificationTools` is how one
verifier comes to its verdict: the chunks of the secret scan, the cache of
actionlint that outlives a job that died, the receipt of the model schema helper.

## Runs

| Run | Shows | Bounds |
| --- | --- | --- |
| `release_safety` | tags, assets, verification, one delivery | three jobs of two commits, one shared product tag and one shared table tag, 2 faults: a half push, then a competing job and a rerun |
| `changesets_safety` | merged at recorded heads, released whole; publications converge | 2 products, 3 mishaps, versions to 3, without strict protection, which only takes merges away; two jobs of one commit, 2 faults |
| `changesets_strict` | violation: under strict protection a changeset of two products is not released | 2 products, no mishap |
| `pipeline_safety` | identities, versions, shared changes; recoverable after a crash, atomic until one; what a report hashes is of its run, nothing left behind | 3 products, 2 tables, 2 pull requests, versions to 3: a column is dropped in one version and asked for again in the next; 3 directories as in the code, 2 inputs, 2 crashes; a path of two components, 2 changes by somebody else, 1 failing call, over all the files of an earlier run |
| `promotion_lost` | violation: crash and rerun lose the registry | 1 crash |
| `processing_safety` | earned green heads, true reports, kept pushes | 4 commits, 3 kinds of sources (alone, in a changeset, refused), 2 faults |
| `semantic_safety` | earned and lasting decisions, same bytes without a call, no text lost, honest gates, exact reuse | 3 runs of the adjudicator over five request sets; two products, 4 published or merged revisions; two conversions of six documents |
| `semantic_undecided` | violation: an answer ends the run instead of being left to review | 1 run |
| `intake_safety` | approved handovers, clean synchronisations, kept work; commands return; calls follow answers | two issues, 2 approvals, 2 mishaps; output one unit over the limit, a pipe of one unit; 3 attempts, 2 repairs, 4 adapters |
| `intake_retry` | violation: a retried update never converges | 1 mishap |
| `command_held` | violation: a descendant holds a command beyond its deadline | as `intake_safety` |
| `governance_safety` | lasting bootstrap, true statuses, earned verdicts, a verified main | 4 heads (two of code, one of code and data, one without a change), 2 runs, 1 drift, 1 failure; file of 8, chunk 3, overlap 2, secret 3; 3 deaths |

Each passing run ends in about three minutes or less with two workers; the largest are
`governance_safety` (4.7 million states) and `processing_safety` (3.7 million).

Why the bounds are enough: each is the smallest at which every action fires and the
cases of the hazards happen, namely two actors for a race, one more fault than a
single recovery needs, and one more version, commit or chunk than the rule looks
back. `MaxFaults`, `MaxMishaps`, `MaxFailures`, `MaxDrifts`, `MaxMoves`,
`MaxCrashes`, `MaxDeaths`, `MaxApprovals`, `MaxRuns`, `MaxMain`, `MaxApplies`,
`MaxConversions` and `MaxRevisions` bound what fails or is done unasked;
`MaxCommits` and `MaxVersion` (999 in the code) bound the history. They are guards of
the actions they bound. What the proofs below cover does not depend on them.

Five modules put independent parts into one run: `MCPipeline`, `MCIntake`,
`MCSemantic`, `MCChangesets` and `MCGovernance` have a variable `about` that says
which part a behaviour is of. The parts share no state there, so nothing is lost by
not interleaving them; in `MCGovernance` the merges start from a bootstrap that
ends well, because that is what `MainIsVerified` is about.

Deadlock checking is off where the system may stop: a changeset that is released, a
pull request that is merged, a command that returned, a run without work.

The operators named `X_Y` in the modules are the bugs each property is there to
catch; each replaces `X` and violates its property in the same run.

### Fairness

`Release!Fairness`: a job that started goes on, and a failed attempt is rerun.
Failures are bounded and not fair; convergence is claimed for commits whose tags no
other commit claims. `Changesets!Fairness`: a workflow run goes on (weak), a queued
run starts (strong, for the group is taken again and again), and people do what is
asked of them: approve the sync of a marker-only branch, and merge what protection
allows. Nothing is assumed of failing runs, lost dispatches or people who push.
`SubprocessRunner!Fairness`: threads and the caller are scheduled, the deadline
passes, and a killed process ends. `CommandsReturn` holds if a descendant outside
the group ends some day, which the code cannot enforce; `command_held` leaves that
one assumption out.

## Disagreements found

Five runs expect a violation; `PROJECT.json` quotes the document or test for each.

1. `promotion_lost`: a crash between the renames of a promotion and a rerun with the
   same input delete the registry's only copy (`pipeline.py:2529`).
2. `intake_retry`: an update whose push succeeded and whose pull request was not
   created is prepared again over its own config and refused for good
   (`github_event.py:421`).
3. `semantic_undecided`: a generated spacing with a doubled blank, or a fifth
   validation code, raises out of the adjudicator (`semantic/adjudication.py:586`).
4. `command_held`: `stream.close()` waits for the reader it should release
   (`adapters/subprocess.py:156`).
5. `changesets_strict`: the bootstrap makes the protection of main strict
   (`application/github_bootstrap.py:64`, as `docs/github-actions-setup.md:164` says),
   and readiness is bound to exact heads. The plan for a changeset of two products
   merges the readiness record, the first product and the second, and forbids taking
   main into the second (`2026-08-16-shared-table-changeset-e2e-design.md:136,143-145`),
   but each of these merges puts the other branches behind, so the next one is not
   allowed, and a head that does take main in is not the recorded one. Nothing is
   released. `Changesets` with `Strict = FALSE` has no such end: there the property holds.

Further disagreements with the documents under `src/docs/superpowers/specs`, seen
in the models and without a run of their own:

- After a failed push the result of processing names a commit that was never
  published; the finalizer gets that head, and the head of the pull request no
  failure status (`application/processing.py:296`;
  `2026-08-08-cli-first-workflow-architecture-design.md:353`).
- A product that newly uses the table of one other product changes it without a
  changeset (`pipeline.py:1008`;
  `2026-08-08-ai-ready-data-ossie-architecture-design.md:573`), and a change made
  for an older version replaces a newer one after a base sync, for the base version
  defaults to the registry's (`pipeline.py:912`; the same document, line 474).
  `SharedChangesAreCoordinated` is about the products that already used the table.
- In shadow mode the gates of the legacy text are skipped when a candidate
  validation lies beside it (`pipeline.py:1182`, `release.py:143`;
  `2026-08-14-adaptive-semantic-pdf-fidelity-design.md:97-103`).
  `PublishedIsSettled` is about documents whose findings are looked at.
- A deferred decision is asked for again by every run (`semantic/adjudication.py:1054`;
  `2026-08-15-llm-whitespace-repair-deferred-review-design.md:410`), and without a
  provider a repair record is not reused (`pipeline.py:539`).
- Every 429 of Vertex is a transient failure, against
  `2026-08-13-multi-provider-llm-design.md:275`.

Limits of the code that no document denies: diagnostics of one unverified product
keep all others from replaying (`application/semantic_replay.py:199`); without
strict protection two products with one source can be merged with different bytes;
a populated tracking pull request can never be synchronised
(`application/base_sync.py:151`); an update without a description does not match its
own config at the next approval; a run that is cancelled between its push and its
statuses leaves a head no workflow looks at again; a required review count of two or
more becomes zero at a bootstrap, and a count that is turned on while a bootstrap
writes can be undone; a finalizer that fails before its first write leaves the
statuses of the run before; a version of 999 is refused by the model class and not
as `VERSION_LIMIT_REACHED`; a binary of actionlint without its execute bit fails
every run until the cache is cleared; the diagnostics and the review record of an
earlier run, and after a death or a failed unlink the repair record, stay beside the new
report of a failed product, whose hashes do not name them (`pipeline.py:2082-2097,2188`;
`release.py:302` and `application/semantic_replay.py:179` refuse such a set); and two people who run the command in one work
tree can mix their quality files.

## What is proved

TLAPS checks these for every value of the constants, from the named assumptions of
the modules:

- `PromotionProofs`: types; `PromotionInv`, which says for every directory and every
  statement whether it is the old, the new or absent, and where the old one is; from
  it all or nothing, `CrashIsRecoverable` (the lists of the run are lost with the
  process, what they said of the disk is not: `RunIsWithinReach`), and that
  `Promotion` implements `AtomicPromotion`. For the quality writer `WriterInv`, hence
  `ReportIsWrittenLast` and `EndsAreClean`: the locals fit the place of the run, a
  temporary file stands in the anchored directory under a staged name, no payload there
  is of an earlier run once it was renamed, nor the repair record once it was unlinked, and while the chain is checked for the last
  time each component passed so far leads on or was moved since the last rename. The
  assumption: the names of the reports differ, by group.
- `RegistryProofs`: `plan_version` allows exactly the next version; what one accepted
  run writes is sound, counts versions and keeps identities; from these `RegistryInv`
  (the registry of a branch is its base or one such step from it), `UniqueIdentities`,
  resolving mappings, `VersionsCountChanges` and `IdentitiesAreStable`. For
  `SharedChangesAreCoordinated` the invariant is `CoordinatedInv`: a branch that is ready
  is a coordinated step from its own base, and a merge requires that base to be main.
- `ChangesetsProofs`: types; `ChangesetsInv`, hence `MergedAtRecordedHeads`,
  `ReleasesAreWhole`, `LastMergeReleases` and `ReadinessIsFinal`. Merges look at
  statuses, not at records, so both statuses must meet on a recorded head only
  (`HeadInv`), which needs that no head gets its quality status between the count of
  a readiness run and the statuses it sets (`JobInv`).
- `ProcessingProofs`: types; `ProcessingInv`, hence `QualityIsEarned`,
  `ReadinessIsGreen`, `ReportsAreTrue`, `PushedIsKept` and `QualityIsFinal`. A status
  is set several calls after the commit was made, so `CommitInv` says of every stage
  what the ones before have done; lemma `KeptStep` carries it over the steps of people.
- `SemanticProofs`, decisions: `DecisionsAreEarned` and `DecisionsReplay` for any
  requests, candidates, policies, number of runs and answers (the
  assumption: candidates have a score of at most 100 and ranks of their own, as their
  ids order them, and no candidate is the mark of none). Neither is inductive. `AdjudicationInv` says what
  the audit looks like in every stage (`AuditIsOrderly`: a stretch of tries per phase,
  each asked with the messages its predecessors make), that the record of a run and
  every report it trusts are those of a rule, of review, or of the model with the very
  attempts it keeps (`Sound`, `Made`), and that a run which trusts a selection never
  reaches the model. Two lemmas carry it: whatever is made is earned (`MadeIsEarned`),
  and whatever is made passes the audit of a later run (`MadeIsUsable`), which walks
  the hashes of the attempts in the order they were made.
- `SemanticProofs`, replay: `SameSourceSameBytes` under strict protection, for any
  products, documents, questions and answers: what a branch has decided agrees with
  every verified product of its base, and a strict merge is a merge on that base. And
  `ReplayAsksNothing`, with and without strict protection, from `AskInv`: a baseline has
  no open answer, and a request names its question.
- `SemanticProofs`, conversion: `NothingIsLost`, `TablesStayWhole`, `BatchesCompose`,
  `PublishedIsSettled` and `ReuseReproduces` for any sources, hints, answers and number
  of runs. `ConversionAssumption` is what the extractors of `sources.py` guarantee: a
  span is in one cell of one table and in one group, a nested table comes after the one
  around it, and the regions of two tables lie one in the other or apart, because the
  spans of a table are numbered while its cells are walked; a hint names spans of the
  document and none twice. `ConversionInv` has five parts besides the sources:
  the texts differ from the source's only by what an audit of their page patched
  (`CorrectionInv`), every kept plan fits the spans the hints leave (`PlacingInv`), a
  document is what the functions of the parser make of such a plan (`FinalInv`), and so
  is the saved one (`SavedInv`); a run that may reuse follows the saved one page by page
  and plan by plan (`ReuseInv`). `ReuseReproduces` is not inductive without them: equal
  documents come from equal plans, and a settled run with spans left has a plan to take
  over, since without one they would be in a lossless block (`UndegradedHasPlan`).
  Most of the proof is about the functions. Each keeps the spans of its blocks apart
  (`ReconciledFacts`, `AcceptedFacts`, `EnforceTablesFacts`, `CompletedFacts`), so that
  the completed document has every span once (`CompletedCovers`); a table that was made
  whole stays so while later ones are enforced, as their regions are apart or inside
  (`EnforceTableStep`); and sorting the plans of batches by their first spans gives back
  the order of the spans (`InOrderSame`, `MergedValid`).
- `SequenceLemmas`: what `Picked` and `Pieces` (of `Selections`) and `FlattenSeq` make of
  a sequence: which elements, in which order, and that cutting and joining is the
  identity. All are recursive functions, so each lemma is an induction over sequences;
  the principle is derived (`Least`, `Induction`, `SequenceInduction`) from the order of
  the numbers being well founded, and `Recursion` gives a recursive function its equations.
- `IntakeProofs`: `IntakeInv` says of every commit that origin or a run holds what it is
  worth (it is approved, clean, and its config was prepared over the version of its own
  base, because git conflicts when main changed the config too) and of every run what
  its place implies; hence `HandoverIsApproved`, `SynchronisedIsClean`,
  `UpdatesReplaceWhatTheySaw` and `OthersWorkSurvives`. The assumptions: no issue is the
  processor, None is no config. And for commands `RunnerInv`: a reader keeps what it
  takes up to the limit and one more, and the caller knows which readers it joined;
  hence `ReturnIsFinal`. For the calls of the model `LLMInv`: while a call lasts its
  counters are those of the answers it got, and the active instruction is the code of
  the last one rejected; hence `CallsFollowAnswers`, for any conversation and limits.
- `GovernanceProofs`: `VerdictsAreEarned` for any sizes of file, chunk and overlap
  (`WindowCovers`: a secret that was read to its end does not begin before the
  window) and any deaths (`CacheIsPinned`); `StatusesAreTrue` for any heads and
  groups (`JobsAreEarned`: a job that succeeded verified the head of its run, or it
  was a static job that skipped all others); `SuccessIsConverged` for any drifts and
  failures (`LooksAreCurrent`: a target the postcondition passed by stays satisfied
  until the count of drifts moves); and from the last two `MainIsVerified`.
- `GovernanceProofs`, the release jobs: types; `ReleaseInv` when every attempt has a new clone
  (`FreshCheckout`), hence `SuccessIsPublished`, `OnlyVerifiedContent` and
  `DispatchFollowsPublication`; without that hypothesis `PublishedIsImmutable` and
  `NoRedelivery`. `SuccessIsPublished` is not inductive: the invariant adds what an
  attempt knows of origin at each step, which other jobs keep because a remote tag
  never moves (lemma `Monotone`).

Only model-checked: liveness (`ReleasesConverge`, `CommandsReturn`), which is out of the prover's reach with `ENABLED`. Every invariant
that a run checks is proved. No model uses a recursive operator: what the code folds,
sorts and cuts is written with recursive functions, for the provers know nothing of an
operator that takes an operator.

## What is not modelled, and why

- Parsing, layout, OCR, rendering, schema generation and suggestions: functions on the
  content of documents, without control a model checker could tell apart.
- The snapshot of the registry (`pipeline.py:584-760`): checks around one read, which
  only a second writer in the same work tree could disturb.
- Redaction of secrets in output, a kill after the reuse of a process id, and the
  resolution of paths and links: data of the host.
- A run of processing without write-back (no workflow asks for one), a pull request
  whose base is changed, retries inside one remote call, labels and comments that no
  step reads, the download of attachments and the fields of a form.
- Changed-path validation and table outputs of release detection.
- Some steps are coarser or kinder than the code where no property tells the
  difference. `Changesets!Create` pushes, opens the pull request and sets its statuses
  in one step. A request whose automatic id is the configured id of another locator has
  no resolution in `Registry`, where the code goes on to fail. A changed helper stays
  recognised over later runs of `VerificationTools`, though `repository_checks.py:212`
  takes the trusted digest afresh. `Conversion!InOrder` sorts by the first span
  (`parser.py:716,756` by the smallest ordinal and then the order), blank tables
  (`parser.py:465`) are left out, and the grouping of repeated edges by signature and
  kind with its overlap check (`structure.py:1019-1073`) is a threshold on the edges
  the document is given.

## Plan

Left: abstract specifications of more components, as `AtomicPromotion` is of
`Promotion`, with the steps that map to them proved - first what a release promises (a
version is absent, then published, and never another) and what a registry promises; and
the registry snapshot, when a command that several people share in one work tree makes
it matter.
