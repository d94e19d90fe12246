-------------------------- MODULE GovernanceProofs --------------------------
(***************************************************************************)
(* Proofs about what the repository's own automation does with its default *)
(* branch: VerificationTools, Bootstrap and RepositoryGate as GateSpec     *)
(* composes them, for any file and chunk sizes, any heads, any groups and  *)
(* any number of failures, drifts and runs; and the publication and        *)
(* linkage jobs of Release, for any number of jobs, commits, tags and      *)
(* failures.                                                               *)
(***************************************************************************)
EXTENDS RepositoryGate, VerificationTools, Release, TLAPS

(***************************************************************************)
(* The verifiers                                                           *)
(***************************************************************************)
Scanning == {"scan"}
Linting  == {"manifest", "digest", "archive", "unpack", "extract", "chmod", "run"}
Helping  == {"candidate", "receipt", "failed"}
Places   == Scanning \cup Linting \cup Helping \cup {"none", "command", "compare", "ended"}
Verdicts == {"none", "success", "failure", "died"}

ToolsTypeOK ==
  /\ tool \in [name : Verifiers \cup {"none"}, at : Places, verdict : Verdicts,
               ran : {"nothing", "complete", "other", "absent", "partial", "pinned"}]
  /\ cache \in [archive : {"absent", "other", "partial", "pinned"},
                binary : {"absent", "other", "partial", "pinned"}, executable : BOOLEAN]
  /\ secret = NoSecret \/ (secret \in Nat /\ secret + SecretSize <= FileSize)
  /\ from \in Nat /\ to \in Nat /\ from <= to /\ to <= FileSize

\* A verifier is at its own places, and has no verdict before it ended.
AtOwnPlace ==
  /\ tool.at \in Scanning => tool.name = "secret-scan"
  /\ tool.at \in Linting  => tool.name = "actionlint"
  /\ tool.at \in Helping \cup {"command", "compare"} => tool.name \notin {"secret-scan", "actionlint"}
  /\ tool.at # "ended" => tool.verdict = "none"

\* The window begins at the file or reaches back over a whole overlap, and no secret that
\* was read to its end lies before it.
WindowCovers ==
  tool.at \in Scanning =>
    /\ from = 0 \/ to - from >= Overlap
    /\ secret # NoSecret /\ secret + SecretSize <= to => from <= secret

\* What is unpacked is the pinned archive, what is run its binary.
CacheIsPinned ==
  /\ tool.at \in {"unpack", "extract"} => cache.archive = "pinned"
  /\ tool.at \in {"chmod", "run"} => cache.binary = "pinned"

ToolsInv == ToolsTypeOK /\ AtOwnPlace /\ WindowCovers /\ CacheIsPinned /\ VerdictsAreEarned

LEMMA ToolsInitially == ToolsInit => ToolsInv
BY ToolsAssumption
   DEF ToolsInit, ToolsInv, ToolsTypeOK, AtOwnPlace, WindowCovers, CacheIsPinned,
       VerdictsAreEarned, NoSecretSlipsThrough, PinnedIsRun, Scanning, Linting, Helping,
       Places, Verdicts

\* The end of a verifier that keeps neither a window nor a cache.
LEMMA OthersEnd ==
  ASSUME ToolsInv, tool.name \notin {"secret-scan", "actionlint"}, UNCHANGED <<cache, secret, from, to>>,
         NEW v \in {"success", "failure"}, tool' = [tool EXCEPT !.at = "ended", !.verdict = v]
  PROVE  ToolsInv'
<1>1. tool'.at = "ended" /\ tool'.name = tool.name
  BY DEF ToolsInv, ToolsTypeOK
<1>2. ToolsTypeOK'
  BY DEF ToolsInv, ToolsTypeOK, Places, Verdicts
<1>3. AtOwnPlace' /\ CacheIsPinned'
  BY <1>1 DEF AtOwnPlace, CacheIsPinned, Scanning, Linting, Helping
<1>4. WindowCovers' /\ VerdictsAreEarned'
  BY <1>1 DEF WindowCovers, VerdictsAreEarned, NoSecretSlipsThrough, PinnedIsRun, Scanning
<1> QED BY <1>2, <1>3, <1>4 DEF ToolsInv

LEMMA ToolsStep == ToolsInv /\ [ToolsNext]_toolVars => ToolsInv'
<1> SUFFICES ASSUME ToolsInv, [ToolsNext]_toolVars PROVE ToolsInv'
  OBVIOUS
<1> USE DEF ToolsInv
<1>1. ASSUME NEW name \in Verifiers, StartTool(name) PROVE ToolsInv'
  <2> DEFINE place == CASE name = "actionlint" -> "manifest" [] name = "model-schemas" -> "candidate"
                        [] name = "secret-scan" -> "scan" [] name \in Commands -> "command"
                        [] name \in Comparisons -> "compare"
  <2>1. /\ tool' = [name |-> name, verdict |-> "none", ran |-> "nothing", at |-> place]
        /\ cache' = cache
    BY <1>1 DEF StartTool
  <2>2. /\ name = "secret-scan" => place = "scan"
        /\ name = "actionlint" => place = "manifest"
        /\ name \notin {"secret-scan", "actionlint"} => place \in {"candidate", "command", "compare"}
    BY DEF Verifiers, Commands, Comparisons
  <2> HIDE DEF place
  <2>3. /\ name = "secret-scan" =>
             /\ secret' \in {NoSecret} \cup {s \in 0..FileSize : s + SecretSize <= FileSize}
             /\ from' = 0 /\ to' = 0
        /\ name # "secret-scan" => secret' = secret /\ from' = from /\ to' = to
    BY <1>1 DEF StartTool, Scanned
  <2>4. ToolsTypeOK'
    BY <2>1, <2>2, <2>3, ToolsAssumption DEF ToolsTypeOK, Places, Scanning, Linting, Helping, Verdicts
  <2>5. AtOwnPlace' /\ CacheIsPinned' /\ VerdictsAreEarned'
    BY <2>1, <2>2 DEF AtOwnPlace, CacheIsPinned, VerdictsAreEarned, NoSecretSlipsThrough,
       PinnedIsRun, Scanning, Linting, Helping
  <2>6. WindowCovers'
    BY <2>1, <2>2, <2>3, ToolsAssumption DEF WindowCovers, Scanning
  <2> QED BY <2>4, <2>5, <2>6
<1>2. ASSUME NEW n \in 1..Chunk, ReadChunk(n) PROVE ToolsInv'
  <2>1. UNCHANGED <<tool, cache, secret>> /\ tool.at = "scan" /\ ~Found /\ to < FileSize
    BY <1>2 DEF ReadChunk, At
  <2>2. /\ to' = (IF to + n < FileSize THEN to + n ELSE FileSize)
        /\ from' = (IF to - from > Overlap THEN to - Overlap ELSE from)
        /\ n \in Nat /\ n > 0
    BY <1>2, ToolsAssumption DEF ReadChunk
  <2>3. to' \in Nat /\ to' > to /\ to' <= FileSize
    BY <2>1, <2>2, ToolsAssumption DEF ToolsTypeOK
  <2>4. from' \in Nat /\ from' <= to'
    BY <2>1, <2>2, <2>3, ToolsAssumption DEF ToolsTypeOK
  <2>5. secret # NoSecret => secret \in Nat /\ secret + SecretSize > to
    BY <2>1, ToolsAssumption DEF Found, WindowCovers, Scanning, ToolsTypeOK
  <2>6. from' = 0 \/ to' - from' >= Overlap
    BY <2>1, <2>2, <2>3, ToolsAssumption DEF WindowCovers, Scanning, ToolsTypeOK
  <2>7. secret # NoSecret => from' <= secret
    BY <2>1, <2>2, <2>5, ToolsAssumption DEF WindowCovers, Scanning, ToolsTypeOK
  <2>8. ToolsTypeOK' /\ WindowCovers'
    BY <2>1, <2>3, <2>4, <2>6, <2>7 DEF ToolsTypeOK, WindowCovers
  <2> QED BY <2>1, <2>8 DEF AtOwnPlace, CacheIsPinned, VerdictsAreEarned, NoSecretSlipsThrough, PinnedIsRun
<1>3. CASE EndScan
  <2>1. /\ tool.at = "scan" /\ tool.name = "secret-scan" /\ (Found \/ to = FileSize)
        /\ tool' = [tool EXCEPT !.at = "ended", !.verdict = IF Found THEN "failure" ELSE "success"]
        /\ UNCHANGED <<cache, secret, from, to>>
    BY <1>3 DEF EndScan, At, Verdict, Scanned, AtOwnPlace, Scanning
  <2>2. ~Found => secret = NoSecret
    BY <2>1 DEF Found, WindowCovers, Scanning, ToolsTypeOK
  <2>3. tool'.at = "ended" /\ tool'.name = "secret-scan" /\ tool'.verdict \in {"failure", "success"}
        /\ (tool'.verdict = "success" => ~Found) /\ tool'.ran = tool.ran
    BY <2>1 DEF ToolsTypeOK
  <2>4. ToolsTypeOK'
    BY <2>1, <2>3 DEF ToolsTypeOK, Places, Verdicts
  <2> QED BY <2>1, <2>2, <2>3, <2>4 DEF AtOwnPlace, CacheIsPinned, WindowCovers, VerdictsAreEarned,
             NoSecretSlipsThrough, PinnedIsRun, Scanning, Linting, Helping
<1>4. CASE RunCommand \/ Compare
  <2>1. /\ tool.at \in {"command", "compare"} /\ tool.name \notin {"secret-scan", "actionlint"}
        /\ UNCHANGED <<cache, secret, from, to>>
    BY <1>4 DEF RunCommand, Compare, At, Scanned, AtOwnPlace
  <2>2. PICK v \in {"success", "failure"} : tool' = [tool EXCEPT !.at = "ended", !.verdict = v]
    BY <1>4 DEF RunCommand, Compare, Verdict
  <2> QED BY <2>1, <2>2, OthersEnd
<1>5. CASE RunCandidate
  <2>1. /\ tool.at = "candidate" /\ tool.name \notin {"secret-scan", "actionlint"}
        /\ UNCHANGED <<cache, secret, from, to>>
    BY <1>5 DEF RunCandidate, At, Scanned, AtOwnPlace, Helping
  <2>2. PICK at \in {"receipt", "failed"}, ran \in {"complete", "other"} :
          tool' = [tool EXCEPT !.at = at, !.ran = ran]
    BY <1>5 DEF RunCandidate
  <2>3. tool'.at = at /\ tool'.name = tool.name /\ tool'.verdict = "none"
    BY <2>1, <2>2 DEF ToolsTypeOK, AtOwnPlace
  <2>4. ToolsTypeOK'
    BY <2>1, <2>2 DEF ToolsTypeOK, Places, Helping
  <2>5. AtOwnPlace'
    BY <2>1, <2>3 DEF AtOwnPlace, Scanning, Linting, Helping
  <2>6. CacheIsPinned' /\ WindowCovers'
    BY <2>1, <2>3 DEF CacheIsPinned, WindowCovers, Scanning
  <2>7. VerdictsAreEarned'
    BY <2>1, <2>3 DEF VerdictsAreEarned, NoSecretSlipsThrough, PinnedIsRun
  <2> QED BY <2>4, <2>5, <2>6, <2>7
<1>6. CASE RequireReceipt
  <2>1. /\ tool.at \in {"receipt", "failed"} /\ tool.name \notin {"secret-scan", "actionlint"}
        /\ UNCHANGED <<cache, secret, from, to>>
    BY <1>6 DEF RequireReceipt, Scanned, AtOwnPlace, Helping
  <2>2. PICK v \in {"success", "failure"} : tool' = [tool EXCEPT !.at = "ended", !.verdict = v]
    BY <1>6 DEF RequireReceipt, Verdict
  <2> QED BY <2>1, <2>2, OthersEnd
<1>7. CASE FetchManifest \/ ReadDigest \/ RefreshArchive \/ Unpack \/ ExtractBinary \/ MakeExecutable
  <2>1. tool.name = "actionlint" /\ tool.at \in Linting /\ tool.verdict = "none"
        /\ UNCHANGED <<secret, from, to>>
    BY <1>7 DEF FetchManifest, ReadDigest, RefreshArchive, Unpack, ExtractBinary, MakeExecutable,
       At, Scanned, AtOwnPlace, Linting
  <2>2. \/ tool' = [tool EXCEPT !.at = "ended", !.verdict = "failure"]
        \/ /\ tool' = [tool EXCEPT !.at = "digest"] \/ tool' = [tool EXCEPT !.at = "archive"]
        \/ /\ tool' = [tool EXCEPT !.at = "unpack"] /\ cache'.archive = "pinned"
        \/ /\ tool' = [tool EXCEPT !.at = "extract"] /\ cache' = cache /\ cache.archive = "pinned"
        \/ /\ tool' = [tool EXCEPT !.at = "chmod"] \/ tool' = [tool EXCEPT !.at = "run"]
           /\ cache'.binary = "pinned"
    BY <1>7 DEF FetchManifest, ReadDigest, RefreshArchive, Unpack, ExtractBinary, MakeExecutable,
       At, Goto, Verdict, Download, CacheIsPinned, ToolsTypeOK
  <2>3. cache' \in [archive : {"absent", "other", "partial", "pinned"},
                    binary : {"absent", "other", "partial", "pinned"}, executable : BOOLEAN]
    BY <1>7 DEF FetchManifest, ReadDigest, RefreshArchive, Unpack, ExtractBinary, MakeExecutable, ToolsTypeOK
  <2>4. tool'.name = "actionlint" /\ tool'.verdict \in {"none", "failure"}
        /\ tool'.at \in Linting \cup {"ended"} /\ (tool'.at # "ended" => tool'.verdict = "none")
    BY <2>1, <2>2 DEF ToolsTypeOK, Linting
  <2>5. ToolsTypeOK'
    BY <2>1, <2>2, <2>3 DEF ToolsTypeOK, Places, Verdicts, Linting
  <2>6. CacheIsPinned'
    BY <2>1, <2>2 DEF ToolsTypeOK, CacheIsPinned
  <2>7. AtOwnPlace'
    BY <2>4 DEF AtOwnPlace, Scanning, Linting, Helping
  <2>8. WindowCovers' /\ VerdictsAreEarned'
    BY <2>4 DEF WindowCovers, VerdictsAreEarned, NoSecretSlipsThrough, PinnedIsRun, Scanning, Linting
  <2> QED BY <2>5, <2>6, <2>7, <2>8
<1>8. CASE RunActionlint
  <2>1. /\ tool.name = "actionlint" /\ cache.binary = "pinned" /\ UNCHANGED <<cache, secret, from, to>>
        /\ \E v \in {"success", "failure"} :
             tool' = [tool EXCEPT !.at = "ended", !.verdict = v, !.ran = "pinned"]
    BY <1>8 DEF RunActionlint, At, Scanned, AtOwnPlace, Linting, CacheIsPinned
  <2>2. tool'.at = "ended" /\ tool'.name = "actionlint" /\ tool'.ran = "pinned"
    BY <2>1 DEF ToolsTypeOK
  <2> QED BY <2>1, <2>2 DEF ToolsTypeOK, Places, Verdicts, AtOwnPlace, CacheIsPinned, WindowCovers,
             VerdictsAreEarned, NoSecretSlipsThrough, PinnedIsRun, Scanning, Linting, Helping
<1>9. CASE DieInTool
  <2>1. /\ tool' = [tool EXCEPT !.at = "ended", !.verdict = "died"] /\ UNCHANGED <<secret, from, to>>
        /\ \/ cache' = cache \/ cache' = [cache EXCEPT !.archive = "partial"]
           \/ cache' = [cache EXCEPT !.binary = "partial"]
    BY <1>9 DEF DieInTool, Verdict, Scanned
  <2>2. tool'.at = "ended" /\ tool'.verdict = "died"
    BY <2>1 DEF ToolsTypeOK
  <2> QED BY <2>1, <2>2 DEF ToolsTypeOK, Places, Verdicts, AtOwnPlace, CacheIsPinned, WindowCovers,
             VerdictsAreEarned, NoSecretSlipsThrough, PinnedIsRun, Scanning, Linting, Helping
<1>10. CASE UNCHANGED toolVars
  BY <1>10 DEF toolVars, ToolsTypeOK, AtOwnPlace, CacheIsPinned, WindowCovers,
     VerdictsAreEarned, NoSecretSlipsThrough, PinnedIsRun
<1> QED BY <1>1, <1>2, <1>3, <1>4, <1>5, <1>6, <1>7, <1>8, <1>9, <1>10 DEF ToolsNext

\* Whatever the sizes of file, chunk and overlap, however short the reads and wherever
\* a job dies: a file passes _run_secret_scan without a secret only, and actionlint gives
\* its verdict with the pinned binary only.
THEOREM VerdictsEarned == ToolsSpec => []VerdictsAreEarned
<1>1. ToolsInv => VerdictsAreEarned
  BY DEF ToolsInv
<1> QED BY <1>1, ToolsInitially, ToolsStep, PTL DEF ToolsSpec

(***************************************************************************)
(* The gate                                                                *)
(***************************************************************************)
Results == {"queued", "needs check", "success", "failure", "skipped", "cancelled"}

GateTypeOK ==
  /\ head \in Heads \cup {NoHead} /\ waiting \in Heads \cup {NoHead}
  /\ gate \in [at : {"jobs", "finalize", "ended"}, head : Heads \cup {NoHead},
               jobs : [Groups -> Results], write : SUBSET Contexts, runs : Nat]
  /\ status \in [Heads -> [Contexts -> {"none", "success", "failure"}]]
  /\ passed \in [Heads -> SUBSET Groups]
  /\ redAfter \in [Heads -> BOOLEAN]

\* A job that succeeded verified the head of its run, which then is one of code only, or is
\* the static job of a head without a change of the repository, which skips all others.
JobsAreEarned ==
  gate.at # "ended" =>
    /\ gate.head \in Heads
    /\ \A m \in Matrix : Job(m) = "queued" => Change[gate.head] = {"code"}
    /\ \A g \in Groups : Job(g) = "success" =>
         \/ g \in passed[gate.head] /\ Change[gate.head] = {"code"}
         \/ g = "static" /\ \A m \in Matrix : Job(m) = "skipped"

\* One success suffices: both contexts are written from the same jobs.
SuccessIsVerified ==
  \A h \in Heads : \A c \in Contexts :
    status[h][c] = "success" => Change[h] = {"code"} /\ passed[h] = Groups

GateInv == GateTypeOK /\ JobsAreEarned /\ SuccessIsVerified /\ RedIsShown

LEMMA GateInitially == GateInit => GateInv
<1> SUFFICES ASSUME GateInit PROVE GateInv
  OBVIOUS
<1>1. GateTypeOK
  BY DEF GateInit, GateTypeOK, Results
<1>2. JobsAreEarned /\ SuccessIsVerified /\ RedIsShown
  BY DEF GateInit, JobsAreEarned, SuccessIsVerified, RedIsShown
<1> QED BY <1>1, <1>2 DEF GateInv

\* The job that ends: what it does to the others.
LEMMA JobEnding ==
  ASSUME GateTypeOK, NEW g \in Groups, gate.at = "jobs", Job(g) = "queued",
         NEW result \in {"success", "failure"}, NEW codeOnly \in BOOLEAN,
         JobEnds(g, result, codeOnly)
  PROVE  /\ gate' \in [at : {"jobs", "finalize", "ended"}, head : Heads \cup {NoHead},
                       jobs : [Groups -> Results], write : SUBSET Contexts, runs : Nat]
         /\ gate'.at = "jobs" /\ gate'.head = gate.head /\ gate'.jobs[g] = result
         /\ g # "static" => \A k \in Groups : k # g => gate'.jobs[k] = gate.jobs[k]
         /\ g = "static" => \A m \in Matrix :
              gate'.jobs[m] = IF result = "success" /\ codeOnly THEN "queued" ELSE "skipped"
<1> DEFINE jobs == [gate.jobs EXCEPT ![g] = result]
<1>1. /\ jobs \in [Groups -> Results] /\ jobs[g] = result
      /\ \A k \in Groups : k # g => jobs[k] = gate.jobs[k]
  BY DEF GateTypeOK, Results
<1>2. gate' = [gate EXCEPT !.jobs = IF g = "static" THEN ReleaseMatrix(jobs, codeOnly) ELSE jobs]
  BY DEF JobEnds
<1> HIDE DEF jobs
<1>3. CASE g # "static"
  BY <1>1, <1>2, <1>3 DEF GateTypeOK
<1>4. CASE g = "static"
  <2>1. /\ ReleaseMatrix(jobs, codeOnly) \in [Groups -> Results]
        /\ ReleaseMatrix(jobs, codeOnly)[g] = result
        /\ \A m \in Matrix : ReleaseMatrix(jobs, codeOnly)[m]
             = IF result = "success" /\ codeOnly THEN "queued" ELSE "skipped"
    BY <1>1, <1>4, GateAssumption DEF ReleaseMatrix, Results, Groups
  <2> QED BY <1>2, <1>4, <2>1 DEF GateTypeOK
<1> QED BY <1>3, <1>4

LEMMA RunJobStep ==
  ASSUME GateInv, NEW g \in Groups, RunJob(g)
  PROVE  GateInv'
<1> USE DEF GateInv
<1>1. /\ gate.at = "jobs" /\ Job(g) = "queued" /\ gate.head \in Heads
      /\ UNCHANGED <<main, head, contains, waiting, status, redAfter>>
  BY DEF RunJob, JobsAreEarned
<1>2. ASSUME NEW result \in {"success", "failure"}, NEW codeOnly \in BOOLEAN, JobEnds(g, result, codeOnly),
             passed' \in [Heads -> SUBSET Groups], \A h \in Heads : passed[h] \subseteq passed'[h],
             codeOnly => Change[gate.head] = {"code"},
             result = "success" => (g \in passed'[gate.head] /\ Change[gate.head] = {"code"}) \/ (g = "static" /\ ~codeOnly)
      PROVE  GateInv'
  <2> USE <1>1, <1>2
  <2>1. /\ gate' \in [at : {"jobs", "finalize", "ended"}, head : Heads \cup {NoHead},
                      jobs : [Groups -> Results], write : SUBSET Contexts, runs : Nat]
        /\ gate'.at = "jobs" /\ gate'.head = gate.head /\ gate'.jobs[g] = result
    BY JobEnding
  <2>2. /\ g # "static" => \A k \in Groups : k # g => gate'.jobs[k] = gate.jobs[k]
        /\ g = "static" => \A m \in Matrix :
             gate'.jobs[m] = IF result = "success" /\ codeOnly THEN "queued" ELSE "skipped"
    BY JobEnding
  <2>3. GateTypeOK'
    BY <2>1 DEF GateTypeOK
  <2>4. \A m \in Matrix : gate'.jobs[m] = "queued" => Change[gate.head] = {"code"}
    BY <2>1, <2>2 DEF JobsAreEarned, Job, Groups
  <2>5. ASSUME NEW k \in Groups, gate'.jobs[k] = "success"
        PROVE  \/ k \in passed'[gate.head] /\ Change[gate.head] = {"code"}
               \/ k = "static" /\ \A m \in Matrix : gate'.jobs[m] = "skipped"
    <3>1. CASE k = g
      <4>1. (g \in passed'[gate.head] /\ Change[gate.head] = {"code"}) \/ (g = "static" /\ ~codeOnly)
        BY <2>1, <2>5, <3>1
      <4> QED BY <2>2, <3>1, <4>1
    <3>2. CASE k # g /\ g = "static"
      BY <2>2, <2>5, <3>2 DEF Groups
    <3>3. CASE k # g /\ g # "static"
      <4>1. gate.jobs[k] = "success" /\ g \in Matrix
        BY <2>2, <2>5, <3>3 DEF Groups
      <4>2. k \in passed[gate.head] /\ Change[gate.head] = {"code"}
        BY <4>1 DEF JobsAreEarned, Job
      <4> QED BY <4>2
    <3> QED BY <3>1, <3>2, <3>3
  <2>6. JobsAreEarned'
    BY <2>1, <2>4, <2>5 DEF JobsAreEarned, Job
  <2>7. SuccessIsVerified'
    BY DEF SuccessIsVerified, GateTypeOK
  <2>8. RedIsShown'
    BY DEF RedIsShown, Green
  <2> QED BY <2>3, <2>6, <2>7, <2>8
<1>3. CASE Refused(head) /\ JobEnds(g, "failure", FALSE) /\ UNCHANGED passed
  BY <1>2, <1>3 DEF GateTypeOK
<1>4. CASE ~Refused(head) /\ "code" \notin Change[head] /\ JobEnds(g, "success", FALSE) /\ UNCHANGED passed
  <2>1. g = "static"
    BY <1>1, <1>4 DEF Refused, JobsAreEarned, Groups
  <2> QED BY <1>2, <1>4, <2>1 DEF GateTypeOK
<1>5. CASE ~Refused(head) /\ "code" \in Change[head] /\ JobEnds(g, "failure", FALSE) /\ UNCHANGED passed
  BY <1>2, <1>5 DEF GateTypeOK
<1>6. CASE /\ ~Refused(head) /\ "code" \in Change[head] /\ JobEnds(g, "success", TRUE)
           /\ passed' = [passed EXCEPT ![head] = @ \cup {g}]
  <2>1. head = gate.head /\ Change[gate.head] = {"code"}
    BY <1>1, <1>6, GateAssumption DEF Refused
  <2>2. passed' \in [Heads -> SUBSET Groups] /\ \A h \in Heads : passed[h] \subseteq passed'[h]
    BY <1>6 DEF GateTypeOK
  <2>3. g \in passed'[gate.head]
    BY <1>1, <1>6, <2>1 DEF GateTypeOK
  <2> QED BY <1>2, <1>6, <2>1, <2>2, <2>3
<1> QED BY <1>3, <1>4, <1>5, <1>6 DEF RunJob

LEMMA FinalizeStep ==
  ASSUME GateInv, Finalize
  PROVE  GateInv'
<1> USE DEF GateInv
<1> DEFINE state == IF Succeeded THEN "success" ELSE "failure"
<1>1. PICK c \in gate.write :
        /\ status' = IF Writes(status[gate.head][c], state)
                       THEN [status EXCEPT ![gate.head][c] = state] ELSE status
        /\ redAfter' = [redAfter EXCEPT ![gate.head] = ~Succeeded]
        /\ gate' = [gate EXCEPT !.write = @ \ {c}, !.at = IF gate.write = {c} THEN "ended" ELSE @]
  BY DEF Finalize
<1>2. gate.at = "finalize" /\ gate.head \in Heads /\ c \in Contexts
      /\ UNCHANGED <<main, head, contains, waiting, passed>>
  BY DEF Finalize, JobsAreEarned, GateTypeOK
<1>3. state \in {"success", "failure"} /\ Succeeded \in BOOLEAN
  BY DEF Succeeded
<1> HIDE DEF state
<1>4. /\ status'[gate.head][c] = state
      /\ \A h \in Heads, k \in Contexts : <<h, k>> # <<gate.head, c>> => status'[h][k] = status[h][k]
      /\ status' \in [Heads -> [Contexts -> {"none", "success", "failure"}]]
  BY <1>1, <1>2, <1>3 DEF Writes, GateTypeOK
<1>5. /\ gate'.at \in {"finalize", "ended"} /\ gate'.head = gate.head /\ gate'.jobs = gate.jobs
      /\ gate' \in [at : {"jobs", "finalize", "ended"}, head : Heads \cup {NoHead},
                    jobs : [Groups -> Results], write : SUBSET Contexts, runs : Nat]
  BY <1>1, <1>2 DEF GateTypeOK
<1>6. redAfter' \in [Heads -> BOOLEAN] /\ redAfter'[gate.head] = ~Succeeded
      /\ \A h \in Heads : h # gate.head => redAfter'[h] = redAfter[h]
  BY <1>1, <1>2, <1>3, Zenon DEF GateTypeOK
<1>7. GateTypeOK'
  BY <1>2, <1>4, <1>5, <1>6 DEF GateTypeOK
<1>8. JobsAreEarned'
  BY <1>2, <1>5 DEF JobsAreEarned, Job
<1>9. Succeeded => Change[gate.head] = {"code"} /\ passed[gate.head] = Groups
  <2> SUFFICES ASSUME Succeeded PROVE Change[gate.head] = {"code"} /\ passed[gate.head] = Groups
    OBVIOUS
  <2>1. PICK m \in Matrix : TRUE
    BY GateAssumption
  <2>2. Job(m) = "success" /\ m \in Groups /\ m # "static"
    BY GateAssumption DEF Succeeded, Groups
  <2>3. \A g \in Groups : g \in passed[gate.head] /\ Change[gate.head] = {"code"}
    BY <1>2, <2>2 DEF JobsAreEarned, Succeeded
  <2> QED BY <1>2, <2>2, <2>3 DEF GateTypeOK
<1>10. SuccessIsVerified'
  <2> SUFFICES ASSUME NEW h \in Heads, NEW k \in Contexts, status'[h][k] = "success"
               PROVE  Change[h] = {"code"} /\ passed'[h] = Groups
    BY DEF SuccessIsVerified
  <2>1. CASE <<h, k>> = <<gate.head, c>>
    <3>1. Succeeded
      BY <1>4, <2>1 DEF state
    <3> QED BY <1>2, <1>9, <2>1, <3>1
  <2>2. CASE <<h, k>> # <<gate.head, c>>
    BY <1>2, <1>4, <2>2 DEF SuccessIsVerified
  <2> QED BY <2>1, <2>2
<1>11. RedIsShown'
  <2> SUFFICES ASSUME NEW h \in Heads, redAfter'[h] PROVE \E k \in Contexts : status'[h][k] # "success"
    BY DEF RedIsShown, Green
  <2>1. CASE h = gate.head
    <3>1. ~Succeeded
      BY <1>6, <2>1
    <3> QED BY <1>2, <1>4, <2>1, <3>1 DEF state
  <2>2. CASE h # gate.head
    <3>1. PICK k \in Contexts : status[h][k] # "success"
      BY <1>6, <2>2 DEF RedIsShown, Green
    <3> QED BY <1>4, <2>2, <3>1
  <2> QED BY <2>1, <2>2
<1> QED BY <1>7, <1>8, <1>10, <1>11

LEMMA GateStep ==
  GateInv /\ [GateNext \/ (SettingsNext /\ UNCHANGED prVars)]_<<settingsVars, prVars>> => GateInv'
<1> SUFFICES ASSUME GateInv, [GateNext \/ (SettingsNext /\ UNCHANGED prVars)]_<<settingsVars, prVars>>
             PROVE  GateInv'
  OBVIOUS
<1> USE DEF GateInv
<1>1. ASSUME UNCHANGED <<gate, status, passed, redAfter>>,
             head' \in Heads \cup {NoHead}, waiting' \in Heads \cup {NoHead}
      PROVE  GateInv'
  <2>1. GateTypeOK'
    BY <1>1 DEF GateTypeOK
  <2>2. JobsAreEarned'
    BY <1>1 DEF JobsAreEarned, Job
  <2>3. SuccessIsVerified' /\ RedIsShown'
    BY <1>1 DEF SuccessIsVerified, RedIsShown, Green
  <2> QED BY <2>1, <2>2, <2>3
<1>2. ASSUME UNCHANGED <<head, status, passed, redAfter>>, waiting' \in Heads \cup {NoHead},
             gate' \in [at : {"jobs", "finalize", "ended"}, head : Heads \cup {NoHead},
                        jobs : [Groups -> Results], write : SUBSET Contexts, runs : Nat],
             JobsAreEarned'
      PROVE  GateInv'
  <2>1. GateTypeOK'
    BY <1>2 DEF GateTypeOK
  <2>2. SuccessIsVerified' /\ RedIsShown'
    BY <1>2 DEF SuccessIsVerified, RedIsShown, Green
  <2> QED BY <1>2, <2>1, <2>2
<1>3. CASE Push \/ Reopen \/ Merge \/ MainAdvances
  <2>1. UNCHANGED <<gate, status, passed, redAfter>>
    BY <1>3 DEF Push, Reopen, Merge, MainAdvances
  <2>2. head' \in Heads \cup {NoHead} /\ waiting' \in Heads \cup {NoHead}
    BY <1>3 DEF Push, Reopen, Merge, MainAdvances, GateTypeOK
  <2> QED BY <1>1, <2>1, <2>2
<1>4. CASE Cancel
  <2> DEFINE kept == [g \in Groups |-> IF Job(g) \in {"success", "failure", "skipped"}
                                         THEN Job(g) ELSE "cancelled"]
  <2>1. /\ gate' = [gate EXCEPT !.at = "finalize", !.write = Contexts, !.jobs = kept]
        /\ gate.at = "jobs" /\ UNCHANGED <<head, status, passed, redAfter, waiting>>
    BY <1>4 DEF Cancel
  <2>2. kept \in [Groups -> Results]
    BY DEF Results
  <2>3. \A g \in Groups : /\ kept[g] = "success" => Job(g) = "success"
                          /\ Job(g) = "skipped" => kept[g] = "skipped"
                          /\ kept[g] # "queued"
    OBVIOUS
  <2> HIDE DEF kept
  <2>4. /\ gate'.at = "finalize" /\ gate'.head = gate.head /\ gate'.jobs = kept
        /\ gate' \in [at : {"jobs", "finalize", "ended"}, head : Heads \cup {NoHead},
                      jobs : [Groups -> Results], write : SUBSET Contexts, runs : Nat]
    BY <2>1, <2>2 DEF GateTypeOK
  <2>5. JobsAreEarned'
    BY <2>1, <2>3, <2>4 DEF JobsAreEarned, Job, Groups
  <2> QED BY <1>2, <2>1, <2>4, <2>5 DEF GateTypeOK
<1>5. CASE StartRun
  <2> DEFINE first == [g \in Groups |-> IF g = "static" THEN "queued" ELSE "needs check"]
  <2>1. /\ gate' = [at |-> "jobs", head |-> waiting, jobs |-> first, write |-> {}, runs |-> gate.runs + 1]
        /\ waiting # NoHead /\ waiting' = NoHead /\ UNCHANGED <<head, status, passed, redAfter>>
    BY <1>5 DEF StartRun
  <2>2. first \in [Groups -> Results]
    BY DEF Results
  <2>3. \A g \in Groups : first[g] # "success" /\ (first[g] = "queued" => g = "static")
    OBVIOUS
  <2> HIDE DEF first
  <2>4. /\ gate' \in [at : {"jobs", "finalize", "ended"}, head : Heads \cup {NoHead},
                      jobs : [Groups -> Results], write : SUBSET Contexts, runs : Nat]
        /\ gate'.head \in Heads /\ gate'.jobs = first
    BY <2>1, <2>2 DEF GateTypeOK
  <2>5. /\ \A m \in Matrix : first[m] # "queued" /\ first[m] # "success"
        /\ \A g \in Groups : first[g] # "success"
    BY <2>3, GateAssumption DEF Groups
  <2>6. JobsAreEarned'
    BY <2>4, <2>5 DEF JobsAreEarned, Job
  <2> QED BY <1>2, <2>1, <2>4, <2>6
<1>6. CASE StartFinalize
  <2>1. /\ gate' = [gate EXCEPT !.at = "finalize", !.write = Contexts]
        /\ gate.at = "jobs" /\ UNCHANGED <<head, status, passed, redAfter, waiting>>
    BY <1>6 DEF StartFinalize
  <2>2. /\ gate' \in [at : {"jobs", "finalize", "ended"}, head : Heads \cup {NoHead},
                      jobs : [Groups -> Results], write : SUBSET Contexts, runs : Nat]
        /\ gate'.head = gate.head /\ gate'.jobs = gate.jobs
    BY <2>1 DEF GateTypeOK
  <2>3. JobsAreEarned'
    BY <2>1, <2>2 DEF JobsAreEarned, Job
  <2> QED BY <1>2, <2>1, <2>2, <2>3 DEF GateTypeOK
<1>7. CASE FinalizeFails
  <2>1. /\ gate' = [gate EXCEPT !.at = "ended", !.write = {}]
        /\ UNCHANGED <<head, status, passed, redAfter, waiting>>
    BY <1>7 DEF FinalizeFails
  <2>2. /\ gate' \in [at : {"jobs", "finalize", "ended"}, head : Heads \cup {NoHead},
                      jobs : [Groups -> Results], write : SUBSET Contexts, runs : Nat]
        /\ gate'.at = "ended"
    BY <2>1 DEF GateTypeOK
  <2>3. JobsAreEarned'
    BY <2>2 DEF JobsAreEarned
  <2> QED BY <1>2, <2>1, <2>2, <2>3 DEF GateTypeOK
<1>8. CASE UNCHANGED prVars
  BY <1>1, <1>8 DEF prVars, GateTypeOK
<1> QED BY <1>3, <1>4, <1>5, <1>6, <1>7, <1>8, RunJobStep, FinalizeStep DEF GateNext, GateSteps

\* For any heads, groups and number of runs: whatever pushes, reruns, cancellations and
\* failing finalizers come between, a green head passed every verifier on its own tree,
\* and the last run that wrote for a head and failed keeps it from being green.
THEOREM StatusesTrue == GateSpec => []StatusesAreTrue
<1>1. SettingsInit /\ GateInit => GateInv
  BY GateInitially
<1>2. GateInv => StatusesAreTrue
  BY DEF GateInv, StatusesAreTrue, GreenIsVerified, SuccessIsVerified, Green, Contexts
<1> QED BY <1>1, <1>2, GateStep, PTL DEF GateSpec

(***************************************************************************)
(* The settings                                                            *)
(***************************************************************************)
Contracts   == [strict : BOOLEAN, enforced : BOOLEAN, reviews : 0..2]
Protections == {NoProtection} \cup Contracts
Targets     == Settings \cup {"branch:main"}
Answers     == {"none", "success", "noop", "not confirmed", "BOOTSTRAP_PARTIAL", "LLM_API_KEY_REQUIRED",
                "GITHUB_API_FAILED", "BRANCH_PROTECTION_LOOKUP_FAILED", "BOOTSTRAP_POSTCONDITION_FAILED"}

Applies == [at : Planning \cup {"none", "confirm", "apply", "protect", "ended"}, step : 1..7,
            found : SUBSET Targets, mutated : BOOLEAN, asked : BOOLEAN, replaces : BOOLEAN,
            needsSecret : BOOLEAN, seen : Protections, checked : Nat, runs : Nat, answer : Answers]

SettingsTypeOK ==
  /\ settings \in [Settings -> {"absent", "drifted", "desired"}] /\ protection \in Protections
  /\ apply \in Applies
  /\ drifts \in Nat /\ sealed \in BOOLEAN

ReviewPlaces == {"none", "enable", "noop", "success", "BRANCH_PROTECTION_REQUIRED", "BRANCH_PROTECTION_DRIFT"}

\* enable_review_protection writes what it read with one field changed.
ReviewsStartClean ==
  /\ reviews \in [at : ReviewPlaces, seen : Protections]
  /\ reviews.at = "enable" => reviews.seen = Contract(0)

\* A target that the postcondition passed by without noting it stays satisfied until
\* somebody outside changes a setting, which the count of such changes shows.
LooksAreCurrent ==
  /\ apply.checked <= drifts
  /\ apply.at # "ended" => apply.answer = "none"
  /\ apply.at = "postcondition" /\ apply.checked = drifts =>
       \A i \in 1..7 : i < apply.step /\ PlanOrder[i] \notin apply.found => Satisfied(PlanOrder[i])

SettingsInv == SettingsTypeOK /\ ReviewsStartClean /\ LooksAreCurrent /\ SuccessIsConverged

LEMMA ContractFacts ==
  /\ \A count \in 0..2 : Contract(count) \in Contracts /\ Contract(count) # NoProtection
  /\ \A count \in 0..2 : Contract(count).strict /\ Contract(count).enforced /\ Contract(count).reviews = count
<1>1. ASSUME NEW count \in 0..2 PROVE Contract(count) \in Contracts
  BY DEF Contract, Contracts
<1>2. NoProtection \notin Contracts
  BY BootstrapAssumption DEF Contracts
<1> QED BY <1>1, <1>2 DEF Contract

LEMMA DesiredFacts ==
  /\ \A p \in Protections : BootstrapProtection(p) \in {Contract(0), Contract(1)}
  /\ BootstrapProtection(Contract(0)) = Contract(0) /\ BootstrapProtection(Contract(1)) = Contract(1)
<1>1. \A p : BootstrapProtection(p) \in {Contract(0), Contract(1)}
  BY DEF BootstrapProtection
<1>2. BootstrapProtection(Contract(0)) = Contract(0) /\ BootstrapProtection(Contract(1)) = Contract(1)
  BY ContractFacts DEF BootstrapProtection
<1> QED BY <1>1, <1>2

\* What the protection must be; there is no other contract of a bootstrap.
LEMMA ProtectionSatisfied ==
  ASSUME protection \in Protections
  PROVE  Satisfied("branch:main") <=> protection \in {Contract(0), Contract(1)}
BY ContractFacts, DesiredFacts DEF Satisfied

LEMMA PlanCovers ==
  /\ DOMAIN PlanOrder = 1..7 /\ Len(PlanOrder) = 7
  /\ \A i \in 1..7 : PlanOrder[i] \in Targets
BY DEF PlanOrder, Targets, Settings, Environments

LEMMA ApplyCovers ==
  /\ DOMAIN ApplyOrder = 1..7 /\ Len(ApplyOrder) = 7
  /\ \A i \in 1..7 : ApplyOrder[i] \in Targets
BY DEF ApplyOrder, Targets, Settings, Environments

LEMMA SettingsInPlan == \A s \in Settings : \E i \in 1..7 : PlanOrder[i] = s
<1>1. /\ PlanOrder[1] = "labels" /\ PlanOrder[2] = "actions" /\ PlanOrder[3] = "environment:ard-llm"
      /\ PlanOrder[4] = "variables" /\ PlanOrder[5] = "secret"
      /\ PlanOrder[6] = "environment:production-linkage"
  BY DEF PlanOrder
<1> QED BY <1>1 DEF Settings, Environments

LEMMA SettingsInitially == SettingsInit => SettingsInv
<1> SUFFICES ASSUME SettingsInit PROVE SettingsInv
  OBVIOUS
<1>1. SettingsTypeOK
  <2>1. protection \in Protections /\ NoProtection \in Protections
    BY ContractFacts DEF SettingsInit, Protections
  <2>2. settings \in [Settings -> {"absent", "drifted", "desired"}]
    BY DEF SettingsInit
  <2>3. {"none"} \subseteq Answers /\ {} \in SUBSET Targets /\ 1 \in 1..7 /\ 0 \in Nat
    BY DEF Answers
  <2>4. apply \in Applies
    BY <2>1, <2>3 DEF SettingsInit, Applies
  <2> QED BY <2>1, <2>2, <2>4 DEF SettingsInit, SettingsTypeOK
<1>2. ReviewsStartClean /\ LooksAreCurrent /\ SuccessIsConverged
  BY DEF Protections, ReviewPlaces, SettingsInit, ReviewsStartClean, LooksAreCurrent, SuccessIsConverged
<1> QED BY <1>1, <1>2 DEF SettingsInv

\* A step that writes only what is desired, if it writes at all, takes nothing away.
LEMMA WritesKeep ==
  ASSUME SettingsTypeOK, protection' \in Protections,
         \A s \in Settings : settings'[s] = settings[s] \/ settings'[s] = "desired",
         protection' = protection \/ protection' \in {Contract(0), Contract(1)},
         NEW target \in Targets, Satisfied(target)
  PROVE  Satisfied(target)'
<1>1. CASE target = "branch:main"
  <2>1. protection \in {Contract(0), Contract(1)}
    BY <1>1, ProtectionSatisfied DEF SettingsTypeOK
  <2>2. protection' # NoProtection /\ protection' = BootstrapProtection(protection')
    BY <2>1, ContractFacts, DesiredFacts
  <2> QED BY <1>1, <2>2 DEF Satisfied
<1>2. CASE target # "branch:main"
  BY <1>2 DEF Satisfied, Targets
<1> QED BY <1>1, <1>2

\* What begins a round of looks.
LEMMA FromTheFirst ==
  ASSUME NEW a \in Applies, NEW found \in SUBSET Targets
  PROVE  /\ [a EXCEPT !.found = found, !.step = 1] \in Applies
         /\ [a EXCEPT !.found = found, !.step = 1].at = a.at
         /\ [a EXCEPT !.found = found, !.step = 1].answer = a.answer
         /\ [a EXCEPT !.found = found, !.step = 1].checked = a.checked
         /\ [a EXCEPT !.found = found, !.step = 1].mutated = a.mutated
         /\ [a EXCEPT !.found = found, !.step = 1].step = 1
<1>1. 1 \in 1..7
  OBVIOUS
<1> QED BY <1>1 DEF Applies

LEMMA EndedFacts ==
  ASSUME NEW a \in Applies, NEW code \in Answers
  PROVE  /\ Ended(a, code) \in Applies /\ Ended(a, code).at = "ended"
         /\ Ended(a, code).answer = code /\ Ended(a, code).checked = a.checked
BY DEF Ended, Applies

LEMMA RaisedFacts ==
  ASSUME NEW a \in Applies, NEW code \in Answers \ {"success", "noop"}
  PROVE  /\ Raised(a, code) \in Applies /\ Raised(a, code).at = "ended"
         /\ Raised(a, code).answer \notin {"success", "noop"} /\ Raised(a, code).checked = a.checked
<1>1. "BOOTSTRAP_PARTIAL" \in Answers
  BY DEF Answers
<1> QED BY <1>1, EndedFacts DEF Raised

LEMMA NextTargetFacts ==
  ASSUME NEW a \in Applies, a.at = "apply", drifts \in Nat
  PROVE  /\ NextTarget(a) \in Applies /\ NextTarget(a).answer = a.answer
         /\ \/ NextTarget(a).at = "apply" /\ NextTarget(a).checked = a.checked
            \/ NextTarget(a).at = "postcondition" /\ NextTarget(a).checked = drifts /\ NextTarget(a).step = 1
<1>1. CASE a.step < 7
  <2>1. NextTarget(a) = [a EXCEPT !.step = @ + 1] /\ a.step + 1 \in 1..7
    BY <1>1, ApplyCovers DEF NextTarget, Applies
  <2> QED BY <2>1 DEF Applies
<1>2. CASE ~(a.step < 7)
  <2>1. NextTarget(a) = [a EXCEPT !.at = "postcondition", !.step = 1, !.found = {}, !.checked = drifts]
    BY <1>2, ApplyCovers DEF NextTarget
  <2>2. "postcondition" \in Planning /\ {} \in SUBSET Targets
    BY DEF Planning
  <2>3. PICK b \in Applies : b = [a EXCEPT !.found = {}, !.step = 1] /\ b.answer = a.answer /\ b.step = 1
    BY <2>2, FromTheFirst
  <2>4. NextTarget(a) = [b EXCEPT !.at = "postcondition", !.checked = drifts]
    BY <2>1, <2>3 DEF Applies
  <2> QED BY <2>2, <2>3, <2>4 DEF Applies
<1> QED BY <1>1, <1>2

\* A step of apply that does not look at a target.
LEMMA ApplyStep ==
  ASSUME SettingsInv, settings' \in [Settings -> {"absent", "drifted", "desired"}],
         protection' \in Protections, UNCHANGED <<reviews, sealed, drifts>>,
         \A s \in Settings : settings'[s] = settings[s] \/ settings'[s] = "desired" \/ settings[s] # "desired",
         protection' = protection \/ protection' \in {Contract(0), Contract(1)},
         apply' \in Applies, apply'.checked <= drifts,
         apply'.at # "ended" => apply'.answer = "none",
         apply'.at = "postcondition" => apply'.step = 1
  PROVE  SettingsInv'
<1> USE DEF SettingsInv
<1>1. SettingsTypeOK' /\ ReviewsStartClean'
  BY DEF SettingsTypeOK, ReviewsStartClean
<1>2. LooksAreCurrent'
  BY DEF LooksAreCurrent
<1>3. SuccessIsConverged'
  <2> SUFFICES ASSUME sealed, NEW i \in 1..7 PROVE Satisfied(PlanOrder[i])'
    BY PlanCovers DEF SuccessIsConverged
  <2>1. \A j \in 1..7 : Satisfied(PlanOrder[j])
    BY PlanCovers DEF SuccessIsConverged
  <2>2. PlanOrder[i] \in Targets /\ Satisfied(PlanOrder[i])
    BY <2>1, PlanCovers
  <2>3. \A s \in Settings : settings[s] = "desired"
    BY <2>1, SettingsInPlan DEF Satisfied, Settings, Environments
  <2>4. \A s \in Settings : settings'[s] = settings[s] \/ settings'[s] = "desired"
    BY <2>3
  <2> QED BY <2>2, <2>4, WritesKeep
<1> QED BY <1>1, <1>2, <1>3

LEMMA PlanStepKeeps == ASSUME SettingsInv, PlanStep PROVE SettingsInv'
<1> USE DEF SettingsInv
<1>1. apply.at \in Planning /\ apply \in Applies /\ apply.answer = "none" /\ apply.step \in 1..7
      /\ UNCHANGED <<settings, protection, reviews, drifts>>
  BY DEF PlanStep, LooksAreCurrent, SettingsTypeOK, Planning, Applies
<1>2. CASE CallFails(apply, "GITHUB_API_FAILED") /\ UNCHANGED sealed
  <2>1. "GITHUB_API_FAILED" \in Answers \ {"success", "noop"}
    BY DEF Answers
  <2>2. apply' = Raised(apply, "GITHUB_API_FAILED")
    BY <1>2 DEF CallFails
  <2>3. apply' \in Applies /\ apply'.at = "ended" /\ apply'.checked = apply.checked
    BY <1>1, <2>1, <2>2, RaisedFacts
  <2> QED BY <1>1, <1>2, <2>3, ApplyStep DEF SettingsTypeOK, LooksAreCurrent
<1>3. ASSUME ~(CallFails(apply, "GITHUB_API_FAILED") /\ UNCHANGED sealed) PROVE SettingsInv'
  <2> DEFINE target == PlanOrder[apply.step]
             found  == apply.found \cup (IF Satisfied(target) THEN {} ELSE {target})
  <2>1. /\ apply' = IF apply.step < 7 THEN [apply EXCEPT !.found = found, !.step = @ + 1]
                    ELSE Planned(apply, found)
        /\ sealed' = (sealed \/ (apply'.answer \in {"success", "noop"} /\ drifts = apply.checked))
    BY <1>3, PlanCovers DEF PlanStep
  <2>2. found \in SUBSET Targets /\ apply.found \subseteq found /\ (target \notin found => Satisfied(target))
    BY <1>1, PlanCovers DEF Applies
  <2> HIDE DEF found
  <2>3. \A t : Satisfied(t)' <=> Satisfied(t)
    BY <1>1 DEF Satisfied
  <2>4. CASE apply.step < 7
    <3>1. apply' = [apply EXCEPT !.found = found, !.step = @ + 1] /\ apply.step + 1 \in 1..7
      BY <1>1, <2>1, <2>4
    <3>2. /\ apply' \in Applies /\ apply'.step = apply.step + 1 /\ apply'.found = found
          /\ apply'.at = apply.at /\ apply'.answer = "none" /\ apply'.checked = apply.checked
      BY <1>1, <2>2, <3>1 DEF Applies
    <3>3. sealed' = sealed
      BY <2>1, <3>2 DEF SettingsTypeOK
    <3>4. SettingsTypeOK' /\ ReviewsStartClean'
      BY <1>1, <3>2, <3>3 DEF SettingsTypeOK, ReviewsStartClean
    <3>5. SuccessIsConverged'
      BY <2>3, <3>3 DEF SuccessIsConverged
    <3>6. ASSUME apply.at = "postcondition", apply.checked = drifts, NEW i \in 1..7,
                 i < apply.step + 1, PlanOrder[i] \notin found
          PROVE  Satisfied(PlanOrder[i])
      <4>1. CASE i = apply.step
        BY <2>2, <3>6, <4>1
      <4>2. CASE i # apply.step
        <5>1. i < apply.step /\ PlanOrder[i] \notin apply.found
          BY <1>1, <2>2, <3>6, <4>2
        <5> QED BY <3>6, <5>1 DEF LooksAreCurrent
      <4> QED BY <4>1, <4>2
    <3>7. LooksAreCurrent'
      BY <1>1, <2>3, <3>2, <3>6 DEF LooksAreCurrent
    <3> QED BY <3>4, <3>5, <3>7
  <2>5. CASE apply.step = 7
    <3> DEFINE next == [apply EXCEPT !.found = found, !.step = 1]
    <3>1. apply' = Planned(apply, found)
      BY <1>1, <2>1, <2>5
    <3>2. next \in Applies /\ next.answer = "none" /\ next.checked = apply.checked /\ next.mutated = apply.mutated
      BY <1>1, <2>2, FromTheFirst
    <3>3. ASSUME sealed' = sealed, apply' \in Applies, apply'.checked = apply.checked, apply'.at # "postcondition",
                 apply'.at # "ended" => apply'.answer = "none"
          PROVE  SettingsInv'
      BY <1>1, <3>3, ApplyStep DEF SettingsTypeOK, LooksAreCurrent
    <3>4. CASE apply.at = "plan"
      <4>1. apply' = [next EXCEPT !.at = "confirm"]
        BY <3>1, <3>4 DEF Planned
      <4>2. /\ apply' \in Applies /\ apply'.at = "confirm" /\ apply'.answer = "none"
            /\ apply'.checked = apply.checked
        BY <3>2, <4>1 DEF Applies
      <4>3. sealed' = sealed
        BY <2>1, <4>2 DEF SettingsTypeOK
      <4> QED BY <3>3, <4>2, <4>3
    <3>5. CASE apply.at = "replan"
      <4>1. apply' = IF "secret" \in found /\ ~apply.asked THEN Raised(next, "LLM_API_KEY_REQUIRED")
                     ELSE [next EXCEPT !.at = "apply", !.needsSecret = "secret" \in found \/ apply.replaces]
        BY <3>1, <3>5 DEF Planned
      <4>2. CASE "secret" \in found /\ ~apply.asked
        <5>1. "LLM_API_KEY_REQUIRED" \in Answers \ {"success", "noop"}
          BY DEF Answers
        <5>2. /\ apply' \in Applies /\ apply'.at = "ended" /\ apply'.answer \notin {"success", "noop"}
              /\ apply'.checked = apply.checked
          BY <3>2, <4>1, <4>2, <5>1, RaisedFacts
        <5>3. sealed' = sealed
          BY <2>1, <5>2 DEF SettingsTypeOK
        <5> QED BY <3>3, <5>2, <5>3
      <4>3. CASE ~("secret" \in found /\ ~apply.asked)
        <5>1. apply' = [next EXCEPT !.at = "apply", !.needsSecret = "secret" \in found \/ apply.replaces]
          BY <4>1, <4>3
        <5>2. ("secret" \in found \/ apply.replaces) \in BOOLEAN
          BY <1>1 DEF Applies
        <5>3. /\ apply' \in Applies /\ apply'.at = "apply" /\ apply'.answer = "none"
              /\ apply'.checked = apply.checked
          BY <3>2, <5>1, <5>2 DEF Applies
        <5>4. sealed' = sealed
          BY <2>1, <5>3 DEF SettingsTypeOK
        <5> QED BY <3>3, <5>3, <5>4
      <4> QED BY <4>2, <4>3
    <3>6. CASE apply.at = "postcondition"
      <4> DEFINE code == IF found # {} THEN "BOOTSTRAP_POSTCONDITION_FAILED"
                         ELSE IF apply.mutated THEN "success" ELSE "noop"
      <4>1. apply' = Ended(next, code)
        BY <3>1, <3>6 DEF Planned
      <4>2. code \in Answers /\ (code \in {"success", "noop"} => found = {})
        BY DEF Answers
      <4> HIDE DEF code, next
      <4>3. apply' \in Applies /\ apply'.at = "ended" /\ apply'.answer = code /\ apply'.checked = apply.checked
        BY <3>2, <4>1, <4>2, EndedFacts
      <4>4. SettingsTypeOK' /\ ReviewsStartClean'
        BY <1>1, <2>1, <4>3 DEF SettingsTypeOK, ReviewsStartClean
      <4>5. LooksAreCurrent'
        BY <1>1, <4>3 DEF LooksAreCurrent
      <4>6. ASSUME sealed', NEW i \in 1..7 PROVE Satisfied(PlanOrder[i])
        <5>1. CASE sealed
          BY <4>6, <5>1, PlanCovers DEF SuccessIsConverged
        <5>2. CASE ~sealed
          <6>1. found = {} /\ drifts = apply.checked
            BY <2>1, <4>2, <4>3, <4>6, <5>2
          <6>2. CASE i = 7
            BY <2>2, <2>5, <6>1, <6>2
          <6>3. CASE i # 7
            BY <2>2, <2>5, <3>6, <4>6, <6>1, <6>3 DEF LooksAreCurrent
          <6> QED BY <6>2, <6>3
        <5> QED BY <5>1, <5>2
      <4>7. SuccessIsConverged'
        BY <2>3, <4>6, PlanCovers DEF SuccessIsConverged
      <4> QED BY <4>4, <4>5, <4>7
    <3> QED BY <1>1, <3>4, <3>5, <3>6 DEF Planning
  <2> QED BY <1>1, <2>4, <2>5
<1> QED BY <1>2, <1>3

\* A step that leaves the settings and apply alone.
LEMMA OthersStep ==
  ASSUME SettingsInv, UNCHANGED <<settings, protection, apply, sealed, drifts>>, ReviewsStartClean'
  PROVE  SettingsInv'
BY DEF SettingsInv, SettingsTypeOK, LooksAreCurrent, SuccessIsConverged, Satisfied

\* A call that fails, or an operator who gives up: apply ends.
LEMMA RaisingStep ==
  ASSUME SettingsInv, NEW code \in Answers \ {"success", "noop"}, apply' = Raised(apply, code),
         settings' \in [Settings -> {"absent", "drifted", "desired"}],
         \A s \in Settings : settings'[s] = settings[s] \/ settings[s] # "desired",
         UNCHANGED <<protection, reviews, sealed, drifts>>
  PROVE  SettingsInv'
<1>1. apply \in Applies /\ protection \in Protections /\ apply.checked <= drifts
  BY DEF SettingsInv, SettingsTypeOK, LooksAreCurrent
<1>2. apply' \in Applies /\ apply'.at = "ended" /\ apply'.checked = apply.checked
  BY <1>1, RaisedFacts
<1> QED BY <1>1, <1>2, ApplyStep

LEMMA SettingsStep ==
  SettingsInv /\ [GateNext \/ (SettingsNext /\ UNCHANGED prVars)]_<<settingsVars, prVars>> => SettingsInv'
<1> SUFFICES ASSUME SettingsInv, [GateNext \/ (SettingsNext /\ UNCHANGED prVars)]_<<settingsVars, prVars>>
             PROVE  SettingsInv'
  OBVIOUS
<1>0. /\ apply \in Applies /\ apply.checked <= drifts /\ apply.checked \in Nat /\ drifts \in Nat
      /\ apply.at # "ended" => apply.answer = "none"
      /\ settings \in [Settings -> {"absent", "drifted", "desired"}] /\ protection \in Protections
      /\ apply.seen \in Protections /\ apply.mutated \in BOOLEAN
  BY DEF SettingsInv, SettingsTypeOK, LooksAreCurrent, Applies
<1>c. {"LLM_API_KEY_REQUIRED", "GITHUB_API_FAILED", "BRANCH_PROTECTION_LOOKUP_FAILED"}
        \subseteq Answers \ {"success", "noop"}
  BY DEF Answers
<1>1. CASE StartPlan(MaxApplies)
  <2>1. /\ apply' = [apply EXCEPT !.at = "plan", !.step = 1, !.found = {}, !.mutated = FALSE,
                                  !.answer = "none", !.runs = @ + 1]
        /\ UNCHANGED <<settings, protection, reviews, sealed, drifts>>
    BY <1>1 DEF StartPlan
  <2>2. {} \in SUBSET Targets /\ "plan" \in Planning /\ "none" \in Answers
    BY DEF Planning, Answers
  <2>3. PICK b \in Applies : b = [apply EXCEPT !.found = {}, !.step = 1] /\ b.checked = apply.checked
    BY <1>0, <2>2, FromTheFirst
  <2>4. apply' = [b EXCEPT !.at = "plan", !.mutated = FALSE, !.answer = "none", !.runs = @ + 1]
    BY <1>0, <2>1, <2>3 DEF Applies
  <2>5. b.runs \in Nat
    BY DEF Applies
  <2>6. b.runs + 1 \in Nat
    BY <2>5
  <2>7. /\ apply' \in Applies /\ apply'.at = "plan" /\ apply'.answer = "none"
        /\ apply'.checked = apply.checked
    BY <2>2, <2>3, <2>4, <2>6 DEF Applies
  <2> QED BY <1>0, <2>1, <2>7, ApplyStep
<1>2. CASE PlanStep
  BY <1>2, PlanStepKeeps
<1>3. CASE Confirm
  <2>1. apply.at = "confirm" /\ UNCHANGED <<settings, protection, reviews, sealed, drifts>>
    BY <1>3 DEF Confirm
  <2>2. CASE apply' = Ended(apply, "not confirmed")
    <3>1. "not confirmed" \in Answers
      BY DEF Answers
    <3>2. apply' \in Applies /\ apply'.at = "ended" /\ apply'.checked = apply.checked
      BY <1>0, <2>2, <3>1, EndedFacts
    <3> QED BY <1>0, <2>1, <3>2, ApplyStep
  <2>3. ASSUME NEW replaces \in BOOLEAN,
               apply' = [apply EXCEPT !.at = "replan", !.found = {}, !.replaces = replaces,
                                      !.asked = replaces \/ "secret" \in apply.found]
        PROVE  SettingsInv'
    <3>1. /\ {} \in SUBSET Targets /\ "replan" \in Planning
          /\ (replaces \/ "secret" \in apply.found) \in BOOLEAN
      BY DEF Planning
    <3>2. apply' \in Applies /\ apply'.at = "replan" /\ apply'.answer = apply.answer /\ apply'.checked = apply.checked
      BY <1>0, <2>3, <3>1 DEF Applies
    <3> QED BY <1>0, <2>1, <3>2, ApplyStep
  <2> QED BY <1>3, <2>2, <2>3 DEF Confirm
<1>4. CASE Reconcile
  <2> DEFINE target == ApplyOrder[apply.step]
             writes == IF target = "secret" THEN apply.needsSecret ELSE ~Satisfied(target)
  <2>1. /\ apply.at = "apply" /\ target # "branch:main" /\ target \in Settings
        /\ UNCHANGED <<protection, reviews, sealed, drifts>>
    BY <1>0, <1>4, ApplyCovers DEF Reconcile, Applies, Targets
  <2>2. CASE /\ settings' = IF writes THEN [settings EXCEPT ![target] = "desired"] ELSE settings
             /\ apply' = NextTarget([apply EXCEPT !.mutated = @ \/ writes])
    <3>1. writes \in BOOLEAN
      BY <1>0 DEF Satisfied, Applies
    <3> HIDE DEF writes
    <3>2. PICK b : b = [apply EXCEPT !.mutated = @ \/ writes]
      OBVIOUS
    <3>3. b \in Applies /\ b.at = "apply" /\ b.answer = "none" /\ b.checked = apply.checked
      BY <1>0, <2>1, <3>1, <3>2 DEF Applies
    <3>4. apply' = NextTarget(b)
      BY <2>2, <3>2
    <3>5. /\ apply' \in Applies /\ apply'.answer = "none"
          /\ apply'.checked <= drifts /\ (apply'.at = "postcondition" => apply'.step = 1)
      BY <1>0, <3>3, <3>4, NextTargetFacts
    <3>6. /\ settings' \in [Settings -> {"absent", "drifted", "desired"}]
          /\ \A s \in Settings : settings'[s] = settings[s] \/ settings'[s] = "desired"
      BY <1>0, <2>1, <2>2
    <3> QED BY <1>0, <2>1, <3>5, <3>6, ApplyStep
  <2>3. CASE CallFails(apply, "GITHUB_API_FAILED") /\ UNCHANGED settings
    BY <1>0, <1>c, <2>1, <2>3, RaisingStep DEF CallFails
  <2>4. CASE /\ CallFails(apply, "GITHUB_API_FAILED") /\ target \in Environments /\ writes
             /\ settings' = [settings EXCEPT ![target] = "drifted"]
    <3>1. settings[target] # "desired"
      BY <2>1, <2>4 DEF Satisfied, Environments
    <3>2. /\ settings' \in [Settings -> {"absent", "drifted", "desired"}]
          /\ \A s \in Settings : settings'[s] = settings[s] \/ settings[s] # "desired"
      BY <1>0, <2>1, <2>4, <3>1
    <3> QED BY <1>0, <1>c, <2>1, <2>4, <3>2, RaisingStep DEF CallFails
  <2> QED BY <1>4, <2>2, <2>3, <2>4 DEF Reconcile
<1>5. CASE EmptySecret
  BY <1>0, <1>5, <1>c, RaisingStep DEF EmptySecret
<1>6. CASE ReadProtection
  <2>1. apply.at = "apply" /\ UNCHANGED <<settings, protection, reviews, sealed, drifts>>
    BY <1>6 DEF ReadProtection
  <2>2. CASE apply' = [apply EXCEPT !.at = "protect", !.seen = protection]
    <3>1. apply' \in Applies /\ apply'.at = "protect" /\ apply'.answer = "none" /\ apply'.checked = apply.checked
      BY <1>0, <2>1, <2>2 DEF Applies
    <3> QED BY <1>0, <2>1, <3>1, ApplyStep
  <2>3. CASE CallFails(apply, "BRANCH_PROTECTION_LOOKUP_FAILED")
    BY <1>0, <1>c, <2>1, <2>3, RaisingStep DEF CallFails
  <2> QED BY <1>6, <2>2, <2>3 DEF ReadProtection
<1>7. CASE WriteProtection
  <2> DEFINE desired == BootstrapProtection(apply.seen)
             writes == apply.seen # desired
  <2>1. apply.at = "protect" /\ UNCHANGED <<settings, reviews, sealed, drifts>>
    BY <1>7 DEF WriteProtection
  <2>2. CASE /\ protection' = IF writes THEN desired ELSE protection
             /\ apply' = NextTarget([apply EXCEPT !.at = "apply", !.mutated = @ \/ writes])
    <3>1. writes \in BOOLEAN /\ desired \in {Contract(0), Contract(1)}
      BY <1>0, DesiredFacts
    <3> HIDE DEF writes, desired
    <3>2. PICK b : b = [apply EXCEPT !.at = "apply", !.mutated = @ \/ writes]
      OBVIOUS
    <3>3. b \in Applies /\ b.at = "apply" /\ b.answer = "none" /\ b.checked = apply.checked
      BY <1>0, <2>1, <3>1, <3>2 DEF Applies
    <3>4. apply' = NextTarget(b)
      BY <2>2, <3>2
    <3>5. /\ apply' \in Applies /\ apply'.answer = "none"
          /\ apply'.checked <= drifts /\ (apply'.at = "postcondition" => apply'.step = 1)
      BY <1>0, <3>3, <3>4, NextTargetFacts
    <3>6. /\ protection' = protection \/ protection' \in {Contract(0), Contract(1)}
          /\ protection' \in Protections
      BY <1>0, <2>2, <3>1, ContractFacts DEF Protections
    <3> QED BY <1>0, <2>1, <3>5, <3>6, ApplyStep
  <2>3. CASE CallFails(apply, "GITHUB_API_FAILED") /\ UNCHANGED protection
    BY <1>0, <1>c, <2>1, <2>3, RaisingStep DEF CallFails
  <2> QED BY <1>7, <2>2, <2>3 DEF WriteProtection
<1>8. CASE ReadForReviews
  <2>1. UNCHANGED <<settings, protection, apply, sealed, drifts>> /\ reviews.at = "none"
    BY <1>8 DEF ReadForReviews
  <2>2. reviews \in [at : ReviewPlaces, seen : Protections]
    BY DEF SettingsInv, ReviewsStartClean
  <2>3. CASE \E at \in {"BRANCH_PROTECTION_REQUIRED", "BRANCH_PROTECTION_DRIFT", "noop"} :
               reviews' = [reviews EXCEPT !.at = at]
    <3>1. PICK at \in ReviewPlaces \ {"enable"} : reviews' = [reviews EXCEPT !.at = at]
      BY <2>3 DEF ReviewPlaces
    <3>2. reviews' \in [at : ReviewPlaces, seen : Protections] /\ reviews'.at # "enable"
      BY <2>2, <3>1
    <3>3. ReviewsStartClean'
      BY <3>2 DEF ReviewsStartClean
    <3> QED BY <2>1, <3>3, OthersStep
  <2>4. CASE /\ protection # NoProtection /\ protection.reviews \in {0, 1} /\ protection.reviews # 1
             /\ [protection EXCEPT !.reviews = 0] = Contract(0)
             /\ reviews' = [at |-> "enable", seen |-> protection]
    <3>1. [protection EXCEPT !.reviews = 0] = protection
      BY <1>0, <2>4 DEF Protections, Contracts
    <3>2. "enable" \in ReviewPlaces
      BY DEF ReviewPlaces
    <3>3. reviews' \in [at : ReviewPlaces, seen : Protections] /\ reviews'.seen = Contract(0)
      BY <1>0, <2>4, <3>1, <3>2
    <3>4. ReviewsStartClean'
      BY <3>3 DEF ReviewsStartClean
    <3> QED BY <2>1, <3>4, OthersStep
  <2>5. CASE protection = NoProtection
    BY <1>8, <2>3, <2>5 DEF ReadForReviews
  <2>6. CASE protection # NoProtection /\ (protection.reviews \notin {0, 1} \/ [protection EXCEPT !.reviews = 0] # Contract(0))
    BY <1>8, <2>3, <2>6 DEF ReadForReviews
  <2>7. CASE /\ protection # NoProtection /\ protection.reviews \in {0, 1}
             /\ [protection EXCEPT !.reviews = 0] = Contract(0)
    BY <1>8, <2>3, <2>4, <2>7 DEF ReadForReviews
  <2> QED BY <2>5, <2>6, <2>7
<1>9. CASE EnableReviews
  <2>1. /\ protection' = [Contract(0) EXCEPT !.reviews = 1] /\ UNCHANGED <<settings, apply, sealed, drifts>>
        /\ reviews' = [reviews EXCEPT !.at = "success"]
    BY <1>9 DEF EnableReviews, SettingsInv, ReviewsStartClean
  <2>2. protection' = Contract(1) /\ protection' \in Protections
    <3>1. PICK seen \in Contracts : seen = Contract(0) /\ seen.strict = TRUE /\ seen.enforced = TRUE
      BY ContractFacts DEF Contract
    <3>2. [seen EXCEPT !.reviews = 1] = Contract(1)
      <4>1. [seen EXCEPT !.reviews = 1] = [strict |-> seen.strict, enforced |-> seen.enforced, reviews |-> 1]
        BY DEF Contracts
      <4> QED BY <3>1, <4>1 DEF Contract
    <3> QED BY <2>1, <3>1, <3>2, ContractFacts DEF Protections
  <2>3. \A target \in Targets : Satisfied(target) => Satisfied(target)'
    BY <2>1, <2>2, WritesKeep DEF SettingsInv
  <2>4. SettingsTypeOK'
    BY <2>1, <2>2 DEF SettingsInv, SettingsTypeOK
  <2>5. ReviewsStartClean'
    <3>1. reviews \in [at : ReviewPlaces, seen : Protections] /\ "success" \in ReviewPlaces
      BY DEF SettingsInv, ReviewsStartClean, ReviewPlaces
    <3>2. reviews' \in [at : ReviewPlaces, seen : Protections] /\ reviews'.at # "enable"
      BY <2>1, <3>1
    <3> QED BY <3>2 DEF ReviewsStartClean
  <2>6. LooksAreCurrent'
    BY <2>1, <2>3, PlanCovers DEF SettingsInv, LooksAreCurrent
  <2>7. SuccessIsConverged'
    BY <2>1, <2>3, PlanCovers DEF SettingsInv, SuccessIsConverged
  <2> QED BY <2>4, <2>5, <2>6, <2>7 DEF SettingsInv
<1>10. CASE Drift
  <2>1. drifts' = drifts + 1 /\ sealed' = FALSE /\ UNCHANGED <<apply, reviews>>
    BY <1>10 DEF Drift
  <2>2. settings' \in [Settings -> {"absent", "drifted", "desired"}]
    BY <1>0, <1>10 DEF Drift
  <2>3. protection' \in Protections
    <3>1. {[Contract(0) EXCEPT !.strict = FALSE], [Contract(1) EXCEPT !.enforced = FALSE], Contract(2)} \subseteq Contracts
      <4>1. \A c \in Contracts : [c EXCEPT !.strict = FALSE] \in Contracts /\ [c EXCEPT !.enforced = FALSE] \in Contracts
        BY DEF Contracts
      <4>2. Contract(0) \in Contracts /\ Contract(1) \in Contracts /\ Contract(2) \in Contracts
        BY ContractFacts
      <4> QED BY <4>1, <4>2
    <3>2. \/ protection' = protection
          \/ protection' \in {NoProtection, [Contract(0) EXCEPT !.strict = FALSE],
                            [Contract(1) EXCEPT !.enforced = FALSE], Contract(2)}
      BY <1>10 DEF Drift
    <3> QED BY <1>0, <3>1, <3>2 DEF Protections
  <2>4. SettingsTypeOK'
    <3>1. apply' \in Applies /\ drifts' \in Nat
      BY <1>0, <2>1
    <3>2. sealed' \in BOOLEAN
      BY <2>1, Zenon
    <3> QED BY <2>2, <2>3, <3>1, <3>2 DEF SettingsTypeOK
  <2>5. ReviewsStartClean' /\ SuccessIsConverged'
    BY <2>1 DEF SettingsInv, ReviewsStartClean, SuccessIsConverged
  <2>6. LooksAreCurrent'
    BY <1>0, <2>1 DEF LooksAreCurrent
  <2> QED BY <2>4, <2>5, <2>6 DEF SettingsInv
<1>11. CASE GateNext
  <2>1. UNCHANGED <<settings, protection, apply, reviews, sealed, drifts>>
    BY <1>11 DEF GateNext, settingsVars
  <2> QED BY <2>1, OthersStep DEF SettingsInv, ReviewsStartClean
<1>12. CASE UNCHANGED <<settingsVars, prVars>>
  BY <1>12, OthersStep DEF settingsVars, SettingsInv, ReviewsStartClean
<1> QED BY <1>1, <1>2, <1>3, <1>4, <1>5, <1>6, <1>7, <1>8, <1>9, <1>10, <1>11, <1>12 DEF SettingsNext

\* For any number of drifts, failing calls and applies: what an apply reported as done
\* stays in place until somebody outside changes a setting, a partial or failed later
\* apply and a change of the required reviews included.
THEOREM Converged == GateSpec => []SuccessIsConverged
<1>1. SettingsInit /\ GateInit => SettingsInv
  BY SettingsInitially
<1>2. SettingsInv => SuccessIsConverged
  BY DEF SettingsInv
<1> QED BY <1>1, <1>2, SettingsStep, PTL DEF GateSpec

\* For any heads, groups and runs: while the settings that a bootstrap reported are in
\* place, what the merge of the pull request makes of main passed every verifier.
THEOREM MainVerified == GateSpec => MainIsVerified
<1>1. SettingsInit /\ GateInit => SettingsInv /\ GateInv
  BY SettingsInitially, GateInitially
<1>2. ASSUME SettingsInv, GateInv, sealed, Merge
      PROVE  main'.tree \in Heads /\ passed[main'.tree] = Groups
  <2>1. protection \in {Contract(0), Contract(1)}
    <3>1. PlanOrder[7] = "branch:main"
      BY DEF PlanOrder
    <3> QED BY <1>2, <3>1, PlanCovers, ProtectionSatisfied DEF SettingsInv, SuccessIsConverged, SettingsTypeOK
  <2>2. protection # NoProtection /\ protection.enforced /\ protection.strict
    BY <2>1, ContractFacts DEF Contract
  <2>3. Green(head) /\ contains[head] = main.version /\ head # NoHead
    BY <1>2, <2>2 DEF Merge, Mergeable
  <2>4. main'.tree = head /\ head \in Heads
    BY <1>2, <2>3 DEF Merge, GateInv, GateTypeOK
  <2> QED BY <1>2, <2>3, <2>4 DEF GateInv, SuccessIsVerified, Green, Contexts
<1>3. SettingsInv /\ GateInv => [sealed /\ Merge => main'.tree \in Heads /\ passed[main'.tree] = Groups]_<<settingsVars, prVars>>
  BY <1>2
<1> QED BY <1>1, <1>3, SettingsStep, GateStep, PTL DEF GateSpec, MainIsVerified

(***************************************************************************)
(* The release jobs                                                        *)
(***************************************************************************)
LEMMA NullFacts ==
  /\ \A j \in Jobs : JobCommit[j] \in Commits /\ JobCommit[j] # None
  /\ \A j \in Jobs : ProductTag[j] \in Tags /\ TagsOf(j) \subseteq Tags
  /\ \A j \in Jobs : ProductTag[j] \in TagsOf(j)
BY JobAssumption, ReleaseConstantsAssumption DEF TagsOf

\* Type correctness of every step of the publication and linkage jobs.
LEMMA TypeStep == ASSUME TypeOK, [Next]_vars PROVE TypeOK'
<1> USE JobAssumption, ReleaseConstantsAssumption DEF TypeOK, remote, clone, hub, Running, Assets
<1>1. ASSUME NEW j \in Jobs, Checkout(j) PROVE TypeOK'
  <2>1. FetchedTags(j) \in [Tags -> Commits \cup {None}]
    BY DEF FetchedTags
  <2> QED BY <1>1, <2>1 DEF Checkout, Disturb
<1>2. ASSUME NEW j \in Jobs, ResolvePlan(j) PROVE TypeOK'
  <2>1. pc' \in [Jobs -> Running \cup {"idle", "failed", "done"}]
    BY <1>2 DEF ResolvePlan
  <2>2. plan' \in [Jobs -> Contents]
    BY <1>2 DEF ResolvePlan
  <2> QED BY <1>2, <2>1, <2>2 DEF ResolvePlan
<1>3. ASSUME NEW j \in Jobs, BuildBundle(j) PROVE TypeOK'
  <2>1. pc' \in [Jobs -> Running \cup {"idle", "failed", "done"}]
    BY <1>3 DEF BuildBundle
  <2>2. bundle' \in [Jobs -> Contents]
    BY <1>3 DEF BuildBundle
  <2> QED BY <1>3, <2>1, <2>2 DEF BuildBundle
<1>4. ASSUME NEW j \in Jobs, CheckExisting(j) PROVE TypeOK'
  <2>1. pc' \in [Jobs -> Running \cup {"idle", "failed", "done"}]
    BY <1>4 DEF CheckExisting, TagsOf
  <2>2. new' \in [Jobs -> SUBSET Tags]
    BY <1>4 DEF CheckExisting, TagsOf
  <2> QED BY <1>4, <2>1, <2>2 DEF CheckExisting
<1>5. ASSUME NEW j \in Jobs, CreateTags(j) PROVE TypeOK'
  <2>1. pc' \in [Jobs -> Running \cup {"idle", "failed", "done"}]
    BY <1>5 DEF CreateTags, Disturb
  <2>2. localTags' \in [Jobs -> [Tags -> Commits \cup {None}]]
    BY <1>5 DEF CreateTags, Disturb
  <2>3. faults' \in 0..MaxFaults
    BY <1>5 DEF CreateTags, Disturb
  <2> QED BY <1>5, <2>1, <2>2, <2>3 DEF CreateTags
<1>6. ASSUME NEW j \in Jobs, PushTags(j) PROVE TypeOK'
  <2>1. pc' \in [Jobs -> Running \cup {"idle", "failed", "done"}]
    BY <1>6 DEF PushTags, Disturb
  <2>2. remoteTags' \in [Tags -> Commits \cup {None}]
    BY <1>6 DEF PushTags, Disturb
  <2>3. faults' \in 0..MaxFaults
    BY <1>6 DEF PushTags, Disturb
  <2> QED BY <1>6, <2>1, <2>2, <2>3 DEF PushTags
<1>7. ASSUME NEW j \in Jobs, UpsertRelease(j) PROVE TypeOK'
  <2>0. \E x \in {"upload", "done", "failed"} : pc' = [pc EXCEPT ![j] = x]
    BY <1>7 DEF UpsertRelease
  <2>1. pc' \in [Jobs -> Running \cup {"idle", "failed", "done"}]
    BY <2>0
  <2>2. remoteTags' \in [Tags -> Commits \cup {None}]
    BY <1>7 DEF UpsertRelease, TagsAfterPost, Disturb
  <2>3. releases' \in [Tags -> Assets]
    BY <1>7 DEF UpsertRelease, TagsAfterPost, Disturb
  <2>4. faults' \in 0..MaxFaults
    BY <1>7 DEF UpsertRelease, TagsAfterPost, Disturb
  <2> QED BY <1>7, <2>1, <2>2, <2>3, <2>4 DEF UpsertRelease
<1>8. ASSUME NEW j \in Jobs, UploadAsset(j) PROVE TypeOK'
  <2>0. \E x \in {"upload", "done", "failed"} : pc' = [pc EXCEPT ![j] = x]
    BY <1>8 DEF UploadAsset
  <2>1. pc' \in [Jobs -> Running \cup {"idle", "failed", "done"}]
    BY <2>0
  <2>2. releases' \in [Tags -> Assets]
    <3>1. releases' = releases \/ releases' = [releases EXCEPT ![ProductTag[j]] = bundle[j]]
      BY <1>8 DEF UploadAsset
    <3> QED BY <3>1
  <2>3. faults' \in 0..MaxFaults
    BY <1>8 DEF UploadAsset, Disturb
  <2> QED BY <1>8, <2>1, <2>2, <2>3 DEF UploadAsset
<1>9. ASSUME NEW j \in Jobs, Fail(j) PROVE TypeOK'
  BY <1>9 DEF Fail, Disturb
<1>10. ASSUME NEW j \in Jobs, BeginLinkage(j) PROVE TypeOK'
  BY <1>10 DEF BeginLinkage
<1>11. ASSUME NEW j \in Jobs, Dispatch(j) PROVE TypeOK'
  <2>1. link' \in [Jobs -> {"idle", "dispatch", "status", "linked"}]
    BY <1>11 DEF Dispatch, Disturb
  <2>2. events' \in [Jobs -> Nat]
    BY <1>11 DEF Dispatch, Disturb
  <2>3. faults' \in 0..MaxFaults
    BY <1>11 DEF Dispatch, Disturb
  <2> QED BY <1>11, <2>1, <2>2, <2>3 DEF Dispatch
<1>12. ASSUME NEW j \in Jobs, RecordDispatch(j) PROVE TypeOK'
  <2>1. link' \in [Jobs -> {"idle", "dispatch", "status", "linked"}]
    BY <1>12 DEF RecordDispatch, Disturb
  <2>2. faults' \in 0..MaxFaults
    BY <1>12 DEF RecordDispatch, Disturb
  <2> QED BY <1>12, <2>1, <2>2 DEF RecordDispatch
<1>13. ASSUME NEW j \in Jobs, FailLinkage(j) PROVE TypeOK'
  BY <1>13 DEF FailLinkage, Disturb
<1>14. ASSUME NEW j \in Jobs, FilesChange(j) PROVE TypeOK'
  BY <1>14 DEF FilesChange, Disturb
<1>15. CASE BranchAdvances
  BY <1>15 DEF BranchAdvances
<1>16. CASE UNCHANGED vars
  BY <1>16 DEF vars
<1> QED
  BY <1>1, <1>2, <1>3, <1>4, <1>5, <1>6, <1>7, <1>8, <1>9, <1>10, <1>11, <1>12, <1>13,
     <1>14, <1>15, <1>16 DEF Next, Publish, Linkage

\* TypeOK holds in every reachable state, for every instance.
THEOREM TypeCorrect == Spec => []TypeOK
<1>1. Init => TypeOK
  BY JobAssumption, ReleaseConstantsAssumption DEF Init, TypeOK, Running, Assets
<1> QED BY <1>1, TypeStep, PTL DEF Spec

\* Tags of origin and published assets only ever come into being.
LEMMA Monotone ==
  ASSUME TypeOK, [Next]_vars
  PROVE  \A t \in Tags :
           /\ remoteTags[t] # None => remoteTags'[t] = remoteTags[t]
           /\ releases[t] # NoRelease => releases'[t] # NoRelease
           /\ releases[t] \in Contents => releases'[t] = releases[t]
<1> USE NullFacts, ReleaseConstantsAssumption DEF TypeOK, remote, clone, hub, Assets
<1>1. ASSUME NEW j \in Jobs, PushTags(j)
      PROVE  /\ releases' = releases
             /\ \A t \in Tags : remoteTags[t] # None => remoteTags'[t] = remoteTags[t]
  BY <1>1 DEF PushTags, AcceptedTags
<1>2. ASSUME NEW j \in Jobs, UpsertRelease(j)
      PROVE  \A t \in Tags :
               /\ remoteTags[t] # None => remoteTags'[t] = remoteTags[t]
               /\ releases[t] # NoRelease => releases'[t] = releases[t]
  BY <1>2 DEF UpsertRelease, TagsAfterPost
<1>3. ASSUME NEW j \in Jobs, UploadAsset(j)
      PROVE  /\ remoteTags' = remoteTags
             /\ \/ releases' = releases
                \/ /\ releases[ProductTag[j]] = NoAsset
                   /\ releases' = [releases EXCEPT ![ProductTag[j]] = bundle[j]]
  BY <1>3 DEF UploadAsset
<1>4. ASSUME NEW j \in Jobs,
             \/ Checkout(j) \/ ResolvePlan(j) \/ BuildBundle(j) \/ CheckExisting(j)
             \/ CreateTags(j) \/ Fail(j) \/ Linkage(j) \/ FailLinkage(j) \/ FilesChange(j)
      PROVE  UNCHANGED <<remoteTags, releases>>
  BY <1>4 DEF Checkout, ResolvePlan, BuildBundle, CheckExisting, CreateTags, Fail, Linkage,
              BeginLinkage, Dispatch, RecordDispatch, FailLinkage, FilesChange
<1>5. BranchAdvances \/ UNCHANGED vars => UNCHANGED <<remoteTags, releases>>
  BY DEF BranchAdvances, vars
<1>6. CASE \E j \in Jobs : UploadAsset(j)
  <2> PICK j \in Jobs : UploadAsset(j)  BY <1>6
  <2> QED BY <1>3
<1> QED BY <1>1, <1>2, <1>4, <1>5, <1>6 DEF Next, Publish

\* No run moves a pushed tag or replaces a published asset (push_tags, upsert_release).
THEOREM Immutable == Spec => PublishedIsImmutable
<1>1. TypeOK /\ [Next]_vars =>
        [\A t \in Tags :
           /\ remoteTags[t] # None => remoteTags'[t] = remoteTags[t]
           /\ releases[t] \in Contents => releases'[t] = releases[t]]_vars
  BY Monotone
<1> QED BY <1>1, TypeCorrect, PTL DEF Spec, PublishedIsImmutable
\* The knowledge of an attempt is preserved by every step, its own and the others'.
LEMMA InvStep ==
  ASSUME FreshCheckout, TypeOK, ReleaseInv, [Next]_vars
  PROVE  ReleaseInv'
<1> USE NullFacts, JobAssumption, ReleaseConstantsAssumption
    DEF remote, clone, hub
<1>m. \A t \in Tags :
        /\ remoteTags[t] # None => remoteTags'[t] = remoteTags[t]
        /\ releases[t] # NoRelease => releases'[t] # NoRelease
        /\ releases[t] \in Contents => releases'[t] = releases[t]
  BY Monotone
<1>t. TypeOK'
  BY TypeStep
<1>d. DispatchFollowsPublication'
  <2>1. ASSUME NEW j \in Jobs, events[j] > 0
        PROVE  /\ \A t \in TagsOf(j) : remoteTags'[t] = JobCommit[j]
               /\ releases'[ProductTag[j]] \in Contents
    BY <1>m, <2>1 DEF ReleaseInv, DispatchFollowsPublication
  <2>2. ASSUME NEW j \in Jobs, Dispatch(j) PROVE DispatchFollowsPublication'
    BY <2>1, <2>2 DEF Dispatch, ReleaseInv, TypeOK, DispatchFollowsPublication,
       LinkageAfterRelease, SuccessIsPublished, Published
  <2>3. ASSUME NEW j \in Jobs, RecordDispatch(j) PROVE DispatchFollowsPublication'
    BY <2>1, <2>3 DEF RecordDispatch, ReleaseInv, DispatchFollowsPublication,
       LinkageAfterRelease
  <2>4. ASSUME UNCHANGED hub PROVE DispatchFollowsPublication'
    BY <2>1, <2>4 DEF ReleaseInv, DispatchFollowsPublication
  <2>5. \/ UNCHANGED hub
        \/ \E j \in Jobs : Dispatch(j) \/ RecordDispatch(j)
    BY DEF Next, Publish, Linkage, Checkout, ResolvePlan, BuildBundle, CheckExisting,
       CreateTags, PushTags, UpsertRelease, UploadAsset, Fail, BeginLinkage, FailLinkage,
       FilesChange, BranchAdvances, vars
  <2> QED BY <2>2, <2>3, <2>4, <2>5
<1>r. ReleaseHasItsTag' /\ OnlyVerifiedContent'
  <2>1. CASE UNCHANGED releases
    BY <1>m, <2>1 DEF ReleaseInv, ReleaseHasItsTag, OnlyVerifiedContent, TypeOK
  <2>2. ASSUME NEW j \in Jobs, UpsertRelease(j)
        PROVE  ReleaseHasItsTag' /\ OnlyVerifiedContent'
    <3>1. \/ releases' = releases
          \/ releases' = [releases EXCEPT ![ProductTag[j]] = NoAsset]
      BY <2>2 DEF UpsertRelease
    <3>2. remoteTags'[ProductTag[j]] = JobCommit[j]
      BY <1>m, <2>2 DEF UpsertRelease, ReleaseInv, PushedTagsOnOrigin
    <3>3. OnlyVerifiedContent'
      BY <3>1 DEF ReleaseInv, OnlyVerifiedContent, TypeOK
    <3>4. ReleaseHasItsTag'
      <4> SUFFICES ASSUME NEW t \in Tags, releases'[t] # NoRelease
                   PROVE  \E i \in Jobs : t = ProductTag[i] /\ remoteTags'[t] = JobCommit[i]
        BY DEF ReleaseHasItsTag
      <4>1. CASE t = ProductTag[j]
        BY <3>2, <4>1
      <4>2. CASE t # ProductTag[j]
        <5>1. releases[t] # NoRelease
          BY <3>1, <4>2 DEF TypeOK
        <5>2. PICK i \in Jobs : t = ProductTag[i] /\ remoteTags[t] = JobCommit[i]
          BY <5>1 DEF ReleaseInv, ReleaseHasItsTag
        <5> QED BY <1>m, <5>2
      <4> QED BY <4>1, <4>2
    <3> QED BY <3>3, <3>4
  <2>3. ASSUME NEW j \in Jobs, UploadAsset(j)
        PROVE  ReleaseHasItsTag' /\ OnlyVerifiedContent'
    <3>1. /\ remoteTags' = remoteTags
          /\ \/ releases' = releases
             \/ /\ releases[ProductTag[j]] = NoAsset
                /\ releases' = [releases EXCEPT ![ProductTag[j]] = bundle[j]]
      BY <2>3 DEF UploadAsset
    <3>2. bundle[j] \in Releasable
      BY <2>3 DEF UploadAsset, ReleaseInv, BundleVerified
    <3> QED BY <3>1, <3>2 DEF ReleaseInv, ReleaseHasItsTag, OnlyVerifiedContent, TypeOK
  <2>4. \/ UNCHANGED releases
        \/ \E j \in Jobs : UpsertRelease(j) \/ UploadAsset(j)
    BY DEF Next, Publish, Linkage, Checkout, ResolvePlan, BuildBundle, CheckExisting,
       CreateTags, PushTags, Fail, BeginLinkage, Dispatch, RecordDispatch, FailLinkage,
       FilesChange, BranchAdvances, vars
  <2> QED BY <2>1, <2>2, <2>3, <2>4
<1> DEFINE JobInv(j) ==
      /\ pc[j] = "planned" => plan[j] \in Releasable
      /\ pc[j] \in {"built", "checked", "tagged", "pushed", "upload", "done"}
           => bundle[j] \in Releasable
      /\ pc[j] \in {"checkout", "planned", "built", "checked"} =>
           \A t \in Tags : localTags[j][t] # None => remoteTags[t] = localTags[j][t]
      /\ pc[j] \in {"checked", "tagged"} =>
           \A t \in TagsOf(j) \ new[j] : remoteTags[t] = JobCommit[j]
      /\ pc[j] \in {"pushed", "upload", "done"} =>
           \A t \in TagsOf(j) : remoteTags[t] = JobCommit[j]
      /\ link[j] \in {"dispatch", "status"} => pc[j] = "done"
      /\ link[j] = "status" => events[j] > 0
      /\ pc[j] = "done" => Published(j)
<1>j. \A j \in Jobs : JobInv(j)
  BY DEF ReleaseInv, BundleVerified, CloneFollowsOrigin, OldTagsOnOrigin, PushedTagsOnOrigin,
     LinkageAfterRelease, SuccessIsPublished
\* A step of another job changes nothing of this job's and only adds to origin.
<1>o. ASSUME NEW i \in Jobs,
             pc'[i] = pc[i], link'[i] = link[i], events'[i] = events[i],
             plan'[i] = plan[i], bundle'[i] = bundle[i], new'[i] = new[i],
             localTags'[i] = localTags[i]
      PROVE  JobInv(i)'
  <2> HIDE DEF JobInv
  <2>1. JobInv(i)
    BY <1>j
  <2>2. bundle[i] \in Releasable => bundle[i] \in Contents
    OBVIOUS
  <2> QED BY <1>m, <1>o, <2>1, <2>2 DEF JobInv, Published, TypeOK
<1> HIDE DEF JobInv
<1>1. ASSUME NEW j \in Jobs, Checkout(j) PROVE \A i \in Jobs : JobInv(i)'
  <2>1. ASSUME NEW i \in Jobs, i # j PROVE JobInv(i)'
    BY <1>1, <1>o, <2>1 DEF Checkout, TypeOK
  <2>2. JobInv(j)'
    BY <1>1 DEF Checkout, FetchedTags, TypeOK, JobInv
  <2> QED BY <2>1, <2>2
<1>2. ASSUME NEW j \in Jobs, ResolvePlan(j) PROVE \A i \in Jobs : JobInv(i)'
  <2>1. ASSUME NEW i \in Jobs, i # j PROVE JobInv(i)'
    BY <1>2, <1>o, <2>1 DEF ResolvePlan, TypeOK
  <2>2. JobInv(j)'
    BY <1>2, <1>j DEF ResolvePlan, TypeOK, JobInv
  <2> QED BY <2>1, <2>2
<1>3. ASSUME NEW j \in Jobs, BuildBundle(j) PROVE \A i \in Jobs : JobInv(i)'
  <2>1. ASSUME NEW i \in Jobs, i # j PROVE JobInv(i)'
    BY <1>3, <1>o, <2>1 DEF BuildBundle, TypeOK
  <2>2. JobInv(j)'
    BY <1>3, <1>j DEF BuildBundle, BundleMatchesPlan, TypeOK, JobInv
  <2> QED BY <2>1, <2>2
<1>4. ASSUME NEW j \in Jobs, CheckExisting(j) PROVE \A i \in Jobs : JobInv(i)'
  <2>1. ASSUME NEW i \in Jobs, i # j PROVE JobInv(i)'
    BY <1>4, <1>o, <2>1 DEF CheckExisting, TypeOK
  <2>2. JobInv(j)'
    BY <1>4, <1>j DEF CheckExisting, TagsAgree, TypeOK, JobInv
  <2> QED BY <2>1, <2>2
<1>5. ASSUME NEW j \in Jobs, CreateTags(j) PROVE \A i \in Jobs : JobInv(i)'
  <2>1. ASSUME NEW i \in Jobs, i # j PROVE JobInv(i)'
    BY <1>5, <1>o, <2>1 DEF CreateTags, TypeOK
  <2>2. JobInv(j)'
    BY <1>5, <1>j DEF CreateTags, TypeOK, JobInv
  <2> QED BY <2>1, <2>2
<1>6. ASSUME NEW j \in Jobs, PushTags(j) PROVE \A i \in Jobs : JobInv(i)'
  <2>1. ASSUME NEW i \in Jobs, i # j PROVE JobInv(i)'
    BY <1>6, <1>o, <2>1 DEF PushTags, TypeOK
  <2>2. JobInv(j)'
    BY <1>6, <1>j DEF PushTags, TypeOK, JobInv
  <2> QED BY <2>1, <2>2
<1>7. ASSUME NEW j \in Jobs, UpsertRelease(j) PROVE \A i \in Jobs : JobInv(i)'
  <2>1. ASSUME NEW i \in Jobs, i # j PROVE JobInv(i)'
    BY <1>7, <1>o, <2>1 DEF UpsertRelease, TypeOK
  <2>2. JobInv(j)'
    BY <1>7, <1>j, <1>m DEF UpsertRelease, TypeOK, JobInv, Published
  <2> QED BY <2>1, <2>2
<1>8. ASSUME NEW j \in Jobs, UploadAsset(j) PROVE \A i \in Jobs : JobInv(i)'
  <2>1. ASSUME NEW i \in Jobs, i # j PROVE JobInv(i)'
    BY <1>8, <1>o, <2>1 DEF UploadAsset, TypeOK
  <2>2. JobInv(j)'
    BY <1>8, <1>j, <1>m DEF UploadAsset, TypeOK, JobInv, Published
  <2> QED BY <2>1, <2>2
<1>9. ASSUME NEW j \in Jobs, Fail(j) PROVE \A i \in Jobs : JobInv(i)'
  <2>1. ASSUME NEW i \in Jobs, i # j PROVE JobInv(i)'
    BY <1>9, <1>o, <2>1 DEF Fail, TypeOK
  <2>2. JobInv(j)'
    BY <1>9, <1>j DEF Fail, Running, TypeOK, JobInv
  <2> QED BY <2>1, <2>2
<1>10. ASSUME NEW j \in Jobs, BeginLinkage(j) PROVE \A i \in Jobs : JobInv(i)'
  <2>1. ASSUME NEW i \in Jobs, i # j PROVE JobInv(i)'
    BY <1>10, <1>o, <2>1 DEF BeginLinkage, TypeOK
  <2>2. JobInv(j)'
    BY <1>10, <1>j DEF BeginLinkage, TypeOK, JobInv, Published
  <2> QED BY <2>1, <2>2
<1>11. ASSUME NEW j \in Jobs, Dispatch(j) PROVE \A i \in Jobs : JobInv(i)'
  <2>1. ASSUME NEW i \in Jobs, i # j PROVE JobInv(i)'
    BY <1>11, <1>o, <2>1 DEF Dispatch, TypeOK
  <2>2. JobInv(j)'
    BY <1>11, <1>j DEF Dispatch, TypeOK, JobInv, Published
  <2> QED BY <2>1, <2>2
<1>12. ASSUME NEW j \in Jobs, RecordDispatch(j) \/ FailLinkage(j)
       PROVE \A i \in Jobs : JobInv(i)'
  <2>1. ASSUME NEW i \in Jobs, i # j PROVE JobInv(i)'
    BY <1>12, <1>o, <2>1 DEF RecordDispatch, FailLinkage, TypeOK
  <2>2. JobInv(j)'
    BY <1>12, <1>j DEF RecordDispatch, FailLinkage, TypeOK, JobInv, Published
  <2> QED BY <2>1, <2>2
<1>13. ASSUME (\E j \in Jobs : FilesChange(j)) \/ BranchAdvances \/ UNCHANGED vars
       PROVE \A i \in Jobs : JobInv(i)'
  BY <1>13, <1>o DEF FilesChange, BranchAdvances, vars
<1>14. \A i \in Jobs : JobInv(i)'
  BY <1>1, <1>2, <1>3, <1>4, <1>5, <1>6, <1>7, <1>8, <1>9, <1>10, <1>11, <1>12, <1>13
     DEF Next, Publish, Linkage
<1> QED
  BY <1>14, <1>d, <1>r DEF JobInv, ReleaseInv, BundleVerified, CloneFollowsOrigin,
     OldTagsOnOrigin, PushedTagsOnOrigin, LinkageAfterRelease, SuccessIsPublished, Published

\* When every attempt starts from a new clone, ReleaseInv holds throughout.
THEOREM ReleaseInvariant == FreshCheckout /\ Spec => []ReleaseInv
<1>1. Init => ReleaseInv
  BY NullFacts, ReleaseConstantsAssumption
     DEF Init, ReleaseInv, BundleVerified, CloneFollowsOrigin, OldTagsOnOrigin,
         PushedTagsOnOrigin, LinkageAfterRelease, SuccessIsPublished, ReleaseHasItsTag,
         OnlyVerifiedContent, DispatchFollowsPublication
<1>2. SUFFICES ASSUME FreshCheckout PROVE Spec => []ReleaseInv
  OBVIOUS
<1>3. TypeOK /\ ReleaseInv /\ [Next]_vars => ReleaseInv'
  BY <1>2, InvStep
<1> QED BY <1>1, <1>3, TypeCorrect, PTL DEF Spec

\* A successful release-product run has published exactly what it verified.
THEOREM SuccessPublished == FreshCheckout /\ Spec => []SuccessIsPublished
<1>1. ReleaseInv => SuccessIsPublished
  BY DEF ReleaseInv
<1> QED BY <1>1, ReleaseInvariant, PTL

\* Nothing but content that passed the gates is ever in a GitHub Release.
THEOREM VerifiedOnly == FreshCheckout /\ Spec => []OnlyVerifiedContent
<1>1. ReleaseInv => OnlyVerifiedContent
  BY DEF ReleaseInv
<1> QED BY <1>1, ReleaseInvariant, PTL

\* Downstream linkage never runs ahead of publication.
THEOREM DispatchSafe == FreshCheckout /\ Spec => []DispatchFollowsPublication
<1>1. ReleaseInv => DispatchFollowsPublication
  BY DEF ReleaseInv
<1> QED BY <1>1, ReleaseInvariant, PTL

(***************************************************************************)
(* Delivery                                                                *)
(***************************************************************************)
\* A linkage job is about to send only what has no status yet.
Undelivered == \A j \in Jobs : j \in dispatched => link[j] # "dispatch"

LEMMA DeliveryStep ==
  ASSUME TypeOK, Undelivered, [Next]_vars
  PROVE  /\ Undelivered'
         /\ \A j \in Jobs : j \in dispatched => events'[j] = events[j] /\ j \in dispatched'
<1> USE DEF remote, clone, hub
<1>1. ASSUME NEW i \in Jobs, Dispatch(i)
      PROVE  /\ Undelivered'
             /\ \A j \in Jobs : j \in dispatched => events'[j] = events[j] /\ j \in dispatched'
  <2>1. i \notin dispatched /\ dispatched' = dispatched /\ events' = [events EXCEPT ![i] = @ + 1]
    BY <1>1 DEF Dispatch, Undelivered
  <2>2. link'[i] # "dispatch" /\ \A j \in Jobs : j # i => link'[j] = link[j]
    BY <1>1 DEF Dispatch, TypeOK
  <2> QED BY <2>1, <2>2 DEF Undelivered, TypeOK
<1>2. ASSUME NEW i \in Jobs, RecordDispatch(i)
      PROVE  /\ Undelivered'
             /\ \A j \in Jobs : j \in dispatched => events'[j] = events[j] /\ j \in dispatched'
  <2>1. events' = events /\ dispatched' = dispatched \cup {i}
    BY <1>2 DEF RecordDispatch
  <2>2. link'[i] # "dispatch" /\ \A j \in Jobs : j # i => link'[j] = link[j]
    BY <1>2 DEF RecordDispatch, TypeOK
  <2> QED BY <2>1, <2>2 DEF Undelivered
<1>3. ASSUME NEW i \in Jobs, BeginLinkage(i) \/ Checkout(i) \/ FailLinkage(i)
      PROVE  /\ Undelivered'
             /\ \A j \in Jobs : j \in dispatched => events'[j] = events[j] /\ j \in dispatched'
  <2>1. UNCHANGED <<events, dispatched>>
    BY <1>3 DEF BeginLinkage, Checkout, FailLinkage
  <2>2. (i \in dispatched => link'[i] # "dispatch") /\ \A j \in Jobs : j # i => link'[j] = link[j]
    BY <1>3 DEF BeginLinkage, Checkout, FailLinkage, TypeOK
  <2> QED BY <2>1, <2>2 DEF Undelivered
<1>4. ASSUME UNCHANGED <<link, events, dispatched>>
      PROVE  /\ Undelivered'
             /\ \A j \in Jobs : j \in dispatched => events'[j] = events[j] /\ j \in dispatched'
  BY <1>4 DEF Undelivered
<1>5. ASSUME NEW i \in Jobs, Publish(i) \/ Fail(i) \/ FilesChange(i)
      PROVE  UNCHANGED <<link, events, dispatched>>
  BY <1>5 DEF Publish, ResolvePlan, BuildBundle, CheckExisting, CreateTags, PushTags, UpsertRelease,
     UploadAsset, Fail, FilesChange
<1>6. CASE BranchAdvances
  BY <1>4, <1>6 DEF BranchAdvances
<1>7. CASE UNCHANGED vars
  BY <1>4, <1>7 DEF vars
<1> QED BY <1>1, <1>2, <1>3, <1>4, <1>5, <1>6, <1>7 DEF Next, Linkage

\* For any jobs and any number of reruns, with and without new clones: a recorded
\* dispatch is never sent again.
THEOREM DeliveredOnce == Spec => NoRedelivery
<1>1. Init => Undelivered
  BY DEF Init, Undelivered
<1>2. TypeOK /\ Undelivered /\ [Next]_vars => Undelivered'
  BY DeliveryStep
<1>3. TypeOK /\ Undelivered /\ [Next]_vars
        => [\A j \in Jobs : j \in dispatched => events'[j] = events[j] /\ j \in dispatched']_vars
  BY DeliveryStep
<1> QED BY <1>1, <1>2, <1>3, TypeCorrect, PTL DEF Spec, NoRedelivery
=============================================================================
