------------------------- MODULE VerificationTools -------------------------
(***************************************************************************)
(* RepositoryVerificationTools: how one verifier of a job comes to its     *)
(* verdict. model-schemas runs code of the pull request under a helper and *)
(* believes a receipt; actionlint is downloaded, checked and kept in a     *)
(* cache that outlives a run that died; the secret scan reads a file in    *)
(* chunks; the others are a command or a comparison. A byte of the file is *)
(* its position; SecretSize is what the shortest match of a pattern needs. *)
(***************************************************************************)
EXTENDS Integers

CONSTANTS FileSize, Chunk, Overlap, SecretSize, NoSecret, MaxDeaths

ASSUME ToolsAssumption ==
  /\ {FileSize, MaxDeaths} \subseteq Nat
  /\ {Chunk, Overlap, SecretSize} \subseteq Nat \ {0}
  /\ SecretSize <= Overlap + 1
  /\ NoSecret \notin Nat

VARIABLES
  tool,     \* the verifier that runs: its name, where it is, its verdict
  cache,    \* .ard/tools: the archive and the binary of actionlint
  helper,   \* the trusted model schema helper on disk: "trusted" or "changed"
  secret,   \* where a secret begins in the file that is scanned, or NoSecret
  from, to, \* the bytes of content: the overlap and the chunk that was read last
  deaths
toolVars == <<tool, cache, helper, secret, from, to, deaths>>

Commands == {"pytest", "ruff"}
Comparisons == {"schemas", "wheel", "ossie-checksum"}
Verifiers == Commands \cup Comparisons \cup {"model-schemas", "actionlint", "secret-scan"}

At(place) == tool.at = place
Goto(place) == tool' = [tool EXCEPT !.at = place]
Verdict(v) == tool' = [tool EXCEPT !.at = "ended", !.verdict = v]

Scanned == UNCHANGED <<secret, from, to>>

StartTool(name) ==
  /\ tool.at \in {"none", "ended"}
  /\ tool' = [name |-> name, verdict |-> "none", ran |-> "nothing",
              at |-> CASE name = "actionlint" -> "manifest" [] name = "model-schemas" -> "candidate"
                       [] name = "secret-scan" -> "scan" [] name \in Commands -> "command"
                       [] name \in Comparisons -> "compare"]
  /\ IF name = "secret-scan"
       THEN /\ secret' \in {NoSecret} \cup {s \in 0..FileSize : s + SecretSize <= FileSize}
            /\ from' = 0 /\ to' = 0
       ELSE Scanned
  /\ UNCHANGED <<cache, helper, deaths>>

\* _command: the command cannot be run, ends with an error, or well.
RunCommand ==
  /\ At("command")
  /\ \E v \in {"success", "failure"} : Verdict(v)
  /\ UNCHANGED <<cache, helper, deaths>> /\ Scanned

\* The checked-in schemas and the catalog of models, the assets of the wheel that was
\* built and the tree, the vendored schema and its checksum: they agree or do not.
Compare ==
  /\ At("compare")
  /\ \E v \in {"success", "failure"} : Verdict(v)
  /\ UNCHANGED <<cache, helper, deaths>> /\ Scanned

\* The helper runs code of the candidate: it may end well or not, leave the receipt of
\* this run, another one or none, and change the helper itself.
RunCandidate ==
  /\ At("candidate")
  /\ \E ends \in BOOLEAN, receipt \in {"complete", "other"} :
       tool' = [tool EXCEPT !.at = IF ends THEN "receipt" ELSE "failed", !.ran = receipt]
  /\ helper' \in {helper, "changed"}
  /\ UNCHANGED <<cache, deaths>> /\ Scanned

\* finally: the digest of the helper is what it was before, else the run is refused; a
\* command that ended well also left exactly the receipt of its nonce and catalog.
RequireReceipt ==
  /\ tool.at \in {"receipt", "failed"}
  /\ Verdict(IF helper = "trusted" /\ At("receipt") /\ tool.ran = "complete"
               THEN "success" ELSE "failure")
  /\ UNCHANGED <<cache, helper, deaths>> /\ Scanned

\* _download ends, or raises.
Download(next) == Goto(next) \/ Verdict("failure")

\* The manifest is downloaded by every run.
FetchManifest ==
  /\ At("manifest")
  /\ Download("digest")
  /\ UNCHANGED <<cache, helper, deaths>> /\ Scanned

\* _manifest_digest: the archive has exactly one well-formed line, or the run ends.
ReadDigest ==
  /\ At("digest")
  /\ Goto("archive") \/ Verdict("failure")
  /\ UNCHANGED <<cache, helper, deaths>> /\ Scanned

\* Mutant: an archive that is there is not compared with the manifest.
RefreshArchive_Trusts ==
  /\ At("archive")
  /\ \/ /\ cache.archive = "absent"
        /\ cache' = [cache EXCEPT !.archive = "pinned"] /\ Goto("unpack")
     \/ cache.archive # "absent" /\ Goto("unpack") /\ UNCHANGED cache
  /\ UNCHANGED <<helper, deaths>> /\ Scanned

\* An archive with another digest is replaced by what the server sends.
RefreshArchive ==
  /\ At("archive")
  /\ \/ cache.archive = "pinned" /\ Goto("unpack") /\ UNCHANGED cache
     \/ /\ cache.archive # "pinned"
        /\ \/ /\ cache' = [cache EXCEPT !.archive = "pinned"] /\ Goto("unpack")
           \/ /\ cache' = [cache EXCEPT !.archive = "other"] /\ Verdict("failure")
           \/ Verdict("failure") /\ UNCHANGED cache
  /\ UNCHANGED <<helper, deaths>> /\ Scanned

\* _actionlint_binary: the archive holds one file of that name, or the run ends.
Unpack ==
  /\ At("unpack")
  /\ Goto("extract") \/ Verdict("failure")
  /\ UNCHANGED <<cache, helper, deaths>> /\ Scanned

\* A binary that differs from the one in the archive is written again.
ExtractBinary ==
  /\ At("extract")
  /\ IF cache.binary = cache.archive
       THEN Goto("run") /\ UNCHANGED cache
       ELSE cache' = [cache EXCEPT !.binary = cache.archive] /\ Goto("chmod")
  /\ UNCHANGED <<helper, deaths>> /\ Scanned

\* chmod follows a write only.
MakeExecutable ==
  /\ At("chmod")
  /\ cache' = [cache EXCEPT !.executable = TRUE] /\ Goto("run")
  /\ UNCHANGED <<helper, deaths>> /\ Scanned

RunActionlint ==
  /\ At("run")
  /\ \E v \in {"success", "failure"} :
       /\ v = "success" => cache.executable
       /\ tool' = [tool EXCEPT !.at = "ended", !.verdict = v, !.ran = cache.binary]
  /\ UNCHANGED <<cache, helper, deaths>> /\ Scanned

\* The file is read up to its end; the patterns are searched in overlap and chunk.
Found == secret # NoSecret /\ from <= secret /\ secret + SecretSize <= to

\* Mutant: the overlap is what is left of the chunk itself.
ReadChunk_NoOverlap(n) ==
  /\ At("scan") /\ ~Found /\ to < FileSize
  /\ to' = IF to + n < FileSize THEN to + n ELSE FileSize
  /\ from' = to
  /\ UNCHANGED <<tool, cache, helper, secret, deaths>>

\* content = overlap + chunk; overlap = content[-Overlap:]. A read may be short.
ReadChunk(n) ==
  /\ At("scan") /\ ~Found /\ to < FileSize
  /\ to' = IF to + n < FileSize THEN to + n ELSE FileSize
  /\ from' = IF to - from > Overlap THEN to - Overlap ELSE from
  /\ UNCHANGED <<tool, cache, helper, secret, deaths>>

EndScan ==
  /\ At("scan") /\ (Found \/ to = FileSize)
  /\ Verdict(IF Found THEN "failure" ELSE "success")
  /\ UNCHANGED <<cache, helper, deaths>> /\ Scanned

\* The job dies; a file it was writing is there in part, a new one is not executable.
DieInTool ==
  /\ tool.at \notin {"none", "ended"} /\ deaths < MaxDeaths
  /\ deaths' = deaths + 1
  /\ Verdict("died")
  /\ \/ UNCHANGED cache
     \/ At("archive") /\ cache.archive # "pinned" /\ cache' = [cache EXCEPT !.archive = "partial"]
     \/ At("extract") /\ cache.binary # cache.archive /\ cache' = [cache EXCEPT !.binary = "partial"]
  /\ UNCHANGED helper /\ Scanned

ToolsInit ==
  /\ tool = [name |-> "none", at |-> "none", verdict |-> "none", ran |-> "nothing"]
  /\ cache = [archive |-> "absent", binary |-> "absent", executable |-> FALSE]
  /\ helper = "trusted"
  /\ secret = NoSecret /\ from = 0 /\ to = 0
  /\ deaths = 0

ToolsNext ==
  \/ \E name \in Verifiers : StartTool(name)
  \/ \E n \in 1..Chunk : ReadChunk(n)
  \/ RunCommand \/ Compare \/ RunCandidate \/ RequireReceipt
  \/ FetchManifest \/ ReadDigest \/ RefreshArchive \/ Unpack \/ ExtractBinary \/ MakeExecutable \/ RunActionlint
  \/ EndScan \/ DieInTool

ToolsSpec == ToolsInit /\ [][ToolsNext]_toolVars

(***************************************************************************)
(* Properties                                                              *)
(***************************************************************************)
\* A file passes the secret scan only without a secret, wherever the reads cut it.
NoSecretSlipsThrough ==
  tool.name = "secret-scan" /\ tool.verdict = "success" => secret = NoSecret

\* Whatever a run that died left in the cache, only the binary of the pinned archive
\* gives a verdict on the workflows.
PinnedIsRun ==
  tool.name = "actionlint" /\ tool.verdict = "success" => tool.ran = "pinned"

\* A verifier that keeps state of its own, the window of a scan or the cache of a tool,
\* says success only of what it was to verify and with what it was to use.
VerdictsAreEarned == NoSecretSlipsThrough /\ PinnedIsRun
==============================================================================
