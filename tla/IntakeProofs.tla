---------------------------- MODULE IntakeProofs ----------------------------
(***************************************************************************)
(* Proofs about Intake, for any issues, requests and number of mishaps,    *)
(* about the runner of its commands, for any sizes, and about the calls of *)
(* the model, for any providers, conversation and limits.                  *)
(*                                                                         *)
(* The invariant of Intake says of every commit that a run or the branch   *)
(* holds what it is worth (Known), and of every run what its place implies *)
(* (RunInv); both are about values, so that a step of somebody else keeps  *)
(* them. That of the runner says what a reader has kept and what its       *)
(* caller has waited for, that of the calls what the service remembers of  *)
(* the answers it got.                                                     *)
(***************************************************************************)
EXTENDS Intake, SubprocessRunner, LLM, SequenceLemmas, TLAPS

RunFields    == {"pc", "job", "ok", "req", "base", "expected", "pr", "head", "local"}
CommitFields == {"config", "manifest", "sources", "marker", "touched", "base", "over", "n", "by"}
ConfigFields == {"op", "pid", "version", "description", "base"}

Configs == [op : {"create", "update"}, pid : Ids, version : Nat \ {0},
            description : Descriptions, base : Nat]
Manifests == [issue : {"first", "another"}, pid : Ids, version : Nat, sources : Sources]

Merges ==
  [config : Configs \cup {None}, manifest : Manifests \cup {None}, sources : Sources \cup {None}]

VersionAt(m, k) == IF m[k].config = None THEN 0 ELSE m[k].config.version

(* The history m of the default branch: a config that changes gets a later *)
(* version, and every update was made for an earlier one than its own.     *)
History(m) ==
  /\ m \in Seq(Merges) /\ Len(m) > 0
  /\ \A k \in 1..Len(m) : m[k].config # None => m[k].config.base < m[k].config.version
  /\ \A k, l \in 1..Len(m) :
       k <= l => m[k].config = m[l].config \/ VersionAt(m, k) < VersionAt(m, l)

(* A commit whose config starts from the version its base has was prepared *)
(* over that version, and so was every commit the processor made.          *)
Seen(m, c) ==
  c.config.op = "update" /\ (c.config.base = VersionAt(m, c.base) \/ c.by = "processor")
    => c.over = VersionAt(m, c.base)

Known(m, c) ==
  /\ DOMAIN c = CommitFields
  /\ c.config # None => DOMAIN c.config = ConfigFields
  /\ c.touched \subseteq OtherPaths
  /\ c.base \in 1..Len(m)
  /\ Seen(m, c)

(* What HandoverIsApproved says of a handed over commit.                   *)
Approved(i, req, c) ==
  /\ c.sources = req.sources
  /\ c.manifest.issue = i /\ c.manifest.sources = req.sources /\ c.manifest.version = req.version
  /\ c.config.op = req.op /\ c.config.version = req.version /\ c.config.pid = c.manifest.pid
  /\ req.pid # None => c.config.pid = req.pid
  /\ req.description # None => c.config.description = req.description

\* c loses nothing of b but outputs, which it can be made of again.
KeepsWork(b, c) == b.touched \ {"own"} \subseteq c.touched /\ c.marker = b.marker

Clean(base, c) == c.base = base /\ c.touched = {}

SyncPlaces   == {"sync", "merge", "recheck", "syncpush", "verify"}
IntakePlaces == {"route", "intake", "prepare", "push", "open"}

\* The places where a run holds a commit it has made and not handed over yet.
HoldsResult == {"push", "open", "recheck", "syncpush", "verify"}

RunInv(m, i, r) ==
  /\ DOMAIN r = RunFields
  /\ r.job \in {"none", "route", "intake", "sync", "process"}
  /\ r.pc # "idle" \/ ~r.ok => r.req \in Requests /\ r.req.issue = i /\ r.base \in 1..Len(m)
  /\ r.head # None => Known(m, r.head)
  /\ r.pc \in IntakePlaces => r.job \in {"route", "intake"}
  /\ r.pc \in SyncPlaces => r.job = "sync"
  /\ r.pc = "process" => r.job = "process"
  /\ r.job \in {"none", "route", "intake"} => r.pr = 0
  /\ r.pc = "merge" => Known(m, r.head) /\ r.head.touched \subseteq {"own"}
  /\ r.pc \in HoldsResult => Known(m, r.head) /\ Known(m, r.local) /\ KeepsWork(r.head, r.local)
  /\ r.pc \in HoldsResult \/ r.job = "process" => Known(m, r.local) /\ Approved(i, r.req, r.local)
  /\ r.pc \in HoldsResult \cap SyncPlaces \/ (r.job = "process" /\ r.pr # 0) => Clean(r.base, r.local)

\* From the first push on there is a branch.
Begun == branch # None \/ pr.open \/ \E i \in Issues : run[i].pc = "open"

IntakeInv ==
  /\ History(main)
  /\ Begun => Known(main, branch)
  /\ DOMAIN run = Issues
  /\ \A i \in Issues : RunInv(main, i, run[i])

-----------------------------------------------------------------------------
(* Commits *)

LEMMA VersionOfMain == \A k : MergedVersion(k) = VersionAt(main, k)
BY DEF MergedVersion, VersionAt

LEMMA CommittedFields ==
  ASSUME NEW c, DOMAIN c = CommitFields, NEW by
  PROVE  /\ DOMAIN Committed(c, by) = CommitFields /\ Committed(c, by).by = by
         /\ \A f \in CommitFields \ {"n", "by"} : Committed(c, by)[f] = c[f]
BY DEF Committed, CommitFields

LEMMA CommittedIsKnown ==
  ASSUME NEW m, NEW c, Known(m, c), NEW by, by # "processor"
  PROVE  /\ Known(m, Committed(c, by)) /\ KeepsWork(c, Committed(c, by))
         /\ \A f \in CommitFields \ {"n", "by"} : Committed(c, by)[f] = c[f]
<1> DEFINE d == Committed(c, by)
<1>1. DOMAIN d = CommitFields /\ d.by = by /\ \A f \in CommitFields \ {"n", "by"} : d[f] = c[f]
  BY CommittedFields DEF Known
<1>2. /\ d.config = c.config /\ d.touched = c.touched /\ d.base = c.base
      /\ d.over = c.over /\ d.marker = c.marker
  BY <1>1 DEF CommitFields
<1> HIDE DEF d
<1>3. Known(m, d)
  BY <1>1, <1>2 DEF Known, Seen
<1> QED BY <1>1, <1>2, <1>3 DEF d, KeepsWork

LEMMA PreparedFields ==
  ASSUME NEW c, DOMAIN c = CommitFields, NEW req, NEW id
  PROVE  LET d == Prepared(req, c, id) IN
         /\ DOMAIN d = CommitFields
         /\ d.config = [op |-> req.op, pid |-> id, version |-> req.version,
                        description |-> KeptDescription(req, c), base |-> BaseVersion(req, c)]
         /\ d.manifest = [issue |-> req.issue, pid |-> id, version |-> req.version,
                          sources |-> req.sources]
         /\ d.sources = req.sources /\ d.over = MergedVersion(c.base)
         /\ d.touched = c.touched /\ d.marker = c.marker /\ d.base = c.base /\ d.by = c.by
BY DEF Prepared, CommitFields

\* What prepare_issue_event makes is what the issue asks for, over the version of its base.
LEMMA PreparedIsKnown ==
  ASSUME NEW c, Known(main, c), NEW req \in Requests, NEW id \in PreparedIds(req)
  PROVE  LET d == Prepared(req, c, id) IN
         Known(main, d) /\ KeepsWork(c, d) /\ Approved(req.issue, req, d) /\ d.base = c.base
                        /\ d.touched = c.touched
<1> DEFINE d == Prepared(req, c, id)
<1>1. DOMAIN c = CommitFields
  BY DEF Known
<1>2. /\ DOMAIN d = CommitFields
      /\ d.config = [op |-> req.op, pid |-> id, version |-> req.version,
                     description |-> KeptDescription(req, c), base |-> BaseVersion(req, c)]
      /\ d.manifest = [issue |-> req.issue, pid |-> id, version |-> req.version,
                       sources |-> req.sources]
      /\ d.sources = req.sources /\ d.over = VersionAt(main, c.base)
      /\ d.touched = c.touched /\ d.marker = c.marker /\ d.base = c.base
  BY <1>1, PreparedFields, VersionOfMain
<1> HIDE DEF d
<1>3. req.pid # None => id = req.pid
  BY DEF PreparedIds
<1>4. req.description # None => KeptDescription(req, c) = req.description
  BY DEF KeptDescription
<1>5. Known(main, d)
  <2>1. DOMAIN d.config = ConfigFields
    BY <1>2 DEF ConfigFields
  <2> QED BY <1>2, <2>1 DEF Known, Seen
<1>6. Approved(req.issue, req, d)
  BY <1>2, <1>3, <1>4 DEF Approved
<1> QED BY <1>2, <1>5, <1>6 DEF d, KeepsWork

LEMMA MatchIsApproved ==
  ASSUME NEW req, NEW c, MatchesIssue(req, c)
  PROVE  Approved(req.issue, req, c)
BY DEF MatchesIssue, Approved

\* A branch that is new holds the product of its base, which was made for an earlier
\* version, or nothing.
LEMMA FreshIsKnown ==
  ASSUME History(main), NEW k \in 1..Len(main)
  PROVE  Known(main, Fresh(k))
<1> DEFINE c == Fresh(k)
<1>1. /\ DOMAIN c = CommitFields /\ c.config = main[k].config /\ c.touched = {}
      /\ c.base = k /\ c.over = 0 /\ c.by = None
  BY DEF Fresh, CommitFields
<1> HIDE DEF c
<1>2. main[k] \in Merges
  BY DEF History
<1>3. main[k].config # None =>
        /\ main[k].config \in Configs /\ main[k].config.base < main[k].config.version
        /\ main[k].config.base \in Nat /\ main[k].config.version \in Nat
  BY <1>2 DEF Merges, Configs, History
<1>4. c.config # None => DOMAIN c.config = ConfigFields
  BY <1>1, <1>3 DEF Configs, ConfigFields
<1>5. Seen(main, c)
  BY <1>1, <1>3, IntakeAssumption DEF Seen, VersionAt
<1> QED BY <1>1, <1>4, <1>5 DEF Known, c
-----------------------------------------------------------------------------
(* Base synchronisation *)

LEMMA MergedFields ==
  ASSUME NEW c, Known(main, c), NEW k \in 1..Len(main)
  PROVE  LET d == Merged(c, k) IN
         /\ DOMAIN d = CommitFields
         /\ d.touched = c.touched /\ d.marker = c.marker /\ d.over = c.over /\ d.base = k
         /\ d.by = "processor" => d = c /\ c.base = k
         /\ d.by = c.by \/ d.by = "merge"
<1>1. CASE c.base = k
  BY <1>1 DEF Merged, Known
<1>2. CASE c.base # k
  <2> DEFINE e == Committed(c, "merge")
  <2>1. /\ DOMAIN e = CommitFields /\ e.by = "merge"
        /\ e.touched = c.touched /\ e.marker = c.marker /\ e.over = c.over
    BY CommittedFields DEF Known, CommitFields
  <2>2. \E x, y, z : Merged(c, k) = [e EXCEPT !.base = k, !.config = x, !.manifest = y, !.sources = z]
    BY <1>2 DEF Merged
  <2> HIDE DEF e
  <2> QED BY <2>1, <2>2 DEF CommitFields
<1> QED BY <1>1, <1>2

\* The intake of a synchronised head is still one that started from the version of its
\* base, or will be refused: main changed the config too, and then git saw a conflict.
LEMMA RestoredIsSeen ==
  ASSUME History(main), NEW c, Known(main, c), c.config # None, ~Conflicts(c, Len(main)),
         NEW d, d.config = c.config, d.over = c.over, d.base = Len(main),
         d.by = "processor" => c.by = "processor" /\ c.base = Len(main)
  PROVE  Seen(main, d)
<1> DEFINE k == Len(main)
           h == c.base
<1>1. k \in 1..Len(main) /\ h \in 1..Len(main) /\ h <= k /\ k \in Nat
  BY DEF History, Known
<1>2. CASE h = k
  BY <1>2 DEF Known, Seen
<1>3. CASE h # k
  <2>1. \/ c.config = main[h].config \/ main[k].config = main[h].config
        \/ c.config = main[k].config
    BY DEF Conflicts, IntakeFields
  <2>2. \A l \in 1..Len(main) : main[l] \in Merges
    BY DEF History
  <2>3. \A l \in 1..Len(main) : main[l].config # None =>
          /\ main[l].config.base \in Nat /\ main[l].config.version \in Nat
          /\ main[l].config.base < VersionAt(main, l)
    BY <2>2 DEF Merges, Configs, History, VersionAt
  <2>4. VersionAt(main, h) \in Nat /\ VersionAt(main, k) \in Nat
    BY <1>1, <2>3 DEF VersionAt
  <2>5. main[h].config = main[k].config \/ VersionAt(main, h) < VersionAt(main, k)
    BY <1>1 DEF History
  <2>6. CASE main[k].config = main[h].config
    <3>1. VersionAt(main, h) = VersionAt(main, k)
      BY <2>6 DEF VersionAt
    <3> QED BY <1>3, <3>1 DEF Known, Seen
  <2>7. CASE c.config = main[h].config
    <3>1. c.config.base < VersionAt(main, h) /\ c.config.base \in Nat
      BY <1>1, <2>3, <2>7
    <3>2. main[h].config = main[k].config => VersionAt(main, h) = VersionAt(main, k)
      BY DEF VersionAt
    <3>3. c.config.base # VersionAt(main, k)
      BY <2>4, <2>5, <3>1, <3>2
    <3> QED BY <1>3, <3>3 DEF Seen
  <2>8. CASE c.config = main[k].config
    <3>1. c.config.base < VersionAt(main, k) /\ c.config.base \in Nat
      BY <1>1, <2>3, <2>8
    <3>2. c.config.base # VersionAt(main, k)
      BY <2>4, <3>1
    <3> QED BY <1>3, <3>2 DEF Seen
  <2> QED BY <2>1, <2>6, <2>7, <2>8
<1> QED BY <1>2, <1>3

LEMMA SynchronisedFields ==
  ASSUME NEW i \in Issues, Known(main, run[i].head), run[i].base \in 1..Len(main)
  PROVE  LET c == run[i].head
             d == Synchronised(i) IN
         /\ DOMAIN d = CommitFields
         /\ d.config = c.config /\ d.marker = c.marker /\ d.over = c.over
         /\ d.base = run[i].base /\ d.touched = {}
         /\ d.by = "processor" => c.by = "processor" /\ c.base = run[i].base
<1> DEFINE c == run[i].head
           m == Merged(c, run[i].base)
           kept == [m EXCEPT !.config = c.config, !.manifest = c.manifest, !.sources = c.sources]
           preserved == IF kept = m THEN m ELSE Committed(kept, i)
           reset == ResetOutputs(preserved)
           d == IF reset = preserved THEN preserved ELSE Committed(reset, i)
           Worth(x) == /\ DOMAIN x = CommitFields
                       /\ x.config = c.config /\ x.marker = c.marker /\ x.over = c.over
                       /\ x.base = run[i].base
                       /\ x.by = "processor" => c.by = "processor" /\ c.base = run[i].base
<1>0. i # "processor"
  BY IntakeAssumption
<1>1. d = Synchronised(i)
  BY DEF Synchronised, Run
<1>2. /\ DOMAIN m = CommitFields /\ m.marker = c.marker /\ m.over = c.over /\ m.base = run[i].base
      /\ m.by = "processor" => c.by = "processor" /\ c.base = run[i].base
  BY MergedFields
<1> HIDE DEF c, m
<1>3. Worth(kept)
  BY <1>2 DEF CommitFields
<1> HIDE DEF kept
<1>4. ASSUME NEW x, Worth(x) PROVE Worth(Committed(x, i)) /\ Committed(x, i).touched = x.touched
  BY <1>0, <1>4, CommittedFields DEF CommitFields
<1>5. Worth(preserved)
  BY <1>3, <1>4
<1> HIDE DEF preserved
<1>6. Worth(reset) /\ reset.touched = {}
  BY <1>5 DEF ResetOutputs, CommitFields
<1> HIDE DEF reset
<1>7. Worth(d) /\ d.touched = {}
  BY <1>4, <1>5, <1>6
<1> HIDE DEF d
<1> QED BY <1>1, <1>7 DEF c

LEMMA MarkerOnlyIsUntouched ==
  ASSUME NEW c, Known(main, c), MarkerOnly(c)
  PROVE  c.touched = {}
BY DEF Known, MarkerOnly, ChangedPaths, OtherPaths

\* What is pushed after a synchronisation is what the issue asks for, on the base the
\* run was approved on, with no output left, and nothing of others is lost.
LEMMA ResultIsKnown ==
  ASSUME History(main), NEW i \in Issues, RunInv(main, i, run[i]), At(i, "merge"), CanMerge(i)
  PROVE  LET d == Result(i) IN
         /\ Known(main, d) /\ KeepsWork(run[i].head, d)
         /\ Approved(i, run[i].req, d) /\ Clean(run[i].base, d)
<1> DEFINE c == run[i].head
           req == run[i].req
           k == run[i].base
<1>1. /\ Known(main, c) /\ c.touched \subseteq {"own"} /\ req \in Requests /\ req.issue = i
      /\ k \in 1..Len(main) /\ k = Len(main)
  BY DEF RunInv, At, CanMerge, Unmoved, Run
<1>2. ~Conflicts(c, k) /\ MatchesIssue(req, Result(i))
  BY DEF CanMerge, Run
<1>3. Approved(i, req, Result(i))
  BY <1>1, <1>2, MatchIsApproved
<1>4. CASE MarkerOnly(c)
  <2> DEFINE m == Merged(c, k)
             made == Prepared(req, m, req.pid)
  <2>1. Result(i) = IF made = m THEN m ELSE Committed(made, i)
    BY <1>4 DEF Result, Populated, Run
  <2>2. /\ DOMAIN m = CommitFields /\ m.touched = {} /\ m.marker = c.marker /\ m.base = k
    BY <1>1, <1>4, MergedFields, MarkerOnlyIsUntouched
  <2> HIDE DEF m
  <2>3. /\ DOMAIN made = CommitFields
        /\ made.config = [op |-> req.op, pid |-> req.pid, version |-> req.version,
                          description |-> KeptDescription(req, m), base |-> BaseVersion(req, m)]
        /\ made.over = VersionAt(main, k) /\ made.touched = {}
        /\ made.marker = c.marker /\ made.base = k
    <3> HIDE DEF c, req, k
    <3>1. /\ DOMAIN made = CommitFields
          /\ made.config = [op |-> req.op, pid |-> req.pid, version |-> req.version,
                            description |-> KeptDescription(req, m), base |-> BaseVersion(req, m)]
          /\ made.over = MergedVersion(m.base)
          /\ made.touched = m.touched /\ made.marker = m.marker /\ made.base = m.base
      BY <2>2 DEF Prepared, CommitFields
    <3> HIDE DEF made
    <3> QED BY <2>2, <3>1, VersionOfMain
  <2> HIDE DEF made
  <2>4. Known(main, made)
    <3>1. DOMAIN made.config = ConfigFields
      BY <2>3 DEF ConfigFields
    <3> QED BY <1>1, <2>3, <3>1 DEF Known, Seen
  <2>5. Known(main, Result(i)) /\ Result(i).touched = {} /\ Result(i).marker = c.marker /\ Result(i).base = k
    <3>1. CASE made = m
      BY <2>1, <2>3, <2>4, <3>1
    <3>2. CASE made # m
      <4>1. i # "processor"
        BY IntakeAssumption
      <4>2. /\ Known(main, Committed(made, i))
            /\ \A f \in CommitFields \ {"n", "by"} : Committed(made, i)[f] = made[f]
        BY <2>4, <4>1, CommittedIsKnown
      <4> QED BY <2>1, <2>3, <3>2, <4>2 DEF CommitFields
    <3> QED BY <3>1, <3>2
  <2>6. KeepsWork(c, Result(i))
    BY <1>1, <2>5 DEF KeepsWork
  <2> QED BY <1>3, <2>5, <2>6 DEF Clean
<1>5. CASE ~MarkerOnly(c)
  <2> DEFINE d == Synchronised(i)
  <2>1. Result(i) = d
    BY <1>5 DEF Result, Run
  <2>2. /\ DOMAIN d = CommitFields
        /\ d.config = c.config /\ d.marker = c.marker /\ d.over = c.over
        /\ d.base = k /\ d.touched = {}
        /\ d.by = "processor" => c.by = "processor" /\ c.base = k
    BY <1>1, SynchronisedFields
  <2>3. c.config # None
    BY <1>2, <2>1, <2>2 DEF MatchesIssue
  <2> HIDE DEF d
  <2>4. Seen(main, d)
    BY <1>1, <1>2, <2>2, <2>3, RestoredIsSeen
  <2>5. Known(main, d)
    BY <1>1, <2>2, <2>4 DEF Known
  <2>6. KeepsWork(c, d)
    BY <1>1, <2>2 DEF KeepsWork
  <2> QED BY <1>3, <2>1, <2>2, <2>5, <2>6 DEF Clean
<1> QED BY <1>4, <1>5
-----------------------------------------------------------------------------
(* Steps of a run *)

\* Step changes the named fields of one run and nothing else of any run.
LEMMA StepShape ==
  ASSUME IntakeInv, NEW i \in Issues, NEW ch, Step(i, ch)
  PROVE  /\ DOMAIN run' = Issues /\ \A j \in Issues \ {i} : run'[j] = run[j]
         /\ DOMAIN run'[i] = RunFields
         /\ \A f \in RunFields : run'[i][f] = IF f \in DOMAIN ch THEN ch[f] ELSE run[i][f]
<1>1. DOMAIN run = Issues /\ DOMAIN run[i] = RunFields
  BY DEF IntakeInv, RunInv
<1> QED BY <1>1 DEF Step

\* A run that ends, well or not, keeps what it handed over.
LEMMA EndedRun ==
  ASSUME NEW m, NEW i, NEW r, RunInv(m, i, r), r.pc # "idle",
         NEW s, DOMAIN s = RunFields, s.pc \in {"finalize", "idle"},
         \A f \in RunFields \ {"pc", "ok"} : s[f] = r[f]
  PROVE  RunInv(m, i, s)
<1>1. /\ s.job = r.job /\ s.req = r.req /\ s.base = r.base /\ s.pr = r.pr
      /\ s.head = r.head /\ s.local = r.local
  BY DEF RunFields
<1> QED BY <1>1 DEF RunInv, IntakePlaces, SyncPlaces, HoldsResult

LEMMA FailedRun ==
  ASSUME IntakeInv, NEW i \in Issues, run[i].pc # "idle", Fail(i)
  PROVE  RunInv(main, i, run'[i]) /\ run'[i].pc = "finalize"
<1> DEFINE ch == [pc |-> "finalize", ok |-> FALSE]
<1>1. /\ DOMAIN run'[i] = RunFields
      /\ \A f \in RunFields : run'[i][f] = IF f \in DOMAIN ch THEN ch[f] ELSE run[i][f]
  BY StepShape DEF Fail
<1>2. run'[i].pc = "finalize" /\ \A f \in RunFields \ {"pc", "ok"} : run'[i][f] = run[i][f]
  BY <1>1 DEF RunFields
<1> QED BY <1>1, <1>2, EndedRun DEF IntakeInv

\* A run goes on to another place with what it has.
LEMMA GoneRun ==
  ASSUME IntakeInv, NEW i \in Issues, NEW place, Go(i, place)
  PROVE  /\ DOMAIN run'[i] = RunFields /\ run'[i].pc = place
         /\ run'[i].job = run[i].job /\ run'[i].ok = run[i].ok /\ run'[i].req = run[i].req
         /\ run'[i].base = run[i].base /\ run'[i].pr = run[i].pr
         /\ run'[i].head = run[i].head /\ run'[i].local = run[i].local
<1> DEFINE ch == [pc |-> place]
<1>1. /\ DOMAIN run'[i] = RunFields
      /\ \A f \in RunFields : run'[i][f] = IF f \in DOMAIN ch THEN ch[f] ELSE run[i][f]
  BY StepShape DEF Go
<1>2. run'[i].pc = place /\ \A f \in RunFields \ {"pc"} : run'[i][f] = run[i][f]
  BY <1>1 DEF RunFields
<1> QED BY <1>1, <1>2 DEF RunFields

LEMMA OneRunSteps ==
  ASSUME IntakeInv, NEW i \in Issues, NEW ch, Step(i, ch), main' = main, RunInv(main, i, run'[i]),
         Known(main, branch') \/ (branch' = branch /\ pr' = pr /\ run'[i].pc # "open")
  PROVE  IntakeInv'
<1>1. DOMAIN run' = Issues /\ \A j \in Issues \ {i} : run'[j] = run[j]
  BY StepShape
<1>2. \A j \in Issues : RunInv(main, j, run'[j])
  BY <1>1 DEF IntakeInv
<1>3. Begun' => Known(main, branch')
  BY <1>1 DEF IntakeInv, Begun
<1> QED BY <1>1, <1>2, <1>3 DEF IntakeInv

\* A push of a run puts what it holds on the branch, over what it was made from.
LEMMA PushedBranch ==
  ASSUME IntakeInv, NEW i \in Issues, run[i].pc \in {"push", "syncpush"}, Pushes(i)
  PROVE  /\ Known(main, branch') \/ (branch' = branch /\ ~FastForward(i))
         /\ branch # None => KeepsWork(branch, branch')
<1>1. RunInv(main, i, run[i])
  BY DEF IntakeInv
<1>2. Known(main, run[i].local) /\ KeepsWork(run[i].head, run[i].local)
  BY <1>1 DEF RunInv, HoldsResult
<1>3. CASE FastForward(i)
  <2>1. branch' = run[i].local
    BY <1>3 DEF Pushes, Run
  <2>2. branch # None => branch = run[i].head \/ branch = run[i].local
    BY <1>3 DEF FastForward, Run
  <2> QED BY <1>2, <2>1, <2>2 DEF KeepsWork
<1>4. CASE ~FastForward(i)
  BY <1>4 DEF Pushes, KeepsWork
<1> QED BY <1>3, <1>4

LEMMA ApproveStep ==
  ASSUME IntakeInv, NEW i \in Issues, NEW req \in Requests, req.issue = i, Approve(i, req)
  PROVE  IntakeInv'
<1> DEFINE ch == [NoRun EXCEPT !.pc = "route", !.job = "route", !.req = req, !.base = Len(main)]
<1>1. Step(i, ch) /\ main' = main /\ branch' = branch /\ pr' = pr
  BY DEF Approve
<1>2. /\ DOMAIN ch = RunFields /\ ch.pc = "route" /\ ch.job = "route" /\ ch.req = req
      /\ ch.base = Len(main) /\ ch.head = None /\ ch.pr = 0
  BY DEF NoRun, RunFields
<1> HIDE DEF ch
<1>3. /\ DOMAIN run'[i] = RunFields
      /\ \A f \in RunFields : run'[i][f] = IF f \in DOMAIN ch THEN ch[f] ELSE run[i][f]
  BY <1>1, StepShape
<1>4. /\ run'[i].pc = "route" /\ run'[i].job = "route" /\ run'[i].req = req
      /\ run'[i].base = Len(main) /\ run'[i].head = None /\ run'[i].pr = 0
  BY <1>2, <1>3 DEF RunFields
<1>5. Len(main) \in 1..Len(main)
  BY DEF IntakeInv, History
<1>6. RunInv(main, i, run'[i])
  BY <1>3, <1>4, <1>5 DEF RunInv, IntakePlaces, SyncPlaces, HoldsResult
<1> QED BY <1>1, <1>4, <1>6, OneRunSteps

LEMMA RerunStep ==
  ASSUME IntakeInv, NEW i \in Issues, Rerun(i)
  PROVE  IntakeInv'
<1> DEFINE ch == [pc |-> run[i].job, ok |-> TRUE, head |-> None,
                  local |-> IF run[i].job = "process" THEN run[i].local ELSE None]
<1>1. Step(i, ch) /\ main' = main /\ branch' = branch /\ pr' = pr /\ ~run[i].ok /\ run[i].pc = "idle"
  BY DEF Rerun, Run, At
<1>2. /\ DOMAIN run'[i] = RunFields
      /\ \A f \in RunFields : run'[i][f] = IF f \in DOMAIN ch THEN ch[f] ELSE run[i][f]
  BY <1>1, StepShape
<1>3. /\ run'[i].pc = run[i].job /\ run'[i].job = run[i].job /\ run'[i].req = run[i].req
      /\ run'[i].base = run[i].base /\ run'[i].head = None /\ run'[i].pr = run[i].pr
      /\ run[i].job = "process" => run'[i].local = run[i].local
  BY <1>2 DEF RunFields
<1>4. RunInv(main, i, run[i])
  BY DEF IntakeInv
<1>5. RunInv(main, i, run'[i])
  BY <1>1, <1>2, <1>3, <1>4 DEF RunInv, IntakePlaces, SyncPlaces, HoldsResult
<1>6. run'[i].pc # "open"
  BY <1>3, <1>4 DEF RunInv
<1> HIDE DEF ch
<1> QED BY <1>1, <1>5, <1>6, OneRunSteps

LEMMA RouteStep ==
  ASSUME IntakeInv, NEW i \in Issues, Route(i)
  PROVE  IntakeInv'
<1>1. /\ run[i].pc = "route" /\ main' = main /\ branch' = branch /\ pr' = pr
      /\ \/ Fail(i) \/ Step(i, [pc |-> "sync", job |-> "sync", expected |-> branch])
         \/ Step(i, [pc |-> "intake", job |-> "intake"])
  BY DEF Route, At
<1>2. RunInv(main, i, run[i])
  BY DEF IntakeInv
<1>3. CASE Fail(i)
  BY <1>1, <1>3, FailedRun, OneRunSteps DEF Fail
<1>4. CASE Step(i, [pc |-> "sync", job |-> "sync", expected |-> branch])
  <2> DEFINE ch == [pc |-> "sync", job |-> "sync", expected |-> branch]
  <2>1. /\ DOMAIN run'[i] = RunFields
        /\ \A f \in RunFields : run'[i][f] = IF f \in DOMAIN ch THEN ch[f] ELSE run[i][f]
    BY <1>4, StepShape
  <2>2. /\ run'[i].pc = "sync" /\ run'[i].job = "sync" /\ run'[i].req = run[i].req
        /\ run'[i].base = run[i].base /\ run'[i].head = run[i].head /\ run'[i].pr = run[i].pr
    BY <2>1 DEF RunFields
  <2>3. RunInv(main, i, run'[i])
    BY <1>1, <1>2, <2>1, <2>2 DEF RunInv, IntakePlaces, SyncPlaces, HoldsResult
  <2> QED BY <1>1, <1>4, <2>2, <2>3, OneRunSteps
<1>5. CASE Step(i, [pc |-> "intake", job |-> "intake"])
  <2> DEFINE ch == [pc |-> "intake", job |-> "intake"]
  <2>1. /\ DOMAIN run'[i] = RunFields
        /\ \A f \in RunFields : run'[i][f] = IF f \in DOMAIN ch THEN ch[f] ELSE run[i][f]
    BY <1>5, StepShape
  <2>2. /\ run'[i].pc = "intake" /\ run'[i].job = "intake" /\ run'[i].req = run[i].req
        /\ run'[i].base = run[i].base /\ run'[i].head = run[i].head /\ run'[i].pr = run[i].pr
    BY <2>1 DEF RunFields
  <2>3. RunInv(main, i, run'[i])
    BY <1>1, <1>2, <2>1, <2>2 DEF RunInv, IntakePlaces, SyncPlaces, HoldsResult
  <2> QED BY <1>1, <1>5, <2>2, <2>3, OneRunSteps
<1> QED BY <1>1, <1>3, <1>4, <1>5
LEMMA IntakeExistingStep ==
  ASSUME IntakeInv, NEW i \in Issues, IntakeExisting(i)
  PROVE  IntakeInv'
<1>1. run[i].pc = "intake" /\ main' = main /\ branch' = branch /\ pr' = pr
  BY DEF IntakeExisting, At
<1>2. RunInv(main, i, run[i]) /\ (Begun => Known(main, branch))
  BY DEF IntakeInv
<1>3. CASE Fail(i)
  BY <1>1, <1>3, FailedRun, OneRunSteps DEF Fail
<1>4. CASE pr.open /\ Step(i, [pc |-> "prepare", head |-> branch])
  <2> DEFINE ch == [pc |-> "prepare", head |-> branch]
  <2>1. /\ DOMAIN run'[i] = RunFields
        /\ \A f \in RunFields : run'[i][f] = IF f \in DOMAIN ch THEN ch[f] ELSE run[i][f]
    BY <1>4, StepShape
  <2>2. /\ run'[i].pc = "prepare" /\ run'[i].job = run[i].job /\ run'[i].req = run[i].req
        /\ run'[i].base = run[i].base /\ run'[i].head = branch /\ run'[i].pr = run[i].pr
    BY <2>1 DEF RunFields
  <2>3. Known(main, branch)
    BY <1>2, <1>4 DEF Begun
  <2>4. RunInv(main, i, run'[i])
    BY <1>1, <1>2, <2>1, <2>2, <2>3 DEF RunInv, IntakePlaces, SyncPlaces, HoldsResult
  <2> QED BY <1>1, <1>4, <2>2, <2>4, OneRunSteps
<1>5. CASE /\ MatchesIssue(run[i].req, branch)
           /\ Step(i, [pc |-> "process", job |-> "process", local |-> branch])
  <2> DEFINE ch == [pc |-> "process", job |-> "process", local |-> branch]
  <2>1. /\ DOMAIN run'[i] = RunFields
        /\ \A f \in RunFields : run'[i][f] = IF f \in DOMAIN ch THEN ch[f] ELSE run[i][f]
    BY <1>5, StepShape
  <2>2. /\ run'[i].pc = "process" /\ run'[i].job = "process" /\ run'[i].req = run[i].req
        /\ run'[i].base = run[i].base /\ run'[i].head = run[i].head /\ run'[i].pr = run[i].pr
        /\ run'[i].local = branch
    BY <2>1 DEF RunFields
  <2>3. /\ run[i].req \in Requests /\ run[i].req.issue = i /\ run[i].base \in 1..Len(main)
        /\ run[i].pr = 0
    BY <1>1, <1>2 DEF RunInv, IntakePlaces
  <2>4. Approved(i, run[i].req, branch)
    BY <1>5, <2>3, MatchIsApproved
  <2>5. Known(main, branch)
    BY <1>2 DEF IntakeExisting, Begun
  <2>6. RunInv(main, i, run'[i])
    BY <1>2, <2>1, <2>2, <2>3, <2>4, <2>5 DEF RunInv, IntakePlaces, SyncPlaces, HoldsResult
  <2> QED BY <1>1, <1>5, <2>2, <2>6, OneRunSteps
<1> QED BY <1>3, <1>4, <1>5 DEF IntakeExisting, Run

LEMMA IntakeNewStep ==
  ASSUME IntakeInv, NEW i \in Issues, IntakeNew(i)
  PROVE  IntakeInv'
<1>1. run[i].pc = "intake" /\ main' = main /\ branch' = branch /\ pr' = pr /\ Go(i, "prepare")
  BY DEF IntakeNew, At
<1>2. RunInv(main, i, run[i])
  BY DEF IntakeInv
<1>3. RunInv(main, i, run'[i])
  BY <1>1, <1>2, GoneRun DEF RunInv, IntakePlaces, SyncPlaces, HoldsResult
<1> QED BY <1>1, <1>3, GoneRun, OneRunSteps DEF Go

\* The commit a run makes is approved and keeps what it was made from.
LEMMA PrepareStep ==
  ASSUME IntakeInv, NEW i \in Issues, Prepare(i)
  PROVE  IntakeInv'
<1> DEFINE from == Switched(i)
           req == run[i].req
<1>1. run[i].pc = "prepare" /\ main' = main /\ branch' = branch /\ pr' = pr
  BY DEF Prepare, At
<1>2. RunInv(main, i, run[i]) /\ (Begun => Known(main, branch)) /\ History(main)
  BY DEF IntakeInv
<1>3. req \in Requests /\ req.issue = i /\ run[i].base \in 1..Len(main) /\ i # "processor"
  BY <1>1, <1>2, IntakeAssumption DEF RunInv
<1>4. Known(main, from)
  <2>0. branch # None => Known(main, branch)
    BY <1>2 DEF Begun
  <2>1. run[i].head # None => Known(main, run[i].head)
    BY <1>2 DEF RunInv
  <2> QED BY <1>2, <1>3, <2>0, <2>1, FreshIsKnown DEF Switched, Run
<1>5. CASE Fail(i)
  BY <1>1, <1>5, FailedRun, OneRunSteps DEF Fail
<1>6. ASSUME NEW id \in PreparedIds(req),
             Step(i, [pc |-> "push", head |-> from,
                      local |-> IF Prepared(req, from, id) = from THEN from
                                ELSE Committed(Prepared(req, from, id), i)])
      PROVE  IntakeInv'
  <2> DEFINE made == Prepared(req, from, id)
             local == IF made = from THEN from ELSE Committed(made, i)
             ch == [pc |-> "push", head |-> from, local |-> local]
  <2> HIDE DEF from, req
  <2>1. Known(main, made) /\ KeepsWork(from, made) /\ Approved(i, req, made)
    BY <1>3, <1>4, PreparedIsKnown
  <2> HIDE DEF made
  <2>2. Known(main, local) /\ KeepsWork(from, local) /\ Approved(i, req, local)
    <3>1. CASE made = from
      BY <2>1, <3>1
    <3>2. CASE made # from
      <4>1. /\ Known(main, Committed(made, i))
            /\ \A f \in CommitFields \ {"n", "by"} : Committed(made, i)[f] = made[f]
        BY <1>3, <2>1, CommittedIsKnown
      <4>2. /\ Committed(made, i).config = made.config /\ Committed(made, i).manifest = made.manifest
            /\ Committed(made, i).sources = made.sources /\ Committed(made, i).touched = made.touched
            /\ Committed(made, i).marker = made.marker
        BY <4>1 DEF CommitFields
      <4> QED BY <2>1, <3>2, <4>1, <4>2 DEF KeepsWork, Approved
    <3> QED BY <3>1, <3>2
  <2>3. Step(i, ch)
    BY <1>6 DEF made, req
  <2> HIDE DEF local
  <2>4. /\ DOMAIN run'[i] = RunFields
        /\ \A f \in RunFields : run'[i][f] = IF f \in DOMAIN ch THEN ch[f] ELSE run[i][f]
    BY <2>3, StepShape
  <2>5. /\ run'[i].pc = "push" /\ run'[i].job = run[i].job /\ run'[i].req = run[i].req
        /\ run'[i].base = run[i].base /\ run'[i].head = from /\ run'[i].pr = run[i].pr
        /\ run'[i].local = local
    BY <2>4 DEF RunFields
  <2>6. RunInv(main, i, run'[i])
    BY <1>1, <1>2, <1>3, <1>4, <2>2, <2>4, <2>5
       DEF RunInv, IntakePlaces, SyncPlaces, HoldsResult, req
  <2> QED BY <1>1, <1>2, <2>3, <2>5, <2>6, OneRunSteps
<1> QED BY <1>5, <1>6 DEF Prepare, Run

LEMMA PushStep ==
  ASSUME IntakeInv, NEW i \in Issues, Push(i) \/ SyncPush(i)
  PROVE  IntakeInv'
<1>1. /\ main' = main /\ pr' = pr /\ Pushes(i)
      /\ \/ run[i].pc = "push" /\ ((Go(i, "open") /\ FastForward(i)) \/ Fail(i))
         \/ run[i].pc = "syncpush" /\ ((Go(i, "verify") /\ FastForward(i)) \/ Fail(i))
  BY DEF Push, SyncPush, At
<1>2. RunInv(main, i, run[i])
  BY DEF IntakeInv
<1>3. Known(main, branch') \/ (branch' = branch /\ ~FastForward(i))
  BY <1>1, PushedBranch
<1>4. CASE Fail(i)
  BY <1>1, <1>3, <1>4, FailedRun, OneRunSteps DEF Fail
<1>5. CASE run[i].pc = "push" /\ Go(i, "open") /\ FastForward(i)
  <2>1. RunInv(main, i, run'[i])
    BY <1>2, <1>5, GoneRun DEF RunInv, IntakePlaces, SyncPlaces, HoldsResult
  <2> QED BY <1>1, <1>3, <1>5, <2>1, OneRunSteps DEF Go
<1>6. CASE run[i].pc = "syncpush" /\ Go(i, "verify") /\ FastForward(i)
  <2>1. RunInv(main, i, run'[i])
    BY <1>2, <1>6, GoneRun DEF RunInv, IntakePlaces, SyncPlaces, HoldsResult
  <2> QED BY <1>1, <1>3, <1>6, <2>1, OneRunSteps DEF Go
<1> QED BY <1>1, <1>4, <1>5, <1>6

\* The two places from which a run hands over what it holds.
LEMMA HandoverStep ==
  ASSUME IntakeInv, NEW i \in Issues, OpenPullRequest(i) \/ Verify(i)
  PROVE  IntakeInv'
<1> DEFINE ch == [pc |-> "process", job |-> "process"]
<1>1. /\ main' = main /\ branch' = branch /\ run[i].pc \in {"open", "verify"}
      /\ run[i].pc = "open" \/ pr' = pr
      /\ Fail(i) \/ Step(i, ch)
  BY DEF OpenPullRequest, Verify, At
<1>2. RunInv(main, i, run[i]) /\ (run[i].pc = "open" => Known(main, branch'))
  BY <1>1 DEF IntakeInv, Begun
<1>3. CASE Fail(i)
  BY <1>1, <1>2, <1>3, FailedRun, OneRunSteps DEF Fail
<1>4. CASE Step(i, ch)
  <2>1. /\ DOMAIN run'[i] = RunFields
        /\ \A f \in RunFields : run'[i][f] = IF f \in DOMAIN ch THEN ch[f] ELSE run[i][f]
    BY <1>4, StepShape
  <2>2. /\ run'[i].pc = "process" /\ run'[i].job = "process" /\ run'[i].req = run[i].req
        /\ run'[i].base = run[i].base /\ run'[i].head = run[i].head /\ run'[i].pr = run[i].pr
        /\ run'[i].local = run[i].local
    BY <2>1 DEF RunFields
  <2>3. RunInv(main, i, run'[i])
    BY <1>1, <1>2, <2>1, <2>2 DEF RunInv, IntakePlaces, SyncPlaces, HoldsResult
  <2> HIDE DEF ch
  <2> QED BY <1>1, <1>2, <1>4, <2>2, <2>3, OneRunSteps
<1> QED BY <1>1, <1>3, <1>4

\* What will be restored over the merge holds nothing but intake and own outputs.
LEMMA SyncStep ==
  ASSUME IntakeInv, NEW i \in Issues, Sync(i)
  PROVE  IntakeInv'
<1> DEFINE ch == [pc |-> "merge", pr |-> pr.number, head |-> branch]
<1>1. /\ main' = main /\ branch' = branch /\ pr' = pr /\ run[i].pc = "sync"
      /\ Fail(i) \/ (Step(i, ch) /\ (MarkerOnly(branch) \/ OnlyOwnOutputs(branch))
                                 /\ pr.open)
  BY DEF Sync, At, Run, Unmoved
<1>2. RunInv(main, i, run[i]) /\ (Begun => Known(main, branch))
  BY DEF IntakeInv
<1>3. CASE Fail(i)
  BY <1>1, <1>3, FailedRun, OneRunSteps DEF Fail
<1>4. CASE Step(i, ch) /\ (MarkerOnly(branch) \/ OnlyOwnOutputs(branch)) /\ pr.open
  <2>1. /\ DOMAIN run'[i] = RunFields
        /\ \A f \in RunFields : run'[i][f] = IF f \in DOMAIN ch THEN ch[f] ELSE run[i][f]
    BY <1>4, StepShape
  <2>2. /\ run'[i].pc = "merge" /\ run'[i].job = run[i].job /\ run'[i].req = run[i].req
        /\ run'[i].base = run[i].base /\ run'[i].head = branch
    BY <2>1 DEF RunFields
  <2>3. Known(main, branch) /\ branch.touched \subseteq {"own"}
    BY <1>2, <1>4, MarkerOnlyIsUntouched DEF OnlyOwnOutputs, Begun
  <2>4. RunInv(main, i, run'[i])
    BY <1>1, <1>2, <2>1, <2>2, <2>3 DEF RunInv, IntakePlaces, SyncPlaces, HoldsResult
  <2> HIDE DEF ch
  <2> QED BY <1>1, <1>4, <2>2, <2>4, OneRunSteps
<1> QED BY <1>1, <1>3, <1>4
LEMMA MergeStep ==
  ASSUME IntakeInv, NEW i \in Issues, Merge(i)
  PROVE  IntakeInv'
<1> DEFINE ch == [pc |-> "recheck", local |-> Result(i)]
<1>1. /\ main' = main /\ branch' = branch /\ pr' = pr /\ run[i].pc = "merge"
      /\ Fail(i) \/ (Step(i, ch) /\ CanMerge(i))
  BY DEF Merge, At
<1>2. RunInv(main, i, run[i]) /\ History(main)
  BY DEF IntakeInv
<1>3. CASE Fail(i)
  BY <1>1, <1>3, FailedRun, OneRunSteps DEF Fail
<1>4. CASE Step(i, ch) /\ CanMerge(i)
  <2>1. /\ Known(main, Result(i)) /\ KeepsWork(run[i].head, Result(i))
        /\ Approved(i, run[i].req, Result(i)) /\ Clean(run[i].base, Result(i))
    BY <1>1, <1>2, <1>4, ResultIsKnown DEF At
  <2>2. /\ DOMAIN run'[i] = RunFields
        /\ \A f \in RunFields : run'[i][f] = IF f \in DOMAIN ch THEN ch[f] ELSE run[i][f]
    BY <1>4, StepShape
  <2>3. /\ run'[i].pc = "recheck" /\ run'[i].job = run[i].job /\ run'[i].req = run[i].req
        /\ run'[i].base = run[i].base /\ run'[i].head = run[i].head /\ run'[i].pr = run[i].pr
        /\ run'[i].local = Result(i)
    BY <2>2 DEF RunFields
  <2>4. RunInv(main, i, run'[i])
    BY <1>1, <1>2, <2>1, <2>2, <2>3 DEF RunInv, IntakePlaces, SyncPlaces, HoldsResult
  <2> HIDE DEF ch
  <2> QED BY <1>1, <1>4, <2>3, <2>4, OneRunSteps
<1> QED BY <1>1, <1>3, <1>4

LEMMA RecheckStep ==
  ASSUME IntakeInv, NEW i \in Issues, Recheck(i)
  PROVE  IntakeInv'
<1>1. /\ run[i].pc = "recheck" /\ main' = main /\ branch' = branch /\ pr' = pr
      /\ Go(i, "syncpush") \/ Fail(i)
  BY DEF Recheck, At
<1>2. RunInv(main, i, run[i])
  BY DEF IntakeInv
<1>3. CASE Fail(i)
  BY <1>1, <1>3, FailedRun, OneRunSteps DEF Fail
<1>4. CASE Go(i, "syncpush")
  <2>1. RunInv(main, i, run'[i])
    BY <1>1, <1>2, <1>4, GoneRun DEF RunInv, IntakePlaces, SyncPlaces, HoldsResult
  <2> QED BY <1>1, <1>4, <2>1, GoneRun, OneRunSteps DEF Go
<1> QED BY <1>1, <1>3, <1>4

\* What the processor commits was accepted by plan_version: it starts from the version of
\* its base, and so was prepared over it.
LEMMA ProcessedIsKnown ==
  ASSUME Known(main, branch), PassesVersions(branch), "own" \notin branch.touched
  PROVE  LET d == Committed([branch EXCEPT !.touched = @ \cup {"own"}], "processor") IN
         Known(main, d) /\ d.touched = branch.touched \cup {"own"} /\ d.marker = branch.marker
<1> DEFINE c == [branch EXCEPT !.touched = @ \cup {"own"}]
           d == Committed(c, "processor")
<1>1. DOMAIN branch = CommitFields
  BY DEF Known
<1>2. /\ DOMAIN c = CommitFields /\ c.touched = branch.touched \cup {"own"}
      /\ \A f \in CommitFields \ {"touched"} : c[f] = branch[f]
  BY <1>1 DEF CommitFields
<1> HIDE DEF c
<1>3. /\ DOMAIN d = CommitFields /\ d.touched = branch.touched \cup {"own"}
      /\ d.marker = branch.marker /\ d.config = branch.config /\ d.base = branch.base
      /\ d.over = branch.over
  BY <1>2, CommittedFields DEF CommitFields
<1> HIDE DEF d
<1>4. branch.config.op = "update" => branch.config.base = VersionAt(main, branch.base)
  BY VersionOfMain DEF PassesVersions
<1>5. Seen(main, d)
  BY <1>3, <1>4 DEF Known, Seen
<1>6. Known(main, d)
  BY <1>3, <1>5 DEF Known, OtherPaths
<1> QED BY <1>3, <1>6 DEF c, d

LEMMA ProcessingStep ==
  ASSUME IntakeInv, NEW i \in Issues, Process(i)
  PROVE  IntakeInv'
<1>1. /\ run[i].pc = "process" /\ main' = main /\ pr' = pr
      /\ \/ Fail(i) /\ branch' = branch
         \/ /\ pr.open /\ PassesVersions(branch) /\ Go(i, "finalize")
            /\ branch' = IF "own" \in branch.touched THEN branch
                         ELSE Committed([branch EXCEPT !.touched = @ \cup {"own"}], "processor")
  BY DEF Process, At
<1>2. RunInv(main, i, run[i])
  BY DEF IntakeInv
<1>3. CASE Fail(i) /\ branch' = branch
  BY <1>1, <1>3, FailedRun, OneRunSteps DEF Fail
<1>4. CASE ~(Fail(i) /\ branch' = branch)
  <2>1. Known(main, branch)
    BY <1>1, <1>4 DEF IntakeInv, Begun
  <2>2. Known(main, branch')
    BY <1>1, <1>4, <2>1, ProcessedIsKnown
  <2>3. RunInv(main, i, run'[i])
    BY <1>1, <1>2, <1>4, GoneRun DEF RunInv, IntakePlaces, SyncPlaces, HoldsResult
  <2>4. Go(i, "finalize")
    BY <1>1, <1>4
  <2> QED BY <1>1, <2>2, <2>3, <2>4, OneRunSteps DEF Go
<1> QED BY <1>3, <1>4

LEMMA FinalizeStep ==
  ASSUME IntakeInv, NEW i \in Issues, Finalize(i)
  PROVE  IntakeInv'
<1>1. run[i].pc = "finalize" /\ main' = main /\ branch' = branch /\ pr' = pr /\ Go(i, "idle")
  BY DEF Finalize, At
<1>2. RunInv(main, i, run[i])
  BY DEF IntakeInv
<1>3. RunInv(main, i, run'[i])
  BY <1>1, <1>2, GoneRun DEF RunInv, IntakePlaces, SyncPlaces, HoldsResult
<1> QED BY <1>1, <1>3, GoneRun, OneRunSteps DEF Go

LEMMA CallFailsStep ==
  ASSUME IntakeInv, NEW i \in Issues, CallFails(i)
  PROVE  IntakeInv'
<1>1. /\ run[i].pc # "idle" /\ main' = main /\ Fail(i)
      /\ \/ branch' = branch /\ pr' = pr
         \/ run[i].pc \in {"push", "syncpush"} /\ Pushes(i) /\ pr' = pr
         \/ run[i].pc = "open" /\ branch' = branch
  BY DEF CallFails, At
<1>2. Known(main, branch') \/ (branch' = branch /\ pr' = pr)
  BY <1>1, PushedBranch DEF IntakeInv, Begun
<1> QED BY <1>1, <1>2, FailedRun, OneRunSteps DEF Fail

-----------------------------------------------------------------------------
(* Steps of everybody else *)

LEMMA OnlyTheBranch ==
  ASSUME IntakeInv, run' = run, main' = main,
         Known(main, branch') \/ (branch' = branch /\ (pr'.open => pr.open))
  PROVE  IntakeInv'
BY DEF IntakeInv, Begun

LEMMA TrackStep ==
  ASSUME IntakeInv, Track
  PROVE  IntakeInv'
<1>1. run' = run /\ main' = main
  BY DEF Track
<1>2. CASE branch = None /\ branch' = [Fresh(Len(main)) EXCEPT !.marker = "required", !.n = 1]
  <2> DEFINE c == Fresh(Len(main))
  <2>1. Known(main, c)
    BY FreshIsKnown DEF IntakeInv, History
  <2> HIDE DEF c
  <2>2. /\ DOMAIN branch' = CommitFields
        /\ \A f \in CommitFields \ {"marker", "n"} : branch'[f] = c[f]
    BY <1>2, <2>1 DEF Known, CommitFields, c
  <2>3. /\ branch'.config = c.config /\ branch'.touched = c.touched /\ branch'.base = c.base
        /\ branch'.over = c.over /\ branch'.by = c.by
    BY <2>2 DEF CommitFields
  <2>4. Known(main, branch')
    BY <2>1, <2>2, <2>3 DEF Known, Seen
  <2> QED BY <1>1, <2>4, OnlyTheBranch
<1>3. CASE branch # None /\ branch' = branch
  BY <1>1, <1>3, OnlyTheBranch DEF IntakeInv, Begun
<1> QED BY <1>2, <1>3 DEF Track

\* An edit that keeps what the config says of its version loses nothing.
LEMMA EditedIsKnown ==
  ASSUME Known(main, branch), NEW c, DOMAIN c = CommitFields,
         c.config # None => DOMAIN c.config = ConfigFields,
         c.config.op = branch.config.op, c.config.base = branch.config.base,
         branch.touched \subseteq c.touched, c.touched \subseteq OtherPaths,
         branch.marker # "none" => c.marker # "none",
         c.base = branch.base, c.over = branch.over, c.by = branch.by
  PROVE  LET d == Committed(c, "person") IN
         Known(main, d) /\ branch.touched \subseteq d.touched
                        /\ (branch.marker # "none" => d.marker # "none")
<1> DEFINE d == Committed(c, "person")
<1>1. Known(main, c)
  BY DEF Known, Seen
<1>2. Known(main, d) /\ d.touched = c.touched /\ d.marker = c.marker
  BY <1>1, CommittedIsKnown DEF CommitFields
<1> HIDE DEF d
<1> QED BY <1>2 DEF d

LEMMA PersonPushesStep ==
  ASSUME IntakeInv, PersonPushes
  PROVE  /\ IntakeInv' /\ branch.touched \subseteq branch'.touched
         /\ branch.marker # "none" => branch'.marker # "none"
<1> DEFINE Goal == /\ Known(main, branch') /\ branch.touched \subseteq branch'.touched
                   /\ branch.marker # "none" => branch'.marker # "none"
<1>1. run' = run /\ main' = main /\ Known(main, branch)
  BY DEF PersonPushes, IntakeInv, Begun
<1>2. DOMAIN branch = CommitFields /\ (branch.config # None => DOMAIN branch.config = ConfigFields)
  BY <1>1 DEF Known
<1>3. ASSUME NEW s, branch' = Committed([branch EXCEPT !.sources = s], "person")
      PROVE  Goal
  <2> DEFINE c == [branch EXCEPT !.sources = s]
  <2>1. /\ DOMAIN c = CommitFields /\ c.config = branch.config /\ c.touched = branch.touched
        /\ c.base = branch.base /\ c.over = branch.over /\ c.by = branch.by
        /\ c.marker = branch.marker
    BY <1>2 DEF CommitFields
  <2>2. branch' = Committed(c, "person")
    BY <1>3
  <2> HIDE DEF c
  <2> QED BY <1>1, <1>2, <2>1, <2>2, EditedIsKnown DEF Known
<1>4. ASSUME NEW d, branch.config # None,
             branch' = Committed([branch EXCEPT !.config.description = d], "person")
      PROVE  Goal
  <2> DEFINE c == [branch EXCEPT !.config.description = d]
  <2>1. /\ DOMAIN c = CommitFields /\ c.config = [branch.config EXCEPT !.description = d]
        /\ c.touched = branch.touched
        /\ c.base = branch.base /\ c.over = branch.over /\ c.by = branch.by
        /\ c.marker = branch.marker
    BY <1>2 DEF CommitFields
  <2>2. branch' = Committed(c, "person")
    BY <1>4
  <2> HIDE DEF c
  <2>3. /\ DOMAIN c.config = ConfigFields /\ c.config.op = branch.config.op
        /\ c.config.base = branch.config.base
    BY <1>2, <1>4, <2>1 DEF ConfigFields
  <2> QED BY <1>1, <2>1, <2>2, <2>3, EditedIsKnown DEF Known
<1>5. ASSUME branch' = Committed([branch EXCEPT !.marker = "other"], "person")
      PROVE  Goal
  <2> DEFINE c == [branch EXCEPT !.marker = "other"]
  <2>1. /\ DOMAIN c = CommitFields /\ c.config = branch.config /\ c.touched = branch.touched
        /\ c.base = branch.base /\ c.over = branch.over /\ c.by = branch.by
        /\ c.marker = "other"
    BY <1>2 DEF CommitFields
  <2>2. branch' = Committed(c, "person")
    BY <1>5
  <2> HIDE DEF c
  <2> QED BY <1>1, <1>2, <2>1, <2>2, EditedIsKnown DEF Known
<1>6. ASSUME NEW t \in OtherPaths,
             branch' = Committed([branch EXCEPT !.touched = @ \cup {t}], "person")
      PROVE  Goal
  <2> DEFINE c == [branch EXCEPT !.touched = @ \cup {t}]
  <2>1. /\ DOMAIN c = CommitFields /\ c.config = branch.config
        /\ c.touched = branch.touched \cup {t}
        /\ c.base = branch.base /\ c.over = branch.over /\ c.by = branch.by
        /\ c.marker = branch.marker
    BY <1>2 DEF CommitFields
  <2>2. branch' = Committed(c, "person")
    BY <1>6
  <2> HIDE DEF c
  <2> QED BY <1>1, <1>2, <2>1, <2>2, EditedIsKnown DEF Known
<1>7. Goal
  <2> HIDE DEF Goal
  <2> QED BY <1>3, <1>4, <1>5, <1>6 DEF PersonPushes
<1> QED BY <1>1, <1>7, OnlyTheBranch

\* What is known of a commit and of a run stays so when the default branch grows.
LEMMA KnownGrows ==
  ASSUME NEW m, History(m), NEW x, NEW c, Known(m, c)
  PROVE  Known(Append(m, x), c)
<1>1. c.base \in 1..Len(Append(m, x)) /\ Append(m, x)[c.base] = m[c.base]
  BY DEF History, Known
<1>2. VersionAt(Append(m, x), c.base) = VersionAt(m, c.base)
  BY <1>1 DEF VersionAt
<1> QED BY <1>1, <1>2 DEF Known, Seen

LEMMA RunGrows ==
  ASSUME NEW m, History(m), NEW x, NEW i, NEW r, RunInv(m, i, r)
  PROVE  RunInv(Append(m, x), i, r)
<1>1. \A k \in 1..Len(m) : k \in 1..Len(Append(m, x))
  BY DEF History
<1>2. \A c : Known(m, c) => Known(Append(m, x), c)
  BY KnownGrows
<1> HIDE DEF History
<1> QED BY <1>1, <1>2 DEF RunInv

LEMMA HistoryGrows ==
  ASSUME NEW m, History(m), NEW x \in Merges,
         x.config # None => x.config.base < x.config.version,
         \/ x.config = m[Len(m)].config
         \/ x.config # None /\ VersionAt(m, Len(m)) < x.config.version
  PROVE  History(Append(m, x))
<1> DEFINE n == Append(m, x)
<1>1. n \in Seq(Merges) /\ Len(n) = Len(m) + 1 /\ Len(m) \in Nat /\ Len(m) > 0
  BY DEF History
<1>2. n[Len(m) + 1] = x /\ \A k \in 1..Len(m) : n[k] = m[k]
  BY DEF History
<1> HIDE DEF n
<1>3. \A k \in 1..Len(m) : VersionAt(n, k) = VersionAt(m, k)
  BY <1>2 DEF VersionAt
<1>4. \A k \in 1..Len(n) : n[k].config # None => n[k].config.base < n[k].config.version
  BY <1>1, <1>2 DEF History
<1>5. \A k \in 1..Len(m) : m[k].config = m[Len(m)].config \/ VersionAt(m, k) < VersionAt(m, Len(m))
  BY <1>1 DEF History
<1>6. \A k \in 1..Len(m) : VersionAt(m, k) \in Nat
  <2>1. \A k \in 1..Len(m) : m[k] \in Merges
    BY DEF History
  <2> QED BY <2>1 DEF VersionAt, Merges, Configs
<1>7. VersionAt(n, Len(m) + 1) = IF x.config = None THEN 0 ELSE x.config.version
  BY <1>2 DEF VersionAt
<1>8. x.config # None => x.config.version \in Nat
  BY DEF Merges, Configs
<1>9. ASSUME NEW k \in 1..Len(m)
      PROVE  n[k].config = x.config \/ VersionAt(n, k) < VersionAt(n, Len(m) + 1)
  <2>1. CASE x.config = m[Len(m)].config
    <3>1. VersionAt(n, Len(m) + 1) = VersionAt(m, Len(m))
      BY <1>7, <2>1 DEF VersionAt
    <3> QED BY <1>2, <1>3, <1>5, <2>1, <3>1
  <2>2. CASE x.config # None /\ VersionAt(m, Len(m)) < x.config.version
    <3>1. VersionAt(m, k) = VersionAt(m, Len(m)) \/ VersionAt(m, k) < VersionAt(m, Len(m))
      BY <1>5 DEF VersionAt
    <3>2. VersionAt(m, k) \in Nat /\ VersionAt(m, Len(m)) \in Nat
      BY <1>1, <1>6
    <3> QED BY <1>3, <1>7, <1>8, <2>2, <3>1, <3>2
  <2> QED BY <2>1, <2>2
<1>10. ASSUME NEW k \in 1..Len(n), NEW l \in 1..Len(n), k <= l
       PROVE  n[k].config = n[l].config \/ VersionAt(n, k) < VersionAt(n, l)
  <2>1. CASE l = Len(m) + 1 /\ k = l
    BY <2>1
  <2>2. CASE l = Len(m) + 1 /\ k # l
    BY <1>1, <1>2, <1>9, <1>10, <2>2
  <2>3. CASE l # Len(m) + 1
    <3>1. k \in 1..Len(m) /\ l \in 1..Len(m)
      BY <1>1, <1>10, <2>3
    <3> QED BY <1>2, <1>3, <1>10, <3>1 DEF History
  <2> QED BY <2>1, <2>2, <2>3
<1> QED BY <1>1, <1>4, <1>10 DEF History, n

LEMMA LaterConfig ==
  ASSUME NEW c \in Configs, NEW h,
         h = [c EXCEPT !.op = "update", !.version = @ + 1, !.base = c.version]
  PROVE  h \in Configs /\ h.base = c.version /\ h.version = c.version + 1 /\ c.version \in Nat
<1>1. /\ c.pid \in Ids /\ c.version \in Nat \ {0} /\ c.description \in Descriptions
      /\ DOMAIN c = ConfigFields
  BY DEF Configs, ConfigFields
<1>2. h = [op |-> "update", pid |-> c.pid, version |-> c.version + 1,
           description |-> c.description, base |-> c.version]
  BY <1>1 DEF ConfigFields
<1>3. c.version + 1 \in Nat \ {0} /\ c.version \in Nat
  BY <1>1
<1>4. h \in Configs
  BY <1>1, <1>2, <1>3 DEF Configs
<1> QED BY <1>2, <1>3, <1>4

Replaces(now, s, g, x) ==
  \/ x = [now EXCEPT !.sources = s, !.config = g]
  \/ \E f \in Manifests : x = [now EXCEPT !.sources = s, !.config = g, !.manifest = f]

LEMMA LaterMerge ==
  ASSUME NEW now \in Merges, NEW g \in Configs, NEW s \in Sources, NEW x, Replaces(now, s, g, x)
  PROVE  x \in Merges /\ x.config = g
<1>1. DOMAIN now = {"config", "manifest", "sources"} /\ now.manifest \in Manifests \cup {None}
  BY DEF Merges
<1>2. PICK f \in Manifests \cup {None} : x = [config |-> g, manifest |-> f, sources |-> s]
  <2>1. CASE x = [now EXCEPT !.sources = s, !.config = g]
    <3>1. x = [config |-> g, manifest |-> now.manifest, sources |-> s]
      BY <1>1, <2>1
    <3> QED BY <1>1, <3>1
  <2>2. ASSUME NEW f \in Manifests, x = [now EXCEPT !.sources = s, !.config = g, !.manifest = f]
        PROVE  x = [config |-> g, manifest |-> f, sources |-> s]
    BY <1>1, <2>2
  <2> QED BY <2>1, <2>2 DEF Replaces
<1> QED BY <1>2 DEF Merges

LEMMA MainMovesStep ==
  ASSUME IntakeInv, MainMoves
  PROVE  IntakeInv'
<1> DEFINE now == main[Len(main)]
           next == [now.config EXCEPT !.op = "update", !.version = @ + 1, !.base = now.config.version]
<1>1. History(main) /\ Len(main) \in Nat /\ Len(main) > 0 /\ now \in Merges
  BY DEF IntakeInv, History
<1>2. run' = run /\ branch' = branch /\ pr' = pr
  BY DEF MainMoves
<1>3. now.config # None => now.config \in Configs /\ VersionAt(main, Len(main)) = now.config.version
  BY <1>1 DEF Merges, VersionAt
<1>4. /\ \A n : n = next /\ now.config # None =>
             /\ n \in Configs /\ n # None /\ n.base < n.version
             /\ VersionAt(main, Len(main)) < n.version
  <2> SUFFICES ASSUME NEW n, n = next, now.config # None
               PROVE  /\ n \in Configs /\ n # None /\ n.base < n.version
                      /\ VersionAt(main, Len(main)) < n.version
    OBVIOUS
  <2>1. now.config \in Configs
    BY <1>3
  <2>2. n \in Configs /\ n.base = now.config.version /\ n.version = now.config.version + 1
        /\ now.config.version \in Nat
    <3> DEFINE c == now.config
    <3> HIDE DEF c
    <3>1. c \in Configs /\ n = [c EXCEPT !.op = "update", !.version = @ + 1, !.base = c.version]
      BY <2>1 DEF c
    <3>2. n \in Configs /\ n.base = c.version /\ n.version = c.version + 1 /\ c.version \in Nat
      BY <3>1, LaterConfig
    <3> QED BY <3>2 DEF c
  <2>3. None \notin Configs
    BY IntakeAssumption DEF Configs
  <2> QED BY <1>3, <2>2, <2>3
<1> DEFINE Fits(x) ==
      /\ x \in Merges
      /\ x.config # None => x.config.base < x.config.version
      /\ \/ x.config = now.config
         \/ x.config # None /\ VersionAt(main, Len(main)) < x.config.version
<1>5. \E x : main' = Append(main, x) /\ Fits(x)
  <2>1. CASE main' = Append(main, now)
    <3>1. Fits(now)
      BY <1>1 DEF History
    <3> QED BY <2>1, <3>1
  <2> HIDE DEF now
  <2>2. ASSUME NEW s \in Sources, NEW x, now.config # None, Replaces(now, s, next, x)
        PROVE  Fits(x)
    <3>1. next \in Configs /\ next # None /\ next.base < next.version
          /\ VersionAt(main, Len(main)) < next.version
      BY <1>4, <2>2
    <3> HIDE DEF next
    <3>2. x \in Merges /\ x.config = next
      BY <1>1, <2>2, <3>1, LaterMerge
    <3> QED BY <3>1, <3>2
  <2>3. \A s \in Sources : now.config # None =>
          [issue |-> "another", pid |-> now.config.pid,
           version |-> now.config.version + 1, sources |-> s] \in Manifests
    BY <1>3 DEF Configs, Manifests
  <2>4. \/ main' = Append(main, now)
        \/ /\ now.config # None
           /\ \E s \in Sources :
                \/ main' = Append(main, [now EXCEPT !.sources = s, !.config = next])
                \/ main' = Append(main, [now EXCEPT !.sources = s, !.config = next,
                            !.manifest = [issue |-> "another", pid |-> now.config.pid,
                                          version |-> now.config.version + 1, sources |-> s]])
    BY DEF MainMoves, now
  <2> HIDE DEF Fits, next
  <2>5. ASSUME NEW s \in Sources, now.config # None,
               main' = Append(main, [now EXCEPT !.sources = s, !.config = next])
        PROVE  \E y : main' = Append(main, y) /\ Fits(y)
    BY <2>2, <2>5 DEF Replaces
  <2>6. ASSUME NEW s \in Sources, now.config # None, NEW f \in Manifests,
               main' = Append(main, [now EXCEPT !.sources = s, !.config = next, !.manifest = f])
        PROVE  \E y : main' = Append(main, y) /\ Fits(y)
    BY <2>2, <2>6 DEF Replaces
  <2> QED BY <2>1, <2>3, <2>4, <2>5, <2>6
<1>6. History(main')
  BY <1>1, <1>5, HistoryGrows
<1> QED BY <1>1, <1>2, <1>5, <1>6, KnownGrows, RunGrows DEF IntakeInv, Begun

-----------------------------------------------------------------------------
(* The invariant, and what follows from it *)

LEMMA Initially ==
  ASSUME IntakeInit
  PROVE  IntakeInv
<1>1. PICK first \in {Absent} \cup {MergedProduct(s, d) : s \in Sources, d \in Descriptions} :
        main = <<first>>
  BY DEF IntakeInit
<1>2. first \in Merges /\ (first.config # None => first.config.base < first.config.version)
  <2>1. CASE first = Absent
    BY <2>1 DEF Absent, Merges
  <2>2. CASE \E s \in Sources, d \in Descriptions : first = MergedProduct(s, d)
    <3>1. PICK s \in Sources, d \in Descriptions : first = MergedProduct(s, d)
      BY <2>2
    <3>2. first.config \in Configs /\ first.manifest \in Manifests /\ first.sources \in Sources
          /\ first.config.base = 0 /\ first.config.version = 1
      BY <3>1, IntakeAssumption DEF MergedProduct, Configs, Manifests
    <3>3. first = [config |-> first.config, manifest |-> first.manifest, sources |-> first.sources]
      BY <3>1 DEF MergedProduct
    <3> QED BY <3>2, <3>3 DEF Merges
  <2> QED BY <2>1, <2>2
<1>3. main \in Seq(Merges) /\ Len(main) = 1 /\ main[1] = first
  BY <1>1, <1>2
<1>4. \A k \in 1..Len(main) : k = 1
  BY <1>3
<1>5. History(main)
  BY <1>2, <1>3, <1>4 DEF History
<1>6. \A i \in Issues : RunInv(main, i, run[i]) /\ run[i].pc = "idle"
  <2>1. \A i \in Issues : run[i] = NoRun
    BY DEF IntakeInit
  <2>2. \A i : RunInv(main, i, NoRun) /\ NoRun.pc = "idle"
    BY DEF NoRun, RunInv, RunFields, IntakePlaces, SyncPlaces, HoldsResult
  <2> QED BY <2>1, <2>2
<1>7. ~Begun /\ DOMAIN run = Issues
  BY <1>6 DEF IntakeInit, Begun
<1> QED BY <1>5, <1>6, <1>7 DEF IntakeInv

LEMMA RunStepKeeps ==
  ASSUME IntakeInv, NEW i \in Issues, RunStep(i)
  PROVE  IntakeInv'
<1>1. CASE Route(i)
  BY <1>1, RouteStep
<1>2. CASE IntakeExisting(i)
  BY <1>2, IntakeExistingStep
<1>3. CASE IntakeNew(i)
  BY <1>3, IntakeNewStep
<1>4. CASE Prepare(i)
  BY <1>4, PrepareStep
<1>5. CASE Push(i) \/ SyncPush(i)
  BY <1>5, PushStep
<1>6. CASE OpenPullRequest(i) \/ Verify(i)
  BY <1>6, HandoverStep
<1>7. CASE Sync(i)
  BY <1>7, SyncStep
<1>8. CASE Merge(i)
  BY <1>8, MergeStep
<1>9. CASE Recheck(i)
  BY <1>9, RecheckStep
<1>10. CASE Process(i)
  BY <1>10, ProcessingStep
<1>11. CASE Finalize(i)
  BY <1>11, FinalizeStep
<1> QED BY <1>1, <1>2, <1>3, <1>4, <1>5, <1>6, <1>7, <1>8, <1>9, <1>10, <1>11 DEF RunStep

LEMMA EveryStepKeeps ==
  ASSUME IntakeInv, [IntakeNext]_intakeVars
  PROVE  IntakeInv'
<1>1. ASSUME NEW i \in Issues, NEW req \in {r \in Requests : r.issue = i}, Approve(i, req)
      PROVE  IntakeInv'
  BY <1>1, ApproveStep
<1>2. ASSUME NEW i \in Issues, Rerun(i) PROVE IntakeInv'
  BY <1>2, RerunStep
<1>3. ASSUME NEW i \in Issues, RunStep(i) PROVE IntakeInv'
  BY <1>3, RunStepKeeps
<1>4. ASSUME NEW i \in Issues, CallFails(i) PROVE IntakeInv'
  BY <1>4, CallFailsStep
<1>5. CASE Track
  BY <1>5, TrackStep
<1>6. CASE PersonPushes
  BY <1>6, PersonPushesStep
<1>7. CASE PersonClosesOrReadies
  <2>1. run' = run /\ main' = main /\ branch' = branch /\ pr.open
    BY <1>7 DEF PersonClosesOrReadies
  <2> QED BY <2>1, OnlyTheBranch
<1>8. CASE MainMoves
  BY <1>8, MainMovesStep
<1>9. CASE UNCHANGED intakeVars
  <2>1. main' = main /\ branch' = branch /\ pr' = pr /\ run' = run
    BY <1>9 DEF intakeVars
  <2> QED BY <2>1, OnlyTheBranch
<1> QED BY <1>1, <1>2, <1>3, <1>4, <1>5, <1>6, <1>7, <1>8, <1>9 DEF IntakeNext

\* Whatever issues are approved, rerun, synchronised, edited or merged, and whichever
\* calls fail after they took effect, every commit a run or the branch holds is worth
\* what its history says, and every run holds what its place implies.
THEOREM IntakeInvariant == IntakeSpec => []IntakeInv
<1>1. IntakeInit => IntakeInv
  BY Initially
<1>2. IntakeInv /\ [IntakeNext]_intakeVars => IntakeInv'
  BY EveryStepKeeps
<1> QED BY <1>1, <1>2, PTL DEF IntakeSpec

\* What IssueIntakeService or IssueBaseSyncService hands to processing is what the issue
\* asks for, for any requests and any number of failed calls, pushes and reruns.
THEOREM HandoversAreApproved == IntakeSpec => []HandoverIsApproved
<1>1. IntakeInv => HandoverIsApproved
  <2> SUFFICES ASSUME IntakeInv, NEW i \in Issues, HandedOver(i)
               PROVE  Approved(i, run[i].req, run[i].local)
    BY DEF HandoverIsApproved, Approved
  <2> QED BY DEF IntakeInv, RunInv, HandedOver
<1> QED BY <1>1, IntakeInvariant, PTL

\* A head IssueBaseSyncService hands over is on the base its run was approved on and
\* holds no output: restoring the outputs undoes whatever the merge brought in.
THEOREM SynchronisedAreClean == IntakeSpec => []SynchronisedIsClean
<1>1. IntakeInv => SynchronisedIsClean
  <2> SUFFICES ASSUME IntakeInv, NEW i \in Issues, HandedOver(i), run[i].pr # 0
               PROVE  /\ run[i].local.base = run[i].base
                      /\ ChangedPaths(run[i].local) \subseteq IntakeFields \cup {"marker"}
    BY DEF SynchronisedIsClean
  <2>1. Clean(run[i].base, run[i].local)
    BY DEF IntakeInv, RunInv, HandedOver
  <2> QED BY <2>1 DEF Clean, ChangedPaths
<1> QED BY <1>1, IntakeInvariant, PTL

\* An update that processing accepted was prepared over the version its base holds: a
\* version merged in between is noticed by git or by plan_version, never overwritten.
THEOREM UpdatesAreNotLost == IntakeSpec => []UpdatesReplaceWhatTheySaw
<1>1. IntakeInv => UpdatesReplaceWhatTheySaw
  <2> SUFFICES ASSUME IntakeInv, branch # None, branch.by = "processor", branch.config.op = "update"
               PROVE  MergedVersion(branch.base) = branch.over
    BY DEF UpdatesReplaceWhatTheySaw
  <2>1. Seen(main, branch)
    BY DEF IntakeInv, Begun, Known
  <2> QED BY <2>1, VersionOfMain DEF Seen
<1> QED BY <1>1, IntakeInvariant, PTL

KeepsOthers ==
  branch # None =>
    /\ branch.touched \ {"own"} \subseteq branch'.touched
    /\ branch.marker # "none" => branch'.marker # "none"

LEMMA KeptIsKept ==
  ASSUME branch' = branch \/ KeepsWork(branch, branch')
  PROVE  KeepsOthers
BY DEF KeepsOthers, KeepsWork

LEMMA EveryStepKeepsOthers ==
  ASSUME IntakeInv, [IntakeNext]_intakeVars
  PROVE  KeepsOthers
<1>1. ASSUME NEW i \in Issues, RunStep(i) \/ CallFails(i), branch' # branch, branch # None
      PROVE  KeepsOthers
  <2>1. CASE run[i].pc \in {"push", "syncpush"} /\ Pushes(i)
    BY <1>1, <2>1, PushedBranch, KeptIsKept
  <2>2. CASE Process(i)
    <3>1. /\ PassesVersions(branch) /\ "own" \notin branch.touched
          /\ branch' = Committed([branch EXCEPT !.touched = @ \cup {"own"}], "processor")
      BY <1>1, <2>2 DEF Process
    <3>2. Known(main, branch)
      BY <1>1 DEF IntakeInv, Begun
    <3> QED BY <3>1, <3>2, ProcessedIsKnown DEF KeepsOthers
  <2>3. CASE CallFails(i)
    <3>1. run[i].pc \in {"push", "syncpush"} /\ Pushes(i)
      BY <1>1, <2>3 DEF CallFails
    <3> QED BY <2>1, <3>1
  <2>4. CASE Push(i) \/ SyncPush(i)
    <3>1. run[i].pc \in {"push", "syncpush"} /\ Pushes(i)
      BY <2>4 DEF Push, SyncPush, At
    <3> QED BY <2>1, <3>1
  <2>5. CASE \/ Route(i) \/ IntakeExisting(i) \/ IntakeNew(i) \/ Prepare(i) \/ OpenPullRequest(i)
             \/ Sync(i) \/ Merge(i) \/ Recheck(i) \/ Verify(i) \/ Finalize(i)
    <3>1. branch' = branch
      BY <2>5 DEF Route, IntakeExisting, IntakeNew, Prepare, OpenPullRequest, Sync, Merge, Recheck,
                  Verify, Finalize
    <3> QED BY <1>1, <3>1
  <2> QED BY <1>1, <2>2, <2>3, <2>4, <2>5 DEF RunStep
<1>2. ASSUME NEW i \in Issues,
             (\E req \in Requests : Approve(i, req)) \/ Rerun(i)
      PROVE  branch' = branch
  BY <1>2 DEF Approve, Rerun
<1>3. CASE Track
  BY <1>3 DEF Track, KeepsOthers
<1>4. CASE PersonPushes
  BY <1>4, PersonPushesStep DEF KeepsOthers
<1>5. CASE PersonClosesOrReadies \/ MainMoves \/ UNCHANGED intakeVars
  BY <1>5, KeptIsKept DEF PersonClosesOrReadies, MainMoves, intakeVars
<1>6. branch' = branch => KeepsOthers
  BY KeptIsKept
<1>7. branch = None => KeepsOthers
  BY DEF KeepsOthers
<1> QED BY <1>1, <1>2, <1>3, <1>4, <1>5, <1>6, <1>7 DEF IntakeNext

\* No step takes from the branch a path that is no intake and no output of the product,
\* nor its marker: every push is a fast-forward over the head that was checked.
THEOREM OthersWorkIsKept == IntakeSpec => OthersWorkSurvives
<1>1. IntakeInv /\ [IntakeNext]_intakeVars => [KeepsOthers]_intakeVars
  BY EveryStepKeepsOthers
<1>2. IntakeSpec => [][KeepsOthers]_intakeVars
  BY <1>1, IntakeInvariant, PTL DEF IntakeSpec
<1> QED BY <1>2, PTL DEF OthersWorkSurvives, KeepsOthers

-----------------------------------------------------------------------------
(* The runner of the commands *)

LEMMA MinOfTwo ==
  ASSUME NEW a \in Int, NEW b \in Int
  PROVE  Min({a, b}) = IF a <= b THEN a ELSE b
<1> DEFINE m == IF a <= b THEN a ELSE b
<1>1. m \in {a, b} /\ \A y \in {a, b} : m <= y
  OBVIOUS
<1>2. \A x \in {a, b} : (\A y \in {a, b} : x <= y) => x = m
  OBVIOUS
<1> HIDE DEF m
<1>3. Min({a, b}) = m
  BY <1>1, <1>2 DEF Min
<1> QED BY <1>3 DEF m

\* What a reader has taken from its pipe it keeps, up to one unit more than the limit,
\* as long as no thread was given up.
Taken(s) == produced[s] - unread[s] - buffered[s]
Kept(s)  == retained[s] = IF Taken(s) <= MaxOutput + 1 THEN Taken(s) ELSE MaxOutput + 1

Ended(s)   == reader[s] = "ended"
Drained(s) == Ended(s) => open[s] = {} /\ unread[s] = 0 /\ buffered[s] = 0

AfterKill == {"stdin", "stdout", "stderr", "returned"}

\* The caller joined the readers it is past.
Joined ==
  /\ pc \in {"stderr", "returned"} => Ended("stdout")
  /\ pc = "returned" => Ended("stderr") /\ result = Returned(FALSE)

RunnerInv ==
  /\ produced \in [Streams -> Nat] /\ unread \in [Streams -> Nat] /\ buffered \in [Streams -> Nat]
  /\ retained \in [Streams -> Nat] /\ open \in [Streams -> SUBSET Procs]
  /\ reader \in [Streams -> {"reading", "ended"}]
  /\ \A s \in Streams : Taken(s) \in Nat
  /\ ~timedOut => Joined /\ \A s \in Streams : Kept(s) /\ Drained(s)
  /\ timedOut \in BOOLEAN /\ (pc = "returned" => result.raised = timedOut)
  /\ pc \in AfterKill => Group \cap alive \subseteq killed

LEMMA ReturnedIsOf == \A x : retained' = retained => Returned(x)' = Returned(x)
BY DEF Returned

LEMMA RunnerInitially ==
  ASSUME Init
  PROVE  RunnerInv
<1>1. /\ produced = [s \in Streams |-> 0] /\ unread = produced /\ buffered = produced
      /\ retained = produced /\ open = [s \in Streams |-> alive] /\ alive \subseteq Procs
      /\ reader = [s \in Streams |-> "reading"] /\ pc = "wait" /\ timedOut = FALSE
  BY DEF Init, Procs, Group
<1>2. MaxOutput \in Nat
  BY SizesAssumption
<1>3. \A s \in Streams : /\ produced[s] = 0 /\ unread[s] = 0 /\ buffered[s] = 0 /\ retained[s] = 0
                         /\ reader[s] = "reading"
  BY <1>1
<1>4. \A s \in Streams : Taken(s) = 0 /\ Kept(s) /\ Drained(s)
  BY <1>2, <1>3 DEF Taken, Kept, Ended, Drained
<1>5. /\ produced \in [Streams -> Nat] /\ unread \in [Streams -> Nat]
      /\ buffered \in [Streams -> Nat] /\ retained \in [Streams -> Nat]
  BY <1>1
<1>6. open \in [Streams -> SUBSET Procs] /\ reader \in [Streams -> {"reading", "ended"}]
  BY <1>1
<1>7. Joined
  BY <1>1 DEF Joined
<1> QED BY <1>1, <1>4, <1>5, <1>6, <1>7 DEF RunnerInv, AfterKill

LEMMA ProcessesKeep ==
  ASSUME RunnerInv, ProcessStep
  PROVE  RunnerInv'
<1>1. ASSUME NEW p \in Procs, NEW s \in Streams, ProcessWrites(p, s)
      PROVE  RunnerInv'
  <2>1. /\ reader[s] = "reading" /\ reader' = reader /\ retained' = retained /\ buffered' = buffered
        /\ produced' = [produced EXCEPT ![s] = @ + 1] /\ unread' = [unread EXCEPT ![s] = @ + 1]
        /\ open' = open /\ alive' = alive /\ killed' = killed
        /\ pc' = pc /\ timedOut' = timedOut /\ result' = result
    BY <1>1 DEF ProcessWrites, caller
  <2>2. \A r \in Streams : Taken(r)' = Taken(r)
    BY <2>1 DEF RunnerInv, Taken
  <2>3. \A r \in Streams : (Kept(r) => Kept(r)') /\ (Drained(r) => Drained(r)')
    BY <2>1, <2>2 DEF RunnerInv, Kept, Drained, Ended
  <2>4. Joined => Joined'
    BY <2>1, ReturnedIsOf DEF Joined, Ended
  <2>5. /\ produced' \in [Streams -> Nat] /\ unread' \in [Streams -> Nat]
    BY <2>1 DEF RunnerInv
  <2> HIDE DEF Joined, Kept, Drained, Taken
  <2> QED BY <2>1, <2>2, <2>3, <2>4, <2>5 DEF RunnerInv
<1>2. CASE ProcessReads
  BY <1>2, ReturnedIsOf DEF ProcessReads, processes, caller, RunnerInv, Joined, Taken, Kept, Drained, Ended
<1>3. ASSUME NEW p \in Procs, ProcessEnds(p) \/ ProcessDetaches(p)
      PROVE  RunnerInv'
  <2>1. /\ alive' \subseteq alive /\ open' = [s \in Streams |-> open[s] \ {p}]
        /\ killed' = killed /\ produced' = produced /\ unread' = unread /\ buffered' = buffered
        /\ retained' = retained /\ reader' = reader
        /\ pc' = pc /\ timedOut' = timedOut /\ result' = result
    BY <1>3 DEF ProcessEnds, ProcessDetaches, threads, caller
  <2>2. \A r \in Streams : Taken(r)' = Taken(r) /\ (Kept(r) => Kept(r)')
    BY <2>1 DEF Taken, Kept
  <2>3. \A r \in Streams : Drained(r) => Drained(r)'
    BY <2>1 DEF Drained, Ended
  <2>4. Joined => Joined'
    BY <2>1, ReturnedIsOf DEF Joined, Ended
  <2>5. open' \in [Streams -> SUBSET Procs]
    BY <2>1 DEF RunnerInv
  <2> QED BY <2>1, <2>2, <2>3, <2>4, <2>5 DEF RunnerInv
<1> QED BY <1>1, <1>2, <1>3 DEF ProcessStep

LEMMA ThreadsKeep ==
  ASSUME RunnerInv, NEW s \in Streams, ThreadStep(s)
  PROVE  RunnerInv'
<1>0. MaxOutput \in Nat
  BY SizesAssumption
<1>1. /\ reader[s] = "reading" /\ produced' = produced /\ open' = open /\ alive' = alive
      /\ killed' = killed /\ pc' = pc /\ timedOut' = timedOut /\ result' = result
      /\ unread' \in [Streams -> Nat] /\ buffered' \in [Streams -> Nat]
      /\ reader' \in [Streams -> {"reading", "ended"}]
      /\ \A r \in Streams \ {s} :
           /\ unread'[r] = unread[r] /\ buffered'[r] = buffered[r]
           /\ retained'[r] = retained[r] /\ reader'[r] = reader[r]
  BY DEF ThreadStep, Collect, Keep, ReaderEnds, processes, caller, RunnerInv
<1>2. \A r \in Streams \ {s} :
        Taken(r)' = Taken(r) /\ (Kept(r) => Kept(r)') /\ (Drained(r) => Drained(r)')
  BY <1>1 DEF Taken, Kept, Drained, Ended
<1>3. ~timedOut => pc # "returned" /\ (pc = "stderr" => s # "stdout")
  BY <1>1 DEF RunnerInv, Joined, Ended, Streams
<1>4. ~timedOut /\ Joined => Joined'
  BY <1>1, <1>3 DEF Joined, Ended, Streams
<1>5. /\ Taken(s)' \in Nat /\ retained'[s] \in Nat /\ retained' \in [Streams -> Nat]
      /\ ~timedOut => Kept(s)' /\ Drained(s)'
  <2>1. CASE Collect(s)
    <3>1. /\ retained' = retained /\ reader' = reader /\ unread'[s] = unread[s] - 1
          /\ buffered'[s] = buffered[s] + 1
      BY <2>1 DEF Collect, RunnerInv
    <3>2. Taken(s)' = Taken(s)
      BY <1>1, <3>1 DEF Taken, RunnerInv
    <3> QED BY <1>1, <3>1, <3>2 DEF RunnerInv, Kept, Drained, Ended
  <2>2. CASE ReaderEnds(s)
    <3>1. /\ retained' = retained /\ unread' = unread /\ buffered' = buffered
          /\ buffered[s] = 0 /\ unread[s] = 0 /\ open[s] = {}
      BY <2>2 DEF ReaderEnds, AtEnd
    <3>2. Taken(s)' = Taken(s)
      BY <1>1, <3>1 DEF Taken
    <3> QED BY <1>1, <3>1, <3>2 DEF RunnerInv, Kept, Drained
  <2>3. CASE Keep(s)
    <3>1. /\ retained' = [retained EXCEPT ![s] = Min({@ + buffered[s], CaptureLimit})]
          /\ buffered'[s] = 0
          /\ \/ unread' = unread /\ reader' = reader
             \/ timedOut /\ unread'[s] = 0
      BY <2>3 DEF Keep, Closing, RunnerInv
    <3>2. /\ retained[s] \in Nat /\ buffered[s] \in Nat /\ unread[s] \in Nat /\ produced[s] \in Nat
          /\ Taken(s) \in Nat
      BY DEF RunnerInv
    <3>3. retained'[s] = IF retained[s] + buffered[s] <= MaxOutput + 1
                         THEN retained[s] + buffered[s] ELSE MaxOutput + 1
      <4>1. retained'[s] = Min({retained[s] + buffered[s], MaxOutput + 1})
        BY <3>1 DEF CaptureLimit, RunnerInv
      <4>2. retained[s] + buffered[s] \in Int /\ MaxOutput + 1 \in Int
        BY <1>0, <3>2
      <4> QED BY <4>1, <4>2, MinOfTwo
    <3>4. retained'[s] \in Nat /\ retained' \in [Streams -> Nat]
      <4>1. retained'[s] \in Nat
        BY <1>0, <3>2, <3>3
      <4> QED BY <3>1, <4>1 DEF RunnerInv
    <3>5. CASE unread' = unread /\ reader' = reader
      <4>1. Taken(s)' = Taken(s) + buffered[s]
        BY <1>1, <3>1, <3>2, <3>5 DEF Taken
      <4>2. Kept(s) => Kept(s)'
        BY <1>0, <3>2, <3>3, <4>1 DEF Kept
      <4>3. ~Ended(s)'
        BY <1>1, <3>5 DEF Ended
      <4> QED BY <3>2, <3>4, <4>1, <4>2, <4>3 DEF RunnerInv, Drained
    <3>6. CASE timedOut /\ unread'[s] = 0
      <4>1. Taken(s)' = produced[s]
        BY <1>1, <3>1, <3>2, <3>6 DEF Taken
      <4> QED BY <3>2, <3>4, <3>6, <4>1
    <3> QED BY <3>1, <3>5, <3>6
  <2> QED BY <2>1, <2>2, <2>3 DEF ThreadStep
<1>6. \A r \in Streams : /\ Taken(r)' \in Nat
                         /\ ~timedOut => Kept(r)' /\ Drained(r)'
  BY <1>2, <1>5 DEF RunnerInv
<1> QED BY <1>1, <1>4, <1>5, <1>6 DEF RunnerInv

LEMMA CallerKeeps ==
  ASSUME RunnerInv, CallerStep
  PROVE  RunnerInv'
<1>1. /\ produced' = produced /\ unread' = unread /\ buffered' = buffered /\ retained' = retained
      /\ open' = open /\ reader' = reader /\ alive' = alive
  BY DEF CallerStep, Wait, WaitAgain, KillGroup, Join, GiveUp, threads, processes
<1>2. \A s \in Streams :
        Taken(s)' = Taken(s) /\ (Kept(s) => Kept(s)') /\ (Drained(s) => Drained(s)')
  BY <1>1 DEF Taken, Kept, Drained, Ended
<1>3. SUFFICES /\ timedOut' \in BOOLEAN /\ (timedOut => timedOut')
               /\ ~timedOut' => Joined'
               /\ pc' = "returned" => result'.raised = timedOut'
               /\ pc' \in AfterKill => Group \cap alive \subseteq killed'
  BY <1>1, <1>2 DEF RunnerInv
<1>4. CASE Wait \/ WaitAgain \/ KillGroup
  BY <1>4 DEF Wait, WaitAgain, KillGroup, AfterKill, GroupKilled, Joined, RunnerInv
<1>5. ASSUME NEW x \in DOMAIN Following, Join(x)
      PROVE  /\ timedOut' \in BOOLEAN /\ (timedOut => timedOut')
             /\ ~timedOut' => Joined'
             /\ pc' = "returned" => result'.raised = timedOut'
             /\ pc' \in AfterKill => Group \cap alive \subseteq killed'
  <2>1. /\ x \in {"stdin", "stdout", "stderr"} /\ pc = x /\ killed' = killed /\ timedOut' = timedOut
        /\ pc' = Following[x]
        /\ result' = IF pc' = "returned" THEN Returned(timedOut) ELSE result
    BY <1>5 DEF Join, processes, Following
  <2>2. /\ x = "stdin" => pc' = "stdout"
        /\ x = "stdout" => pc' = "stderr" /\ Ended("stdout")
        /\ x = "stderr" => pc' = "returned" /\ Ended("stderr")
    BY <1>5, <2>1 DEF Join, Following, Thread, Ended, RunnerInv, Streams
  <2>3. ~timedOut => Joined'
    BY <1>1, <2>1, <2>2, ReturnedIsOf DEF RunnerInv, Joined, Ended
  <2>4. pc' = "returned" => result'.raised = timedOut
    BY <2>1 DEF Returned
  <2> QED BY <2>1, <2>3, <2>4 DEF RunnerInv, AfterKill
<1>6. ASSUME NEW x \in DOMAIN Following, GiveUp(x)
      PROVE  /\ timedOut' \in BOOLEAN /\ (timedOut => timedOut')
             /\ ~timedOut' => Joined'
             /\ pc' = "returned" => result'.raised = timedOut'
             /\ pc' \in AfterKill => Group \cap alive \subseteq killed'
  BY <1>6 DEF GiveUp, Following, processes, RunnerInv
<1> QED BY <1>4, <1>5, <1>6 DEF CallerStep

\* Whatever the processes write, inherit, detach or outlive, and whenever the deadlines
\* pass: a reader keeps what it takes, and the caller knows what it joined.
THEOREM RunnerInvariant == Spec => []RunnerInv
<1>1. Init => RunnerInv
  BY RunnerInitially
<1>2. RunnerInv /\ [Next]_vars => RunnerInv'
  <2> SUFFICES ASSUME RunnerInv, [Next]_vars PROVE RunnerInv'
    OBVIOUS
  <2>1. CASE WriterStep \/ DeadlinePasses \/ UNCHANGED vars
    <3>1. /\ produced' = produced /\ unread' = unread /\ buffered' = buffered /\ retained' = retained
          /\ open' = open /\ reader' = reader /\ alive' = alive /\ killed' = killed
          /\ pc' = pc /\ timedOut' = timedOut /\ result' = result
      BY <2>1 DEF WriterStep, WriterSends, WriterEnds, DeadlinePasses, vars, processes, threads, caller
    <3> QED BY <3>1, ReturnedIsOf DEF RunnerInv, Joined, Taken, Kept, Drained, Ended
  <2> QED BY <2>1, ProcessesKeep, ThreadsKeep, CallerKeeps DEF Next
<1> QED BY <1>1, <1>2, PTL DEF Spec

\* A command that returned without a timeout returned all that every process of it wrote,
\* up to the limit of the request and with truncated where there was more, and whichever
\* way it returned, its process group was sent SIGKILL: for any sizes of pipe, read,
\* limit, input and output.
THEOREM ReturnsAreFinal == Spec => []ReturnIsFinal
<1>1. RunnerInv => NoneSurvives
  BY DEF RunnerInv, NoneSurvives, AfterKill
<1>2. RunnerInv => OutputIsComplete
  <2> SUFFICES ASSUME RunnerInv, pc = "returned", ~result.raised, NEW s \in Streams
               PROVE  /\ open[s] = {}
                      /\ result.size[s] = Min({produced[s], MaxOutput})
                      /\ s \in result.truncated <=> produced[s] > MaxOutput
    BY DEF OutputIsComplete
  <2>1. ~timedOut /\ Joined /\ Kept(s) /\ Drained(s) /\ Ended(s)
    BY DEF RunnerInv, Joined, Streams
  <2>2. open[s] = {} /\ produced[s] \in Nat /\ retained[s] \in Nat /\ Taken(s) = produced[s]
    BY <2>1 DEF RunnerInv, Drained, Taken
  <2>3. MaxOutput \in Nat
    BY SizesAssumption
  <2>4. retained[s] = IF produced[s] <= MaxOutput + 1 THEN produced[s] ELSE MaxOutput + 1
    BY <2>1, <2>2 DEF Kept
  <2>5. /\ result.size[s] = Min({retained[s], MaxOutput})
        /\ s \in result.truncated <=> retained[s] > MaxOutput
    BY <2>1 DEF Joined, Returned
  <2>6. Min({retained[s], MaxOutput}) = Min({produced[s], MaxOutput})
    <3>1. /\ Min({retained[s], MaxOutput}) = IF retained[s] <= MaxOutput THEN retained[s] ELSE MaxOutput
          /\ Min({produced[s], MaxOutput}) = IF produced[s] <= MaxOutput THEN produced[s] ELSE MaxOutput
      BY <2>2, <2>3, MinOfTwo
    <3> QED BY <2>2, <2>3, <2>4, <3>1
  <2> QED BY <2>2, <2>3, <2>4, <2>5, <2>6
<1> QED BY <1>1, <1>2, RunnerInvariant, PTL DEF ReturnIsFinal

(***************************************************************************)
(* The calls of the model                                                  *)
(***************************************************************************)

RepairCodes  == {ParseCode[content] : content \in {"broken", "list", "off_schema"}}
Texts        == STRING \cup RepairCodes \cup {"schema"}
Messages     == [role : STRING \cup {"system"}, parts : Seq(Texts)]
SentRequests == [system : Seq(Texts), contents : Seq(Messages), schema : BOOLEAN]
Answers      == UNION {Outcomes(p, kind) : p \in Providers, kind \in Calls}

\* Only an answer that was read and rejected can be repaired, and it names why.
LEMMA AnswerFacts ==
  ASSUME NEW a \in Answers PROVE a.rejected => a.kind = "output" /\ a.code \in RepairCodes
<1>. DEFINE Sound(e) == e.rejected => e.kind = "output" /\ e.code \in RepairCodes
<1>1. \A c, k : Sound(Error(c, k))
  BY DEF Error
<1>2. ASSUME NEW kind \in Calls, NEW content \in Contents PROVE Sound(Parsed(kind, content))
  <2>1. CASE kind = "text" \/ content = "valid"
    BY <2>1 DEF Parsed, Good
  <2>2. CASE ~(kind = "text" \/ content = "valid")
    <3>1. ParseCode[content] \in RepairCodes
      BY <2>2 DEF Contents, RepairCodes
    <3>2. Parsed(kind, content) = [Error(ParseCode[content], "output") EXCEPT !.rejected = TRUE]
      BY <2>2 DEF Parsed
    <3>. HIDE DEF RepairCodes
    <3>3. /\ Parsed(kind, content).code = ParseCode[content]
          /\ Parsed(kind, content).kind = "output"
      BY <3>2 DEF Error
    <3> QED BY <3>1, <3>3
  <2> QED BY <2>1, <2>2
<1>3. \A p, e : Sound(ProviderError(p, e))
  BY <1>1 DEF ProviderError
<1>. SUFFICES Sound(a)
  OBVIOUS
<1>. HIDE DEF Sound
<1>4. PICK p \in Providers, kind \in Calls : a \in Outcomes(p, kind)
  BY DEF Answers
<1>5. CASE p \in OpenAI
  <2>1. a \in {ProviderError(p, e) : e \in Exceptions} \/ a \in OpenAIOutcomes(p, kind)
    BY <1>4, <1>5 DEF Outcomes, OpenAI
  <2>2. CASE a \in OpenAIOutcomes(p, kind)
    <3>1. \/ a \in {Error(EmptyCode(stop), "output") : stop \in Stops}
          \/ a \in {Parsed(kind, content) : content \in Contents}
          \/ a = Error("LLM_RESPONSE_CHOICES_MISSING", "output")
      BY <2>2 DEF OpenAIOutcomes
    <3>2. CASE a \in {Error(EmptyCode(stop), "output") : stop \in Stops}
      BY <1>1, <3>2
    <3>3. CASE a \in {Parsed(kind, content) : content \in Contents}
      BY <1>2, <3>3
    <3> QED BY <1>1, <3>1, <3>2, <3>3
  <2> QED BY <1>3, <2>1, <2>2
<1>6. CASE p = "gemini"
  <2>1. a \in {ProviderError(p, e) : e \in Exceptions} \/ a \in GeminiOutcomes(kind)
    BY <1>4, <1>6 DEF Outcomes, OpenAI
  <2>2. CASE a \in GeminiOutcomes(kind)
    BY <1>1, <1>2, <2>2 DEF GeminiOutcomes
  <2> QED BY <1>3, <2>1, <2>2
<1>7. CASE p = "claude"
  <2>1. a \in {ProviderError(p, e) : e \in Exceptions} \/ a \in ClaudeOutcomes(kind)
    BY <1>4, <1>7 DEF Outcomes, OpenAI
  <2>2. CASE a \in ClaudeOutcomes(kind)
    BY <1>1, <1>2, <2>2 DEF ClaudeOutcomes
  <2> QED BY <1>3, <2>1, <2>2
<1>8. p \in OpenAI \/ p = "gemini" \/ p = "claude"
  BY LLMAssumption
<1> QED BY <1>5, <1>6, <1>7, <1>8

\* The parts of a message are a sequence of texts, whoever it is from.
LEMMA PartsTyped ==
  ASSUME NEW y \in Messages
  PROVE  y.parts \in Seq(Texts) /\ (IF y.role = "system" THEN y.parts ELSE <<>>) \in Seq(Texts)
<1>1. y.parts \in Seq(Texts)
  BY DEF Messages
<1>2. <<>> \in Seq(Texts)
  OBVIOUS
<1> QED BY <1>1, <1>2

\* The parts of system messages are strings, and the first of them comes first.
LEMMA SystemTyped ==
  ASSUME NEW messages \in Seq(Messages)
  PROVE  /\ SystemParts(messages) \in Seq(Texts)
         /\ messages # <<>> /\ messages[1].role = "system" /\ messages[1].parts # <<>> =>
              SystemParts(messages) # <<>> /\ SystemParts(messages)[1] = messages[1].parts[1]
<1>. DEFINE texts(m) == [i \in 1..Len(m) |-> IF m[i].role = "system" THEN m[i].parts ELSE <<>>]
            First(m) == m[1].role = "system" /\ m[1].parts # <<>>
            Holds(m) == /\ SystemParts(m) \in Seq(Texts)
                        /\ m # <<>> /\ First(m) =>
                             SystemParts(m) # <<>> /\ SystemParts(m)[1] = m[1].parts[1]
            T == {m \in Seq(Messages) : Holds(m)}
<1>1. <<>> \in T
  <2>1. texts(<<>>) = <<>>
    OBVIOUS
  <2>2. SystemParts(<<>>) = <<>> /\ <<>> \in Seq(Texts)
    BY <2>1 DEF SystemParts, FlattenSeq
  <2>3. Holds(<<>>)
    BY <2>2
  <2>. HIDE DEF Holds
  <2> QED BY <2>3
<1>2. ASSUME NEW m \in Seq(Messages), NEW x \in Messages, m \in T PROVE Append(m, x) \in T
  <2>. DEFINE u == Append(m, x)
              t == IF x.role = "system" THEN x.parts ELSE <<>>
              q == texts(m)
  <2>1. /\ Len(m) \in Nat /\ u \in Seq(Messages) /\ Len(u) = Len(m) + 1 /\ u[Len(m) + 1] = x
        /\ \A i \in 1..Len(m) : u[i] = m[i] /\ m[i] \in Messages
    OBVIOUS
  <2>2. t \in Seq(Texts) /\ q \in Seq(Seq(Texts)) /\ Len(q) = Len(m)
    <3>1. \A y \in Messages : (IF y.role = "system" THEN y.parts ELSE <<>>) \in Seq(Texts)
      BY PartsTyped
    <3>2. \A i \in 1..Len(m) : q[i] \in Seq(Texts)
      BY <2>1, <3>1
    <3> QED BY <2>1, <3>1, <3>2
  <2>. HIDE DEF u
  <2>3. texts(u) = Append(q, t)
    <3>1. texts(u) \in Seq(Seq(Texts)) /\ Append(q, t) \in Seq(Seq(Texts))
      <4>1. \A y \in Messages : (IF y.role = "system" THEN y.parts ELSE <<>>) \in Seq(Texts)
        BY PartsTyped
      <4>2. \A i \in 1..Len(u) : texts(u)[i] \in Seq(Texts)
        BY <2>1, <4>1
      <4>. HIDE DEF t, q
      <4> QED BY <2>1, <2>2, <4>2
    <3>2. Len(texts(u)) = Len(u) /\ Len(Append(q, t)) = Len(u)
      <4>. HIDE DEF t, q
      <4> QED BY <2>1, <2>2
    <3>3. ASSUME NEW i \in 1..Len(u) PROVE texts(u)[i] = Append(q, t)[i]
      <4>1. CASE i \in 1..Len(m)
        <5>1. texts(u)[i] = q[i]
          BY <2>1, <4>1
        <5>. HIDE DEF t, q
        <5> QED BY <2>2, <4>1, <5>1
      <4>2. CASE i = Len(m) + 1
        <5>1. texts(u)[i] = t
          BY <2>1, <4>2
        <5>. HIDE DEF t, q
        <5> QED BY <2>2, <4>2, <5>1
      <4> QED BY <2>1, <4>1, <4>2
    <3>. DEFINE v == texts(u)
                w == Append(q, t)
    <3>4. /\ v \in Seq(Seq(Texts)) /\ w \in Seq(Seq(Texts)) /\ Len(v) = Len(u) /\ Len(w) = Len(u)
          /\ \A i \in 1..Len(u) : v[i] = w[i]
      BY <3>1, <3>2, <3>3
    <3>. HIDE DEF v, w
    <3>5. v = w
      BY <3>4, SequencesEqual
    <3> QED BY <3>5 DEF v, w
  <2>4. FlattenSeq(q) \in Seq(Texts) /\ FlattenSeq(Append(q, t)) = FlattenSeq(q) \o t
    <3>. HIDE DEF q, t
    <3> QED BY <2>2, FlattenAppend
  <2>5. SystemParts(m) = FlattenSeq(q) /\ SystemParts(u) = SystemParts(m) \o t
    BY <2>3, <2>4 DEF SystemParts
  <2>6. Holds(m)
    BY <1>2
  <2>. HIDE DEF q, texts, T
  <2>7. SystemParts(u) \in Seq(Texts)
    <3>. HIDE DEF t
    <3> QED BY <2>2, <2>4, <2>5
  <2>8. ASSUME First(u)
        PROVE  SystemParts(u) # <<>> /\ SystemParts(u)[1] = u[1].parts[1]
    <3>1. CASE m = <<>>
      <4>1. u[1] = x /\ t = x.parts
        BY <2>1, <2>8, <3>1
      <4>2. SystemParts(m) = <<>>
        BY <1>1, <3>1 DEF SystemParts, FlattenSeq
      <4>3. SystemParts(u) = x.parts
        BY <2>2, <2>5, <4>1, <4>2
      <4> QED BY <2>8, <4>1, <4>3
    <3>2. CASE m # <<>>
      <4>1. 1 \in 1..Len(m) /\ u[1] = m[1]
        BY <2>1, <3>2
      <4>2. SystemParts(m) # <<>> /\ SystemParts(m)[1] = m[1].parts[1]
        BY <2>6, <2>8, <3>2, <4>1
      <4>. DEFINE sp == SystemParts(m)
      <4>3. sp \in Seq(Texts) /\ sp # <<>>
        BY <2>6, <4>2
      <4>. HIDE DEF sp, t
      <4>4. sp \o t # <<>> /\ (sp \o t)[1] = sp[1]
        BY <2>2, <4>3
      <4> QED BY <2>5, <4>1, <4>2, <4>4 DEF sp
    <3> QED BY <3>1, <3>2
  <2>9. Holds(u)
    BY <2>7, <2>8
  <2>. HIDE DEF Holds
  <2> QED BY <2>1, <2>9 DEF u, T
<1>. HIDE DEF T
<1>3. messages \in T
  BY <1>1, <1>2, SequenceInduction
<1> QED BY <1>3 DEF T

\* The dialogue of a conversation is a conversation, and is its own dialogue.
LEMMA DialogueFacts ==
  ASSUME NEW messages \in Seq(Messages)
  PROVE  /\ DialogueParts(messages) \in Seq(Messages)
         /\ DialogueParts(DialogueParts(messages)) = DialogueParts(messages)
<1>. DEFINE I == {i \in DOMAIN messages : messages[i].role # "system"}
            d == Picked(messages, I)
            J == {i \in DOMAIN d : d[i].role # "system"}
<1>1. d \in Seq(Messages)
  BY PickedSeq
<1>2. ASSUME NEW k \in 1..Len(d) PROVE d[k].role # "system"
  <2>1. PICK i \in 1..Len(messages) : i \in I /\ d[k] = messages[i]
    <3>. HIDE DEF I
    <3> QED BY PickedMembers
  <2> QED BY <2>1
<1>. HIDE DEF d
<1>3. \A k \in 1..Len(d) : k \in J
  BY <1>1, <1>2
<1>. HIDE DEF J
<1>4. Picked(d, J) = d
  BY <1>1, <1>3, PickedAll
<1> QED BY <1>1, <1>4 DEF DialogueParts, d, J

\* What the caller says is a sequence of messages.
LEMMA ConversationTyped == Conversation \in Seq(Messages)
<1>1. ASSUME NEW y \in [role : STRING, parts : Seq(STRING)] PROVE y \in Messages
  <2>1. y.parts \in Seq(STRING) /\ y.role \in STRING /\ y = [role |-> y.role, parts |-> y.parts]
    OBVIOUS
  <2>2. STRING \subseteq Texts
    BY DEF Texts
  <2>3. y.parts \in Seq(Texts)
    <3>. HIDE DEF Texts
    <3> QED BY <2>1, <2>2, SeqMonotone
  <2> QED BY <2>1, <2>3 DEF Messages
<1>2. Conversation \in Seq([role : STRING, parts : Seq(STRING)])
  BY LLMAssumption
<1>. DEFINE Told == [role : STRING, parts : Seq(STRING)]
<1>3. Told \subseteq Messages /\ Conversation \in Seq(Told)
  BY <1>1, <1>2
<1>. HIDE DEF Told
<1> QED BY <1>3

\* The instruction is in front, and what the caller said is not touched.
LEMMA RepairFacts ==
  ASSUME NEW code \in RepairCodes
  PROVE  /\ RepairMessages(code) \in Seq(Messages) /\ RepairMessages(code) # <<>>
         /\ RepairMessages(code)[1] = [role |-> "system", parts |-> <<code>>]
         /\ DialogueParts(RepairMessages(code)) = DialogueParts(Conversation)
<1>. DEFINE m == [role |-> "system", parts |-> <<code>>]
            r == <<m>> \o Conversation
            I == {i \in DOMAIN r : r[i].role # "system"}
            J == {i \in DOMAIN Conversation : Conversation[i].role # "system"}
<1>1. m \in Messages
  <2>1. code \in Texts
    BY DEF Texts
  <2>2. <<code>> \in Seq(Texts)
    <3>. HIDE DEF Texts
    <3> QED BY <2>1
  <2> QED BY <2>2 DEF Messages
<1>2. RepairMessages(code) = r
  BY DEF RepairMessages, Message
<1>3. m.role = "system"
  OBVIOUS
<1>. HIDE DEF m
<1>4. /\ r \in Seq(Messages) /\ Len(r) = Len(Conversation) + 1 /\ r # <<>> /\ r[1] = m
      /\ \A i \in 1..Len(Conversation) : r[i + 1] = Conversation[i]
      /\ Len(Conversation) \in Nat
  BY <1>1, ConversationTyped
<1>5. 1 \notin I /\ \A i \in 1..Len(Conversation) : i \in J <=> i + 1 \in I
  <2>. HIDE DEF r
  <2>1. 1 \notin I
    BY <1>3, <1>4
  <2>2. \A i \in 1..Len(Conversation) : i + 1 \in DOMAIN r /\ i \in DOMAIN Conversation
    BY <1>4, ConversationTyped
  <2> QED BY <1>4, <2>1, <2>2
<1>. HIDE DEF I, J
<1>6. Picked(r, I) = Picked(Conversation, J)
  BY <1>1, <1>5, ConversationTyped, PickedPrepend
<1>7. DialogueParts(r) = DialogueParts(Conversation)
  BY <1>6 DEF DialogueParts, I, J
<1> QED BY <1>2, <1>4, <1>7 DEF m

\* A request carries the dialogue of the caller, the instruction of the last rejection, and
\* a schema for every call but that for text.
LEMMA RequestFacts ==
  ASSUME NEW p \in Providers, NEW kind \in Calls, NEW code, code # NoCode => code \in RepairCodes,
         NEW r, r = Request(p, kind, MessagesWith(code))
  PROVE  /\ r \in SentRequests /\ DialogueParts(r.contents) = DialogueParts(Conversation)
         /\ code # NoCode => Instruction(r) = code
         /\ r.schema <=> kind # "text"
<1>. DEFINE m == MessagesWith(code)
            sp == SystemParts(m)
            asked == IF kind = "text" THEN <<>> ELSE <<"schema">>
<1>1. /\ m \in Seq(Messages) /\ DialogueParts(m) = DialogueParts(Conversation)
      /\ code # NoCode => m # <<>> /\ m[1] = [role |-> "system", parts |-> <<code>>]
  <2>1. CASE code = NoCode
    BY <2>1, ConversationTyped DEF MessagesWith
  <2>2. CASE code # NoCode
    BY <2>2, RepairFacts DEF MessagesWith
  <2> QED BY <2>1, <2>2
<1>. HIDE DEF m
<1>2. /\ sp \in Seq(Texts)
      /\ code # NoCode => sp # <<>> /\ sp[1] = code
  <2>1. sp \in Seq(Texts)
    BY <1>1, SystemTyped
  <2>2. ASSUME code # NoCode PROVE sp # <<>> /\ sp[1] = code
    <3>1. m[1].role = "system" /\ m[1].parts = <<code>> /\ m # <<>>
      BY <1>1, <2>2
    <3>2. <<code>> # <<>> /\ <<code>>[1] = code
      OBVIOUS
    <3>3. sp # <<>> /\ sp[1] = m[1].parts[1]
      BY <1>1, <3>1, <3>2, SystemTyped
    <3> QED BY <3>1, <3>2, <3>3
  <2> QED BY <2>1, <2>2
<1>3. /\ DialogueParts(m) \in Seq(Messages)
      /\ DialogueParts(DialogueParts(m)) = DialogueParts(Conversation)
  BY <1>1, DialogueFacts
<1>. HIDE DEF sp
<1>4. CASE p \in OpenAI
  <2>1. r = [system |-> <<>>, contents |-> m, schema |-> kind # "text"]
    BY <1>4 DEF Request, OpenAIRequest, OpenAI, m
  <2>2. <<>> \in Seq(Texts)
    OBVIOUS
  <2>3. r \in SentRequests
    BY <1>1, <2>1, <2>2 DEF SentRequests
  <2>4. ASSUME code # NoCode PROVE Instruction(r) = code
    <3>1. Head(m) = m[1] /\ m[1].parts = <<code>> /\ Head(<<code>>) = code
      BY <1>1, <2>4
    <3>2. r.system = <<>> /\ r.contents = m
      BY <2>1
    <3> QED BY <3>1, <3>2 DEF Instruction
  <2>5. r.contents = m
    BY <2>1
  <2>6. r.schema = (kind # "text")
    BY <2>1
  <2> QED BY <1>1, <2>3, <2>4, <2>5, <2>6
<1>5. CASE p = "gemini"
  <2>1. r = [system |-> sp, contents |-> DialogueParts(m), schema |-> kind # "text"]
    BY <1>5 DEF Request, GeminiRequest, OpenAI, m, sp
  <2>2. r \in SentRequests
    BY <1>2, <1>3, <2>1 DEF SentRequests
  <2>3. ASSUME code # NoCode PROVE Instruction(r) = code
    <3>1. r.system = sp /\ Head(sp) = sp[1]
      BY <1>2, <2>1, <2>3
    <3> QED BY <1>2, <2>3, <3>1 DEF Instruction
  <2>4. r.contents = DialogueParts(m)
    BY <2>1
  <2>5. r.schema = (kind # "text")
    BY <2>1
  <2> QED BY <1>3, <2>2, <2>3, <2>4, <2>5
<1>6. CASE p = "claude"
  <2>. DEFINE sa == sp \o asked
  <2>1. r = [system |-> sa, contents |-> DialogueParts(m), schema |-> asked # <<>>]
    BY <1>6 DEF Request, ClaudeRequest, OpenAI, m, sp
  <2>2. asked \in Seq(Texts) /\ (asked # <<>> <=> kind # "text")
    <3>1. "schema" \in Texts
      BY DEF Texts
    <3>. HIDE DEF Texts
    <3>2. <<"schema">> \in Seq(Texts) /\ <<>> \in Seq(Texts) /\ <<"schema">> # <<>>
      BY <3>1
    <3> QED BY <3>2
  <2>. HIDE DEF asked
  <2>3. sa \in Seq(Texts) /\ (code # NoCode => sa # <<>> /\ sa[1] = code)
    BY <1>2, <2>2
  <2>. HIDE DEF sa
  <2>4. r \in SentRequests
    BY <1>3, <2>1, <2>3 DEF SentRequests
  <2>5. ASSUME code # NoCode PROVE Instruction(r) = code
    <3>1. r.system = sa /\ Head(sa) = sa[1]
      BY <2>1, <2>3, <2>5
    <3> QED BY <2>3, <2>5, <3>1 DEF Instruction
  <2>6. r.contents = DialogueParts(m)
    BY <2>1
  <2>7. r.schema = (asked # <<>>)
    BY <2>1
  <2> QED BY <1>3, <2>2, <2>4, <2>5, <2>6, <2>7
<1> QED BY <1>4, <1>5, <1>6, LLMAssumption

(* The answers that were rejected, those that failed for a while, and the *)
(* codes of the first.                                                     *)
RejectedOf(a)   == Picked(a, {i \in DOMAIN a : a[i].rejected})
TransientsOf(a) == Picked(a, {i \in DOMAIN a : a[i].kind = "transient"})
CodesOf(a)      == [k \in DOMAIN RejectedOf(a) |-> RejectedOf(a)[k].code]

\* What one more answer adds.
LEMMA RejectedAppend ==
  ASSUME NEW a \in Seq(Answers), NEW x \in Answers
  PROVE  /\ RejectedOf(a) \in Seq(Answers) /\ TransientsOf(a) \in Seq(Answers)
         /\ RejectedOf(Append(a, x)) = IF x.rejected THEN Append(RejectedOf(a), x) ELSE RejectedOf(a)
         /\ TransientsOf(Append(a, x)) = IF x.kind = "transient" THEN Append(TransientsOf(a), x)
                                         ELSE TransientsOf(a)
<1>. DEFINE u == Append(a, x)
            I == {i \in DOMAIN u : u[i].rejected}
            J == {i \in DOMAIN a : a[i].rejected}
            K == {i \in DOMAIN u : u[i].kind = "transient"}
            L == {i \in DOMAIN a : a[i].kind = "transient"}
<1>1. /\ Len(a) \in Nat /\ u \in Seq(Answers) /\ Len(u) = Len(a) + 1 /\ u[Len(a) + 1] = x
      /\ \A i \in 1..Len(a) : u[i] = a[i]
  OBVIOUS
<1>2. Len(a) + 1 \in DOMAIN u /\ \A i \in 1..Len(a) : i \in DOMAIN u /\ i \in DOMAIN a
  OBVIOUS
<1>. HIDE DEF u
<1>3. (Len(a) + 1 \in I <=> x.rejected) /\ \A i \in 1..Len(a) : i \in I <=> i \in J
  BY <1>1, <1>2
<1>4. (Len(a) + 1 \in K <=> x.kind = "transient") /\ \A i \in 1..Len(a) : i \in K <=> i \in L
  BY <1>1, <1>2
<1>. HIDE DEF I, J, K, L
<1>5. /\ Picked(Append(a, x), I) = IF Len(a) + 1 \in I THEN Append(Picked(a, I), x) ELSE Picked(a, I)
      /\ Picked(Append(a, x), K) = IF Len(a) + 1 \in K THEN Append(Picked(a, K), x) ELSE Picked(a, K)
  BY PickedAppend
<1>6. Picked(a, I) = Picked(a, J)
  BY <1>3, PickedSame
<1>7. Picked(a, K) = Picked(a, L)
  BY <1>4, PickedSame
<1>8. Picked(a, J) \in Seq(Answers) /\ Picked(a, L) \in Seq(Answers)
  BY PickedSeq
<1> QED BY <1>3, <1>4, <1>5, <1>6, <1>7, <1>8 DEF RejectedOf, TransientsOf, u, I, J, K, L

\* LastRejection of the answers a, and what later answers leave of it.
RejectionBefore(a, n) ==
  LET r == Picked(a, {i \in 1..n : a[i].rejected}) IN IF r = <<>> THEN NoCode ELSE Last(r).code

\* A later answer leaves what was the last rejection before.
LEMMA RejectionStable ==
  ASSUME NEW a \in Seq(Answers), NEW x \in Answers, NEW n \in 0..Len(a)
  PROVE  RejectionBefore(Append(a, x), n) = RejectionBefore(a, n)
<1>. DEFINE u == Append(a, x)
            I == {i \in 1..n : u[i].rejected}
            J == {i \in 1..n : a[i].rejected}
<1>1. Len(a) \in Nat /\ \A i \in 1..Len(a) : u[i] = a[i]
  OBVIOUS
<1>2. Len(a) + 1 \notin I
  OBVIOUS
<1>. HIDE DEF u
<1>3. I = J
  BY <1>1
<1>. HIDE DEF I, J
<1>4. Picked(Append(a, x), I) = IF Len(a) + 1 \in I THEN Append(Picked(a, I), x) ELSE Picked(a, I)
  BY PickedAppend
<1>5. Picked(u, I) = Picked(a, J)
  BY <1>2, <1>3, <1>4 DEF u
<1> QED BY <1>5 DEF RejectionBefore, u, I, J

\* The last rejection of all answers.
LEMMA RejectionNow ==
  ASSUME NEW a \in Seq(Answers)
  PROVE  RejectionBefore(a, Len(a)) = IF RejectedOf(a) = <<>> THEN NoCode ELSE Last(RejectedOf(a)).code
<1>1. DOMAIN a = 1..Len(a)
  OBVIOUS
<1> QED BY <1>1 DEF RejectionBefore, RejectedOf

\* One more answer is the last rejection, or leaves it.
LEMMA RejectionAppend ==
  ASSUME NEW a \in Seq(Answers), NEW x \in Answers
  PROVE  RejectionBefore(Append(a, x), Len(Append(a, x)))
           = IF x.rejected THEN x.code ELSE RejectionBefore(a, Len(a))
<1>. DEFINE u == Append(a, x)
            r == RejectedOf(a)
            s == RejectedOf(u)
<1>1. r \in Seq(Answers) /\ s = IF x.rejected THEN Append(r, x) ELSE r
  BY RejectedAppend
<1>2. u \in Seq(Answers)
  OBVIOUS
<1>. HIDE DEF u, r, s
<1>3. RejectionBefore(u, Len(u)) = IF s = <<>> THEN NoCode ELSE Last(s).code
  BY <1>2, RejectionNow DEF s
<1>4. RejectionBefore(a, Len(a)) = IF r = <<>> THEN NoCode ELSE Last(r).code
  BY RejectionNow DEF r
<1>5. Append(r, x) # <<>> /\ Last(Append(r, x)) = x
  BY <1>1 DEF Last
<1>6. RejectionBefore(u, Len(u)) = IF x.rejected THEN x.code ELSE RejectionBefore(a, Len(a))
  BY <1>1, <1>3, <1>4, <1>5
<1> QED BY <1>6 DEF u

\* A request is made of the answers before it.
Follows(r, a, i, kind) ==
  /\ DialogueParts(r.contents) = DialogueParts(Conversation)
  /\ RejectionBefore(a, i - 1) # NoCode => Instruction(r) = RejectionBefore(a, i - 1)
  /\ r.schema <=> kind # "text"
  /\ i > 1 => a[i - 1].kind = "transient" \/ a[i - 1].rejected

\* RequestsFollowAnswers, request by request.
LEMMA RequestsFollow ==
  RequestsFollowAnswers <=> \A i \in DOMAIN sent : Follows(sent[i], answers, i, call)
BY DEF RequestsFollowAnswers, Follows, LastRejection, Rejections, RejectionBefore

\* While a call lasts the service knows every answer it got.
Counting ==
  /\ provider \in Providers /\ Len(sent) < MaxAttempts
  /\ active = RejectionBefore(answers, Len(answers))
  /\ active # NoCode => active \in RepairCodes
  /\ retries = Len(TransientsOf(answers)) /\ repairs = Len(RejectedOf(answers))
  /\ codes = CodesOf(answers)
  /\ retries + repairs = Len(answers) /\ repairs <= MaxRepairs
  /\ answers # <<>> => answers[Len(answers)].kind = "transient" \/ answers[Len(answers)].rejected

(* The invariant of the calls: every request follows the answers before    *)
(* it, and a call that lasts has counted them.                             *)
LLMInv ==
  /\ LLMTypeOK
  /\ sent \in Seq(SentRequests) /\ answers \in Seq(Answers)
  /\ RequestsFollowAnswers /\ CountsAreTrue
  /\ service = "calling" => Counting
  /\ service \in {"unset", "idle"} => sent = <<>>

\* The initial state, and every step that makes no request.
LEMMA LLMInit == CallsInit => LLMInv
<1>. SUFFICES ASSUME CallsInit PROVE LLMInv
  OBVIOUS
<1>. USE DEF CallsInit
<1>1. /\ sent \in Seq(SentRequests) /\ answers \in Seq(Answers)
      /\ Len(sent) = 0 /\ Len(answers) = 0 /\ Len(codes) = 0 /\ DOMAIN sent = {}
  OBVIOUS
<1>2. LLMTypeOK
  BY <1>1, LLMAssumption DEF LLMTypeOK, Calls
<1>3. RequestsFollowAnswers /\ CountsAreTrue
  BY <1>1 DEF RequestsFollowAnswers, CountsAreTrue
<1> QED BY <1>1, <1>2, <1>3 DEF LLMInv

\* A provider is created, or the configuration is refused.
LEMMA CreateStep ==
  ASSUME LLMInv, NEW p \in Providers, NEW known, NEW environment, NEW e,
         CreateProvider(p, known, environment, e)
  PROVE  LLMInv'
<1>1. /\ service = "unset" /\ sent = <<>> /\ UNCHANGED <<call, sent, answers, retries, repairs, codes, active>>
      /\ (service' = "idle" /\ provider' = p) \/ (service' = "ended" /\ provider' = provider)
  BY DEF CreateProvider, LLMInv
<1>2. LLMTypeOK'
  BY <1>1 DEF LLMInv, LLMTypeOK
<1>3. RequestsFollowAnswers'
  BY <1>1 DEF LLMInv, RequestsFollowAnswers, LastRejection, Rejections
<1>4. CountsAreTrue'
  BY <1>1 DEF CountsAreTrue
<1> QED BY <1>1, <1>2, <1>3, <1>4 DEF LLMInv

\* A call starts without answers.
LEMMA StartStep == ASSUME LLMInv, NEW kind \in Calls, StartCall(kind) PROVE LLMInv'
<1>1. /\ provider' = provider /\ provider \in Providers /\ service' = "calling" /\ call' = kind
      /\ sent' = <<>> /\ answers' = <<>> /\ retries' = 0 /\ repairs' = 0 /\ codes' = <<>>
      /\ active' = NoCode
  BY DEF StartCall, LLMInv, LLMTypeOK
<1>2. /\ sent' \in Seq(SentRequests) /\ answers' \in Seq(Answers)
      /\ Len(sent') = 0 /\ Len(answers') = 0 /\ Len(codes') = 0 /\ DOMAIN sent' = {}
  BY <1>1
<1>3. LLMTypeOK'
  BY <1>1, <1>2, LLMAssumption DEF LLMTypeOK
<1>4. RequestsFollowAnswers' /\ CountsAreTrue'
  BY <1>1, <1>2 DEF RequestsFollowAnswers, CountsAreTrue
<1>5. Counting'
  <2>1. RejectedOf(<<>>) = <<>> /\ TransientsOf(<<>>) = <<>>
    BY PickedEmpty DEF RejectedOf, TransientsOf
  <2>2. CodesOf(<<>>) = <<>>
    BY <2>1 DEF CodesOf
  <2>3. <<>> \in Seq(Answers) /\ Len(<<>>) = 0
    OBVIOUS
  <2>4. RejectionBefore(<<>>, Len(<<>>)) = NoCode
    BY <2>1, <2>3, RejectionNow
  <2>5. 0 < MaxAttempts /\ 0 <= MaxRepairs
    BY LLMAssumption
  <2> QED BY <1>1, <1>2, <2>1, <2>2, <2>3, <2>4, <2>5 DEF Counting
<1> QED BY <1>1, <1>2, <1>3, <1>4, <1>5 DEF LLMInv

(***************************************************************************)
(* One request and its answer                                              *)
(***************************************************************************)

\* A request made of the answers so far, and its answer, keep RequestsFollowAnswers.
LEMMA RequestStep ==
  ASSUME LLMInv, Counting, NEW e \in Answers, call' = call,
         sent' = Append(sent, Request(provider, call, MessagesWith(active))),
         answers' = Append(answers, e)
  PROVE  /\ sent' \in Seq(SentRequests) /\ answers' \in Seq(Answers)
         /\ Len(sent') = Len(sent) + 1 /\ Len(answers') = Len(answers) + 1
         /\ sent' # <<>> /\ answers' # <<>> /\ answers'[Len(answers')] = e
         /\ SubSeq(answers', 1, Len(answers') - 1) = answers
         /\ RequestsFollowAnswers'
<1>. DEFINE r == Request(provider, call, MessagesWith(active))
            n == Len(sent)
<1>1. /\ sent \in Seq(SentRequests) /\ answers \in Seq(Answers) /\ Len(answers) = n
      /\ provider \in Providers /\ call \in Calls
  BY DEF LLMInv, LLMTypeOK, Counting
<1>2. /\ r \in SentRequests /\ DialogueParts(r.contents) = DialogueParts(Conversation)
      /\ active # NoCode => Instruction(r) = active
      /\ r.schema <=> call # "text"
  BY <1>1, RequestFacts DEF Counting
<1>. HIDE DEF r
<1>3. /\ sent' = Append(sent, r)
      /\ n \in Nat /\ sent' \in Seq(SentRequests) /\ Len(sent') = n + 1 /\ sent' # <<>>
      /\ sent'[n + 1] = r /\ \A i \in 1..n : sent'[i] = sent[i]
  BY <1>1, <1>2 DEF r
<1>4. /\ answers' \in Seq(Answers) /\ Len(answers') = n + 1 /\ answers' # <<>>
      /\ answers'[n + 1] = e /\ \A i \in 1..n : answers'[i] = answers[i]
  BY <1>1
<1>5. SubSeq(answers', 1, Len(answers') - 1) = answers
  <2>. DEFINE t == SubSeq(answers', 1, n)
  <2>1. t \in Seq(Answers) /\ Len(t) = n /\ \A i \in 1..n : t[i] = answers'[i]
    BY <1>3, <1>4
  <2>. HIDE DEF t
  <2>2. t = answers
    BY <1>1, <1>4, <2>1, SequencesEqual
  <2> QED BY <1>3, <1>4, <2>2 DEF t
<1>6. \A i \in 1..n : Follows(sent[i], answers, i, call)
  <2>1. DOMAIN sent = 1..n
    BY <1>1
  <2> QED BY <2>1, RequestsFollow DEF LLMInv
<1>7. \A m \in 0..n : RejectionBefore(answers', m) = RejectionBefore(answers, m)
  BY <1>1, RejectionStable
<1>8. ASSUME NEW i \in 1..(n + 1) PROVE Follows(sent'[i], answers', i, call)
  <2>0. i - 1 \in 0..n
    BY <1>3
  <2>1. CASE i \in 1..n
    <3>1. Follows(sent[i], answers, i, call) /\ sent'[i] = sent[i]
      BY <1>3, <1>6, <2>1
    <3>2. i > 1 => i - 1 \in 1..n
      BY <1>3, <2>1
    <3> QED BY <1>4, <1>7, <2>0, <3>1, <3>2 DEF Follows
  <2>2. CASE i = n + 1
    <3>1. sent'[i] = r /\ i - 1 = n
      BY <1>3, <2>2
    <3>2. RejectionBefore(answers', i - 1) = active
      <4>1. n \in 0..n
        BY <1>3
      <4> QED BY <1>1, <1>7, <3>1, <4>1 DEF Counting
    <3>3. i > 1 => answers'[i - 1].kind = "transient" \/ answers'[i - 1].rejected
      <4>1. SUFFICES ASSUME i > 1 PROVE answers'[n].kind = "transient" \/ answers'[n].rejected
        BY <3>1
      <4>2. n \in 1..n /\ answers # <<>>
        BY <1>1, <1>3, <2>2, <4>1
      <4> QED BY <1>1, <1>4, <4>2 DEF Counting
    <3> QED BY <1>2, <3>1, <3>2, <3>3 DEF Follows
  <2> QED BY <1>3, <2>1, <2>2
<1>9. RequestsFollowAnswers'
  <2>1. DOMAIN sent' = 1..(n + 1)
    BY <1>3
  <2>2. \A i \in DOMAIN sent' : Follows(sent'[i], answers', i, call')
    BY <1>8, <2>1
  <2> QED BY <2>2 DEF RequestsFollowAnswers, Follows, LastRejection, Rejections, RejectionBefore
<1> QED BY <1>1, <1>3, <1>4, <1>5, <1>9

\* The codes are those of the rejected answers, one for each.
LEMMA CodesAppend ==
  ASSUME NEW a \in Seq(Answers), NEW x \in Answers
  PROVE  /\ CodesOf(Append(a, x)) = IF x.rejected THEN Append(CodesOf(a), x.code) ELSE CodesOf(a)
         /\ Len(CodesOf(a)) = Len(RejectedOf(a))
<1>. DEFINE r == RejectedOf(a)
            s == RejectedOf(Append(a, x))
            c(t) == [k \in DOMAIN t |-> t[k].code]
<1>1. r \in Seq(Answers) /\ s = IF x.rejected THEN Append(r, x) ELSE r
  BY RejectedAppend
<1>. HIDE DEF r, s
<1>2. Len(c(r)) = Len(r)
  BY <1>1
<1>3. CASE x.rejected
  <2>1. c(Append(r, x)) = Append(c(r), x.code)
    BY <1>1
  <2> QED BY <1>1, <1>2, <1>3, <2>1 DEF CodesOf, r, s
<1>4. CASE ~x.rejected
  BY <1>1, <1>2, <1>4 DEF CodesOf, r, s
<1> QED BY <1>3, <1>4

\* One request with whatever the service does with its answer.
LEMMA GenerateStep == ASSUME LLMInv, Generate PROVE LLMInv'
<1>1. PICK e \in Outcomes(provider, call) :
        /\ Sent /\ answers' = Append(answers, e)
        /\ RetryCall(e) \/ Repair(e) \/ RaiseCall(e) \/ Deliver(e)
  BY DEF Generate
<1>2. service = "calling" /\ Counting /\ provider' = provider /\ call' = call
  BY DEF Generate, LLMInv, config
<1>3. e \in Answers
  BY <1>2 DEF LLMInv, LLMTypeOK, Counting, Answers
<1>4. /\ sent' \in Seq(SentRequests) /\ answers' \in Seq(Answers)
      /\ Len(sent') = Len(sent) + 1 /\ Len(answers') = Len(answers) + 1
      /\ sent' # <<>> /\ answers' # <<>> /\ answers'[Len(answers')] = e
      /\ SubSeq(answers', 1, Len(answers') - 1) = answers
      /\ RequestsFollowAnswers'
  BY <1>1, <1>2, <1>3, RequestStep DEF Sent
<1>5. /\ LLMTypeOK /\ sent \in Seq(SentRequests) /\ answers \in Seq(Answers)
      /\ Len(sent) = Len(answers) /\ Len(sent) \in Nat
  BY DEF LLMInv, LLMTypeOK
<1>. DEFINE rj == RejectedOf(answers)
            tr == TransientsOf(answers)
<1>6. /\ rj \in Seq(Answers) /\ tr \in Seq(Answers)
      /\ RejectedOf(answers') = IF e.rejected THEN Append(rj, e) ELSE rj
      /\ TransientsOf(answers') = IF e.kind = "transient" THEN Append(tr, e) ELSE tr
  BY <1>1, <1>3, <1>5, RejectedAppend
<1>7. /\ CodesOf(answers') = IF e.rejected THEN Append(codes, e.code) ELSE codes
      /\ Len(codes) = Len(rj)
  BY <1>1, <1>2, <1>3, <1>5, CodesAppend DEF Counting
<1>8. RejectionBefore(answers', Len(answers')) = IF e.rejected THEN e.code ELSE active
  BY <1>1, <1>2, <1>3, <1>5, RejectionAppend DEF Counting
<1>9. e.rejected => e.kind = "output" /\ e.code \in RepairCodes
  BY <1>3, AnswerFacts
<1>10. retries = Len(tr) /\ repairs = Len(rj) /\ retries + repairs = Len(answers) /\ codes = CodesOf(answers)
  BY <1>2 DEF Counting
<1>11. retries \in Nat /\ repairs \in Nat /\ MaxAttempts \in Nat /\ MaxRepairs \in Nat
  BY <1>6, <1>10, LLMAssumption
<1>. HIDE DEF rj, tr
<1>12. ~LastAttempt => Len(sent') < MaxAttempts
  BY <1>2, <1>4, <1>5, <1>11 DEF LastAttempt, AttemptNumber, Counting
<1>13. Len(sent') <= MaxAttempts
  BY <1>2, <1>4, <1>5, <1>11 DEF Counting
<1>14. CASE RetryCall(e)
  <2>1. /\ e.kind = "transient" /\ ~LastAttempt /\ ~e.rejected
        /\ retries' = retries + 1 /\ UNCHANGED <<service, repairs, codes, active, outcome>>
    BY <1>9, <1>14 DEF RetryCall, CanRetry
  <2>2. LLMTypeOK'
    BY <1>2, <1>4, <1>5, <1>10, <1>11, <1>12, <2>1 DEF LLMTypeOK, Counting
  <2>3. Len(Append(tr, e)) = Len(tr) + 1
    BY <1>3, <1>6
  <2>4. Counting'
    <3>1. provider' \in Providers /\ Len(sent') < MaxAttempts /\ repairs' <= MaxRepairs
      BY <1>2, <1>12, <2>1 DEF Counting
    <3>2. active' = RejectionBefore(answers', Len(answers')) /\ (active' # NoCode => active' \in RepairCodes)
      BY <1>2, <1>8, <2>1 DEF Counting
    <3>3. RejectedOf(answers') = rj /\ TransientsOf(answers') = Append(tr, e)
      BY <1>6, <2>1
    <3>4. retries' = Len(TransientsOf(answers')) /\ repairs' = Len(RejectedOf(answers'))
      BY <1>10, <2>1, <2>3, <3>3
    <3>5. codes' = CodesOf(answers')
      BY <1>7, <2>1
    <3>6. retries' + repairs' = Len(answers')
      BY <1>4, <1>5, <1>10, <1>11, <2>1
    <3> QED BY <1>4, <2>1, <3>1, <3>2, <3>4, <3>5, <3>6 DEF Counting
  <2>5. CountsAreTrue'
    BY <1>2, <2>1 DEF CountsAreTrue
  <2> QED BY <1>2, <1>4, <2>1, <2>2, <2>4, <2>5 DEF LLMInv
<1>15. CASE Repair(e)
  <2>1. /\ e.kind = "output" /\ e.rejected /\ repairs < MaxRepairs /\ ~LastAttempt
        /\ repairs' = repairs + 1 /\ codes' = Append(codes, e.code) /\ active' = e.code
        /\ UNCHANGED <<service, retries, outcome>>
    BY <1>15 DEF Repair, CanRepair
  <2>2. Len(Append(rj, e)) = Len(rj) + 1
    BY <1>3, <1>6
  <2>3. Len(codes') = Len(rj) + 1
    <3>1. rj \in Seq(Answers) /\ CodesOf(answers) = [k \in DOMAIN rj |-> rj[k].code]
      BY <1>6 DEF CodesOf, rj
    <3>2. codes = [k \in 1..Len(rj) |-> rj[k].code] /\ Len(rj) \in Nat
      BY <1>10, <3>1
    <3> QED BY <2>1, <3>2
  <2>4. LLMTypeOK'
    BY <1>2, <1>4, <1>5, <1>10, <1>11, <1>12, <2>1, <2>3 DEF LLMTypeOK, Counting
  <2>5. Counting'
    <3>1. provider' \in Providers /\ Len(sent') < MaxAttempts /\ repairs' <= MaxRepairs
      BY <1>2, <1>11, <1>12, <2>1 DEF Counting
    <3>2. active' = RejectionBefore(answers', Len(answers')) /\ (active' # NoCode => active' \in RepairCodes)
      BY <1>8, <1>9, <2>1
    <3>3. RejectedOf(answers') = Append(rj, e) /\ TransientsOf(answers') = tr
      BY <1>6, <2>1
    <3>4. retries' = Len(TransientsOf(answers')) /\ repairs' = Len(RejectedOf(answers'))
      BY <1>10, <2>1, <2>2, <3>3
    <3>5. codes' = CodesOf(answers')
      BY <1>7, <2>1
    <3>6. retries' + repairs' = Len(answers')
      <4>1. retries' = retries /\ repairs' = repairs + 1
        BY <2>1
      <4>2. Len(answers') = retries + repairs + 1
        BY <1>4, <1>10
      <4> QED BY <1>11, <4>1, <4>2
    <3> QED BY <1>4, <2>1, <3>1, <3>2, <3>4, <3>5, <3>6 DEF Counting
  <2>6. CountsAreTrue'
    BY <1>2, <2>1 DEF CountsAreTrue
  <2> QED BY <1>2, <1>4, <2>1, <2>4, <2>5, <2>6 DEF LLMInv
<1>16. /\ RejectedOf(SubSeq(answers', 1, Len(answers') - 1)) = rj
       /\ TransientsOf(SubSeq(answers', 1, Len(answers') - 1)) = tr
       /\ Last(answers') = e
  BY <1>4 DEF rj, tr, Last
<1>17. CASE RaiseCall(e)
  <2>1. /\ e.kind # "result" /\ service' = "ended"
        /\ outcome' = [code |-> e.code, ok |-> FALSE, codes |-> <<>>,
                       retries |-> IF call = "text" THEN 0 ELSE retries, repairs |-> repairs]
        /\ UNCHANGED <<retries, repairs, codes, active>>
    BY <1>17 DEF RaiseCall
  <2>2. LLMTypeOK'
    BY <1>2, <1>4, <1>5, <1>13, <2>1 DEF LLMTypeOK
  <2>3. /\ ~outcome'.ok /\ outcome'.repairs = repairs
        /\ call # "text" => outcome'.retries = retries
    BY <2>1
  <2>4. CountsAreTrue'
    BY <1>2, <1>10, <1>16, <2>1, <2>3 DEF CountsAreTrue, RejectedOf, TransientsOf
  <2> QED BY <1>2, <1>4, <2>1, <2>2, <2>4 DEF LLMInv
<1>18. CASE Deliver(e)
  <2>1. /\ e.kind = "result" /\ service' = "ended"
        /\ outcome' = [code |-> NoCode, ok |-> TRUE, codes |-> codes,
                       retries |-> retries, repairs |-> repairs]
        /\ UNCHANGED <<retries, repairs, codes, active>>
    BY <1>18 DEF Deliver
  <2>2. LLMTypeOK'
    BY <1>2, <1>4, <1>5, <1>13, <2>1 DEF LLMTypeOK
  <2>3. outcome'.ok /\ outcome'.repairs = repairs /\ outcome'.retries = retries /\ outcome'.codes = codes
    BY <2>1
  <2>4. outcome'.codes = [k \in DOMAIN rj |-> rj[k].code]
    BY <1>10, <2>3 DEF CodesOf, rj
  <2>5. CountsAreTrue'
    BY <1>10, <1>16, <2>1, <2>3, <2>4 DEF CountsAreTrue, RejectedOf, TransientsOf
  <2> QED BY <1>2, <1>4, <2>1, <2>2, <2>5 DEF LLMInv
<1> QED BY <1>1, <1>14, <1>15, <1>17, <1>18

\* What CountsAreTrue says of a call that has ended.
Reported(a, o, kind) ==
  LET before     == SubSeq(a, 1, Len(a) - 1)
      rejected   == Picked(before, {i \in DOMAIN before : before[i].rejected})
      transients == Picked(before, {i \in DOMAIN before : before[i].kind = "transient"})
  IN  /\ o.ok <=> Last(a).kind = "result"
      /\ o.repairs = Len(rejected)
      /\ (o.ok \/ kind # "text") => o.retries = Len(transients)
      /\ o.ok => o.codes = [k \in DOMAIN rejected |-> rejected[k].code]

(* For any providers, limits and conversation: a request carries the       *)
(* caller's own dialogue and the instruction of the last answer that was   *)
(* rejected (_repair_messages), is made only after an answer that allows   *)
(* another, and the retries, repairs and codes a call reports are those of *)
(* the answers it got (LLMService._generate_structured, _retry).           *)
THEOREM CallsFollow == LLMSpec => []CallsFollowAnswers
<1>1. LLMInv /\ [CallsNext]_llmvars => LLMInv'
  <2>1. SUFFICES ASSUME LLMInv, [CallsNext]_llmvars PROVE LLMInv'
    OBVIOUS
  <2>2. CASE UNCHANGED llmvars
    <3>1. LLMTypeOK' /\ (Counting => Counting')
      BY <2>1, <2>2 DEF llmvars, LLMInv, LLMTypeOK, Counting
    <3>2. RequestsFollowAnswers'
      BY <2>1, <2>2 DEF llmvars, LLMInv, RequestsFollowAnswers, LastRejection, Rejections
    <3>3. CountsAreTrue'
      <4>1. /\ service' = service /\ sent' = sent /\ answers' = answers /\ outcome' = outcome
            /\ call' = call /\ CountsAreTrue
        BY <2>1, <2>2 DEF llmvars, LLMInv
      <4>2. CountsAreTrue <=> (service = "ended" /\ sent # <<>> => Reported(answers, outcome, call))
        BY DEF CountsAreTrue, Reported
      <4>3. CountsAreTrue' <=> (service' = "ended" /\ sent' # <<>> => Reported(answers', outcome', call'))
        BY DEF CountsAreTrue, Reported
      <4> QED BY <4>1, <4>2, <4>3
    <3> QED BY <2>1, <2>2, <3>1, <3>2, <3>3 DEF llmvars, LLMInv
  <2>3. CASE CallsNext
    BY <2>1, <2>3, CreateStep, StartStep, GenerateStep DEF CallsNext
  <2> QED BY <2>1, <2>2, <2>3
<1>2. LLMInv => CallsFollowAnswers
  BY DEF LLMInv, CallsFollowAnswers
<1> QED BY LLMInit, <1>1, <1>2, PTL DEF LLMSpec
=============================================================================
