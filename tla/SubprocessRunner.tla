-------------------------- MODULE SubprocessRunner --------------------------
(***************************************************************************)
(* One command of SubprocessRunner: the process and its descendants, a     *)
(* thread that drains each pipe, a thread that writes stdin, and the       *)
(* caller that waits, kills the process group and joins the threads.       *)
(* "leader" is the child, "member" a descendant in its process group and   *)
(* "orphan" one with a session of its own, which no signal of the runner   *)
(* reaches. Sizes are in units: Chunk is the 65536 of a read, MaxOutput    *)
(* the limit of the request. What the bytes are (redaction) is left out.   *)
(***************************************************************************)
EXTENDS Integers, FiniteSets, FiniteSetsExt

CONSTANTS MaxOutput, Chunk, PipeSize, InputSize, MaxBytes

Streams == {"stdout", "stderr"}
Group   == {"leader", "member"}
Procs   == Group \cup {"orphan"}

\* MaxBytes bounds what the processes write to each stream.
ASSUME SizesAssumption ==
  /\ {MaxOutput, Chunk, PipeSize} \subseteq Nat \ {0}
  /\ InputSize \in Nat /\ MaxBytes \in [Streams -> Nat]

VARIABLES
  alive,      \* processes that run
  killed,     \* processes that were sent SIGKILL
  open,       \* per output stream, the processes that hold its write end
  produced,   \* per stream, what was written to it
  unread,     \* per stream, what is in the pipe
  buffered,   \* per stream, what the read in progress has collected
  retained,   \* per stream, the bytearray of its reader
  reader,     \* per stream, its thread: "reading" or "ended"
  writer,     \* the stdin thread: "none", "writing" or "ended"
  unsent,     \* what it has not written yet
  inpipe,     \* what is in the stdin pipe
  clock,      \* "early", "late" (deadline passed), "over" (cleanup passed)
  pc,         \* where the caller is in _execute_command
  timedOut,   \* timed_out
  result      \* what run_bytes returns or raises

vars == <<alive, killed, open, produced, unread, buffered, retained, reader,
          writer, unsent, inpipe, clock, pc, timedOut, result>>

NoResult == [raised |-> FALSE, size |-> [s \in Streams |-> 0], truncated |-> {}]

processes == <<alive, killed, open, produced>>
threads   == <<unread, buffered, retained, reader, writer, unsent, inpipe>>
caller    == <<clock, pc, timedOut, result>>

TypeOK ==
  /\ alive \subseteq Procs /\ killed \subseteq Group
  /\ open \in [Streams -> SUBSET Procs]
  /\ produced \in [Streams -> Nat] /\ \A s \in Streams : produced[s] <= MaxBytes[s]
  /\ unread \in [Streams -> 0..PipeSize]
  /\ buffered \in [Streams -> 0..Chunk]
  /\ retained \in [Streams -> 0..(MaxOutput + 1)]
  /\ reader \in [Streams -> {"reading", "ended"}]
  /\ writer \in {"none", "writing", "ended"}
  /\ unsent \in 0..InputSize /\ inpipe \in 0..PipeSize
  /\ clock \in {"early", "late", "over"}
  /\ pc \in {"wait", "terminated", "kill", "stdin", "stdout", "stderr", "returned"}
  /\ timedOut \in BOOLEAN

\* Popen: the child and whatever it starts inherit the pipes.
Init ==
  /\ alive \in {{"leader"} \cup d : d \in SUBSET {"member", "orphan"}}
  /\ killed = {} /\ open = [s \in Streams |-> alive]
  /\ produced = [s \in Streams |-> 0] /\ unread = produced
  /\ buffered = produced /\ retained = produced
  /\ reader = [s \in Streams |-> "reading"]
  /\ writer \in {"none", "writing"}
  /\ unsent = (IF writer = "none" THEN 0 ELSE InputSize) /\ inpipe = 0
  /\ clock = "early" /\ pc = "wait" /\ timedOut = FALSE /\ result = NoResult

-----------------------------------------------------------------------------
(* The processes of the command *)

ProcessWrites(p, s) ==
  /\ p \in alive \cap open[s] /\ reader[s] = "reading"
  /\ unread[s] < PipeSize /\ produced[s] < MaxBytes[s]
  /\ produced' = [produced EXCEPT ![s] = @ + 1]
  /\ unread' = [unread EXCEPT ![s] = @ + 1]
  /\ UNCHANGED <<alive, killed, open, buffered, retained, reader, writer, unsent, inpipe, caller>>

ProcessReads ==
  /\ alive # {} /\ inpipe > 0
  /\ inpipe' = inpipe - 1
  /\ UNCHANGED <<processes, unread, buffered, retained, reader, writer, unsent, caller>>

\* An exit closes the ends the process holds.
ProcessEnds(p) ==
  /\ p \in alive
  /\ alive' = alive \ {p} /\ open' = [s \in Streams |-> open[s] \ {p}]
  /\ UNCHANGED <<killed, produced, threads, caller>>

\* A process that sends its output elsewhere closes them and runs on.
ProcessDetaches(p) ==
  /\ p \in alive /\ open # [s \in Streams |-> open[s] \ {p}]
  /\ open' = [s \in Streams |-> open[s] \ {p}]
  /\ UNCHANGED <<alive, killed, produced, threads, caller>>

-----------------------------------------------------------------------------
(* The threads *)

\* stream.read(65536) collects until it has that much or the pipe ends, and
\* holds the lock of the stream as long as that takes.
Collect(s) ==
  /\ reader[s] = "reading" /\ unread[s] > 0 /\ buffered[s] < Chunk
  /\ unread' = [unread EXCEPT ![s] = @ - 1]
  /\ buffered' = [buffered EXCEPT ![s] = @ + 1]
  /\ UNCHANGED <<processes, retained, reader, writer, unsent, inpipe, caller>>

AtEnd(s) == unread[s] = 0 /\ open[s] = {}

CaptureLimit_Exact == MaxOutput
CaptureLimit == MaxOutput + 1

\* The caller waits in stream.close() for the lock of s.
Closing(s) == pc = s /\ clock = "over" /\ timedOut

\* A reader that has what it may keep goes on reading, so that the process is
\* not blocked by a full pipe. A caller that waits for the lock can get it
\* between two reads: the next one raises ValueError and the reader ends.
Keep(s) ==
  /\ reader[s] = "reading" /\ buffered[s] > 0
  /\ buffered[s] = Chunk \/ AtEnd(s)
  /\ retained' = [retained EXCEPT ![s] = Min({@ + buffered[s], CaptureLimit})]
  /\ buffered' = [buffered EXCEPT ![s] = 0]
  /\ \/ UNCHANGED <<unread, reader>>
     \/ /\ Closing(s)
        /\ reader' = [reader EXCEPT ![s] = "ended"]
        /\ unread' = [unread EXCEPT ![s] = 0]
  /\ UNCHANGED <<processes, writer, unsent, inpipe, caller>>

ReaderEnds(s) ==
  /\ reader[s] = "reading" /\ buffered[s] = 0 /\ AtEnd(s)
  /\ reader' = [reader EXCEPT ![s] = "ended"]
  /\ UNCHANGED <<processes, unread, buffered, retained, writer, unsent, inpipe, caller>>

WriterSends ==
  /\ writer = "writing" /\ unsent > 0 /\ inpipe < PipeSize /\ alive # {}
  /\ unsent' = unsent - 1 /\ inpipe' = inpipe + 1
  /\ UNCHANGED <<processes, unread, buffered, retained, reader, writer, caller>>

\* Everything is written, or nobody is left to read it (BrokenPipeError).
WriterEnds ==
  /\ writer = "writing" /\ (unsent = 0 \/ alive = {})
  /\ writer' = "ended"
  /\ UNCHANGED <<processes, unread, buffered, retained, reader, unsent, inpipe, caller>>

-----------------------------------------------------------------------------
(* The caller *)

\* The deadline of the request and then the one of the cleanup pass.
DeadlinePasses ==
  /\ pc # "returned"
  /\ \/ clock = "early" /\ clock' = "late"
     \/ clock = "late" /\ pc \in Streams \cup {"stdin"} /\ clock' = "over"
  /\ UNCHANGED <<processes, threads, pc, timedOut, result>>

GroupKilled_ChildOnly == {"leader"} \cap alive
GroupKilled == Group \cap alive

\* process.wait(timeout) returns, or TimeoutExpired kills the group.
Wait ==
  /\ pc = "wait"
  /\ \/ "leader" \notin alive /\ pc' = "kill" /\ UNCHANGED <<killed, timedOut>>
     \/ /\ clock = "late"
        /\ timedOut' = TRUE /\ killed' = killed \cup GroupKilled /\ pc' = "terminated"
  /\ UNCHANGED <<alive, open, produced, threads, clock, result>>

\* wait(timeout=0.25), and process.kill() when that expires too.
WaitAgain ==
  /\ pc = "terminated" /\ pc' = "kill"
  /\ killed' = killed \cup ({"leader"} \cap alive)
  /\ UNCHANGED <<alive, open, produced, threads, clock, timedOut, result>>

KillGroup_OnTimeoutOnly ==
  /\ pc = "kill" /\ pc' = "stdin"
  /\ killed' = IF timedOut THEN killed \cup GroupKilled ELSE killed
  /\ UNCHANGED <<alive, open, produced, threads, clock, timedOut, result>>
\* The finally clause: whatever is left of the group.
KillGroup ==
  /\ pc = "kill" /\ pc' = "stdin"
  /\ killed' = killed \cup GroupKilled
  /\ UNCHANGED <<alive, open, produced, threads, clock, timedOut, result>>

Thread(x) == IF x = "stdin" THEN writer ELSE reader[x]
Following == [stdin |-> "stdout", stdout |-> "stderr", stderr |-> "returned"]

Returned(late) ==
  [raised |-> late,
   size |-> [s \in Streams |-> Min({retained[s], MaxOutput})],
   truncated |-> {s \in Streams : retained[s] > MaxOutput}]

\* join(timeout) of a thread that ends, or the stream.close() of one that was
\* given up: it gets the lock of the stream only when the read is over.
Join(x) ==
  /\ pc = x /\ Thread(x) \in {"ended", "none"}
  /\ pc' = Following[x]
  /\ result' = IF pc' = "returned" THEN Returned(timedOut) ELSE result
  /\ UNCHANGED <<processes, threads, clock, timedOut>>

\* The thread is alive after the join.
GiveUp(x) ==
  /\ pc = x /\ clock = "over" /\ Thread(x) \in {"reading", "writing"} /\ ~timedOut
  /\ timedOut' = TRUE
  /\ UNCHANGED <<processes, threads, clock, pc, result>>

-----------------------------------------------------------------------------
ProcessStep ==
  \/ ProcessReads
  \/ \E p \in Procs : ProcessEnds(p) \/ ProcessDetaches(p) \/ \E s \in Streams : ProcessWrites(p, s)
ThreadStep(s) == Collect(s) \/ Keep(s) \/ ReaderEnds(s)
WriterStep == WriterSends \/ WriterEnds
CallerStep == Wait \/ WaitAgain \/ KillGroup \/ \E x \in DOMAIN Following : Join(x) \/ GiveUp(x)

Next ==
  \/ ProcessStep \/ WriterStep \/ CallerStep \/ DeadlinePasses
  \/ \E s \in Streams : ThreadStep(s)

Spec == Init /\ [][Next]_vars

\* Threads and clock go on, and a process that was sent SIGKILL dies.
Fairness ==
  /\ \A s \in Streams : WF_vars(ThreadStep(s))
  /\ WF_vars(WriterStep) /\ WF_vars(CallerStep) /\ WF_vars(DeadlinePasses)
  /\ \A p \in Group : WF_vars(p \in killed /\ ProcessEnds(p))

FairSpec == Spec /\ Fairness

-----------------------------------------------------------------------------
(* A result that is not a timeout holds the whole output of every process  *)
(* that held a pipe, up to the limit, and says truncated exactly when      *)
(* there was more.                                                         *)
OutputIsComplete ==
  pc = "returned" /\ ~result.raised =>
    \A s \in Streams :
      /\ open[s] = {}
      /\ result.size[s] = Min({produced[s], MaxOutput})
      /\ s \in result.truncated <=> produced[s] > MaxOutput

(* Nothing of the process group is left to run on after the command        *)
(* returned, whatever way it ended.                                        *)
NoneSurvives == pc = "returned" => Group \cap alive \subseteq killed

(* When a command has returned, all of it is over: what it wrote is in the *)
(* result and its processes are gone.                                      *)
ReturnIsFinal == OutputIsComplete /\ NoneSurvives

(* "A spawned descendant must not extend the command beyond its overall    *)
(* deadline": every command returns, by itself or by the deadline.         *)
CommandReturns == <>(pc = "returned")
=============================================================================
