---------------------------- MODULE ChannelServe ----------------------------
(***************************************************************************)
(* A polling channel (Telegram, Matrix) of one account: processes that run *)
(* `serve`, the files by which they see each other (runtime_state.rs), the *)
(* gate that lets one of them in (with_channel_serve_runtime), and the     *)
(* loop that polls updates, answers them and acknowledges them with a      *)
(* persisted offset (process_channel_batch and the two adapters).          *)
(*                                                                         *)
(* An action is a file operation, an await, or a critical section of a     *)
(* process; the heartbeat is a task of its own.  Files are written in      *)
(* place: a process that dies while it writes leaves an empty one.  A      *)
(* heartbeat is fresh or stale; how late the timers of a live process are  *)
(* is not bounded.                                                         *)
(***************************************************************************)
EXTENDS Naturals, FiniteSets

CONSTANTS
    Processes,   \* process ids; a pid may be used again
    Once,        \* those whose command is started with --once
    NumUpdates,  \* updates that the platform has for the account (bound)
    Allowed,     \* those that are text messages of an allowed chat
    MaxFaults    \* failures and crashes (bound)

ASSUME ProcessesAssumption == IsFiniteSet(Processes) /\ Once \subseteq Processes
ASSUME UpdatesAssumption == NumUpdates \in Nat /\ Allowed \subseteq 1..NumUpdates
ASSUME MaxFaultsAssumption == MaxFaults \in Nat

VARIABLES
    platform,    \* which adapter
    forgotten,   \* the platform has dropped the updates up to this one
    offset,      \* the offset (or cursor) file: the last update it covers
    file,        \* per pid: the runtime state file
    proc,        \* per pid: the serve command
    beat,        \* per pid: is its heartbeat about to write a snapshot?
    answered,    \* how often each message was answered (history)
    shared,      \* two processes have served at the same time (history)
    exposed,     \* answered messages that no offset covered when a serving
                 \* process failed or died (history)
    faults       \* faults so far

vars == <<platform, forgotten, offset, file, proc, beat, answered, shared, exposed, faults>>

-----------------------------------------------------------------------------
(* Types                                                                   *)

\* The tracker's state, as far as the loader looks at it: running with a fresh
\* or a stale heartbeat, or not running.
TrackerStates == {"fresh", "stale", "stopped"}
FileStates == TrackerStates \cup {"absent", "torn"}

Starting == {"scan", "clear", "check", "rescan", "reclear", "create"}
Serving == {"poll", "begin", "run", "ack", "end", "complete"}
Writing == {"create", "begin", "end", "stop"}
Steps == {"off", "stop", "exit"} \cup Starting \cup Serving

Process ==
    [at : Steps,
     doomed : SUBSET Processes,   \* files that a prune has found inactive
     cur : 0..NumUpdates,         \* current_offset
     pend : 0..NumUpdates,        \* pending_batch_offset (0: none)
     batch : SUBSET Allowed,      \* what is left of the batch
     failed : BOOLEAN]            \* the result of the message is an error

NoProcess == [at |-> "off", doomed |-> {}, cur |-> 0, pend |-> 0, batch |-> {},
              failed |-> FALSE]

\* The loop is left, or will be once the failed message is recorded: the batch
\* and the offsets in memory are not used again.
Leaving == [NoProcess EXCEPT !.at = "stop"]
Failing == [NoProcess EXCEPT !.at = "end", !.failed = TRUE]

Move(q, step) == [q EXCEPT !.at = step]
Goto(p, step) == proc' = [proc EXCEPT ![p] = Move(@, step)]

First(S) == CHOOSE m \in S : \A n \in S : m <= n
Larger(m, n) == IF m > n THEN m ELSE n

updates == <<platform, forgotten, offset>>
history == <<answered, shared, exposed>>

\* write_runtime_state.  The command changes the state and copies it under the
\* tracker's lock, then writes the copy: a process in Writing has it in hand.
WriteState(p) ==
    file' = [file EXCEPT ![p] = IF proc[p].at = "stop" THEN "stopped" ELSE "fresh"]

-----------------------------------------------------------------------------
(* The gate                                                                *)

\* What a reader finds in the file of q; a file that is being written may be
\* empty, and then cannot be parsed.
BeingWritten(q) == proc[q].at \in Writing \/ beat[q]
Readings(q) == {file[q]} \cup IF BeingWritten(q) THEN {"torn"} ELSE {}

\* to_runtime_view: running, unless the heartbeat is too old.
\* (Running_EvenStale: whatever the age of the heartbeat.)
Running_EvenStale(state) == state \in {"fresh", "stale"}
Running(state) == state = "fresh"

\* runtime_state_path_is_inactive: it can be parsed, and it is not running.
Inactive(state) == state \in TrackerStates /\ ~Running(state)

\* prune_inactive_channel_operation_runtime_files: what is inactive ...
Scan(p, next) ==
    /\ \E seen \in [Processes -> FileStates] :
          /\ \A q \in Processes : seen[q] \in Readings(q)
          /\ proc' = [proc EXCEPT ![p].at = next,
                                  ![p].doomed = {q \in Processes : Inactive(seen[q])}]
    /\ UNCHANGED <<updates, file, beat, history, faults>>

\* ... is removed, even if its owner has written it again meanwhile.
Clear(p, next) ==
    /\ file' = [q \in Processes |-> IF q \in proc[p].doomed THEN "absent" ELSE file[q]]
    /\ proc' = [proc EXCEPT ![p].at = next, ![p].doomed = {}]
    /\ UNCHANGED <<updates, beat, history, faults>>

\* ensure_channel_operation_runtime_slot_available: refused if some file says
\* that an instance is running.
Check(p) ==
    /\ proc[p].at = "check"
    /\ \E seen \in [Processes -> FileStates] :
          /\ \A q \in Processes : seen[q] \in Readings(q)
          /\ Goto(p, IF \E q \in Processes : Running(seen[q]) THEN "off" ELSE "rescan")
    /\ UNCHANGED <<updates, file, beat, history, faults>>

\* Serve begins with ensure_..., which prunes and checks; the tracker's start
\* prunes again and creates the file.
Launch(p) ==
    \/ proc[p].at = "off" /\ Scan(p, "clear")
    \/ proc[p].at = "clear" /\ Clear(p, "check")
    \/ Check(p)
    \/ proc[p].at = "rescan" /\ Scan(p, "reclear")
    \/ proc[p].at = "reclear" /\ Clear(p, "create")

\* The initial file is there: the heartbeat is spawned, the adapter reads its
\* offset, and the loop begins.
Created(p) ==
    /\ proc[p].at = "create"
    /\ WriteState(p)
    /\ proc' = [proc EXCEPT ![p] = [NoProcess EXCEPT !.at = "poll", !.cur = offset]]
    /\ shared' = (shared \/ \E q \in Processes \ {p} : proc[q].at \in Serving)
    /\ UNCHANGED <<updates, beat, answered, exposed, faults>>

-----------------------------------------------------------------------------
(* The heartbeat task                                                      *)

\* Awake, and not stopped: it takes its snapshot ...
Beat(p) ==
    /\ proc[p].at \in Serving
    /\ ~beat[p]
    /\ beat' = [beat EXCEPT ![p] = TRUE]
    /\ UNCHANGED <<updates, file, proc, history, faults>>

\* ... and writes it, although the serve command may have shut down since.
WriteBeat(p) ==
    /\ beat[p]
    /\ file' = [file EXCEPT ![p] = "fresh"]
    /\ beat' = [beat EXCEPT ![p] = FALSE]
    /\ UNCHANGED <<updates, proc, history, faults>>

\* Time passes: a heartbeat that was not renewed is stale.  (A copy that is
\* written late is one that turns stale as soon as it is written.)
Age(p) ==
    /\ file[p] = "fresh"
    /\ file' = [file EXCEPT ![p] = "stale"]
    /\ UNCHANGED <<updates, proc, beat, history, faults>>

-----------------------------------------------------------------------------
(* The loop                                                                *)

\* persist_if_newer: the file is written, then the offset in memory.
\* (Saved_InMemory: the file is not written at all.)
Saved_InMemory(q, m) == offset
Saved(q, m) == IF m > q.cur THEN m ELSE offset
Persisted(q, m) == [q EXCEPT !.cur = Larger(@, m)]

\* The end of a round: serve --once leaves the loop, also when there was nothing.
NextRound(p, q) == IF p \in Once THEN Leaving ELSE [q EXCEPT !.at = "poll", !.pend = 0]

\* What the parser lets through: text messages of allowed chats.
Parsed(lo, upto) == Allowed \cap lo..upto

\* receive_batch.  Telegram is told the offset, drops what it covers and answers
\* with updates after it, as many as have arrived; Matrix keeps everything.  The
\* offset of the last update is remembered for later.
Poll(p) ==
    LET q == proc[p]
        lo == Larger(forgotten, q.cur) + 1
    IN
    /\ q.at = "poll"
    /\ forgotten' = IF platform = "telegram" THEN lo - 1 ELSE forgotten
    /\ \/ lo > NumUpdates /\ proc' = [proc EXCEPT ![p] = NextRound(p, q)]
       \/ \E upto \in lo..NumUpdates :
             LET polled == [q EXCEPT !.pend = upto, !.batch = Parsed(lo, upto)]
             IN proc' = [proc EXCEPT ![p] =
                   IF polled.batch = {} THEN Move(polled, "complete")
                   ELSE Move(polled, "begin")]
    /\ UNCHANGED <<platform, offset, file, beat, history, faults>>

\* mark_run_start is written: the message is handed to the turn.
Begun(p) ==
    /\ proc[p].at = "begin"
    /\ WriteState(p)
    /\ Goto(p, "run")
    /\ UNCHANGED <<updates, beat, history, faults>>

\* The turn answers, and the reply is sent.
Answer(p) ==
    LET m == First(proc[p].batch) IN
    /\ proc[p].at = "run"
    /\ answered' = [answered EXCEPT ![m] = IF @ < 2 THEN @ + 1 ELSE @]
    /\ Goto(p, "ack")
    /\ UNCHANGED <<updates, file, beat, shared, exposed, faults>>

\* ack_inbound: Telegram persists the cursor of the message, Matrix nothing.
\* (AckCursor_Batch: the offset of the whole batch.)
AckCursor_Batch(q) == IF platform = "telegram" THEN q.pend ELSE 0
AckCursor(q) == IF platform = "telegram" THEN First(q.batch) ELSE 0
Ack(p) ==
    LET q == proc[p] IN
    /\ q.at = "ack"
    /\ offset' = Saved(q, AckCursor(q))
    /\ proc' = [proc EXCEPT ![p] =
                  [Move(Persisted(q, AckCursor(q)), "end")
                     EXCEPT !.batch = @ \ {First(@)}]]
    /\ UNCHANGED <<platform, forgotten, file, beat, history, faults>>

\* mark_run_end is written: the next message, the end of the batch, or the end
\* of the loop.
AfterMessage(q) ==
    IF q.failed THEN Leaving
    ELSE IF q.batch # {} THEN Move(q, "begin")
    ELSE Move(q, "complete")
Ended(p) ==
    /\ proc[p].at = "end"
    /\ WriteState(p)
    /\ proc' = [proc EXCEPT ![p] = AfterMessage(@)]
    /\ UNCHANGED <<updates, beat, history, faults>>

\* complete_batch: the offset covers the ignored updates too.
CompleteBatch(p) ==
    LET q == proc[p] IN
    /\ q.at = "complete"
    /\ offset' = Saved(q, q.pend)
    /\ proc' = [proc EXCEPT ![p] = NextRound(p, Persisted(q, q.pend))]
    /\ UNCHANGED <<platform, forgotten, file, beat, history, faults>>

\* shutdown has written its last state; the command returns, and the process
\* ends.
ShutDown(p) ==
    /\ proc[p].at = "stop"
    /\ WriteState(p)
    /\ proc' = [proc EXCEPT ![p] = [NoProcess EXCEPT !.at = "exit"]]
    /\ UNCHANGED <<updates, beat, history, faults>>
Exit(p) ==
    /\ proc[p].at = "exit"
    /\ Goto(p, "off")
    /\ beat' = [beat EXCEPT ![p] = FALSE]
    /\ UNCHANGED <<updates, file, history, faults>>

-----------------------------------------------------------------------------
(* Faults                                                                  *)

Fault == faults < MaxFaults /\ faults' = faults + 1

\* The poll fails before anything is received.
PollFails(p) ==
    /\ Fault
    /\ proc[p].at = "poll"
    /\ proc' = [proc EXCEPT ![p] = Leaving]
    /\ UNCHANGED <<updates, file, beat, history>>

\* What is answered and not covered by the offset when p fails may come again.
Expose(p) ==
    exposed' = exposed \cup
        {m \in Allowed : proc[p].at \in Serving /\ answered[m] > 0 /\ m > offset'}

\* The turn or the reply fails; so may the reply that has been delivered.
AnswerFails(p) ==
    /\ Fault
    /\ proc[p].at \in {"run", "ack"}
    /\ proc' = [proc EXCEPT ![p] = Failing]
    /\ UNCHANGED <<updates, file, beat, answered, shared>>
    /\ Expose(p)

\* The offset cannot be written; the file may have been emptied.
SaveFails(p) ==
    /\ Fault
    /\ proc[p].at \in {"ack", "complete"}
    /\ offset' \in {offset, 0}
    /\ proc' = [proc EXCEPT ![p] =
                  IF @.at = "ack" THEN Failing ELSE Leaving]
    /\ UNCHANGED <<platform, forgotten, file, beat, answered, shared>>
    /\ Expose(p)

\* A runtime state file cannot be written: the heartbeat goes on, the command
\* does not.
BeatFails(p) ==
    /\ Fault
    /\ beat[p]
    /\ file' \in {file, [file EXCEPT ![p] = "torn"]}
    /\ beat' = [beat EXCEPT ![p] = FALSE]
    /\ UNCHANGED <<updates, proc, history>>
WriteFails(p) ==
    /\ Fault
    /\ proc[p].at \in Writing
    /\ file' \in {file, [file EXCEPT ![p] = "torn"]}
    /\ proc' = [proc EXCEPT ![p] =
                  IF @.at = "create" THEN NoProcess
                  ELSE IF @.at = "stop" THEN [NoProcess EXCEPT !.at = "exit"]
                  ELSE Leaving]
    /\ UNCHANGED <<updates, beat, answered, shared>>
    /\ Expose(p)

\* The process dies, perhaps in the middle of a write.
Crash(p) ==
    /\ Fault
    /\ proc[p].at # "off"
    /\ file' \in {file} \cup IF BeingWritten(p) THEN {[file EXCEPT ![p] = "torn"]} ELSE {}
    /\ offset' \in {offset} \cup IF proc[p].at \in {"ack", "complete"} THEN {0} ELSE {}
    /\ proc' = [proc EXCEPT ![p] = NoProcess]
    /\ beat' = [beat EXCEPT ![p] = FALSE]
    /\ UNCHANGED <<platform, forgotten, answered, shared>>
    /\ Expose(p)

-----------------------------------------------------------------------------
(* Specification                                                           *)

Init ==
    /\ platform \in {"telegram", "matrix"}
    /\ forgotten = 0
    /\ offset = 0
    /\ file = [p \in Processes |-> "absent"]
    /\ proc = [p \in Processes |-> NoProcess]
    /\ beat = [p \in Processes |-> FALSE]
    /\ answered = [m \in Allowed |-> 0]
    /\ shared = FALSE
    /\ exposed = {}
    /\ faults = 0

Serve(p) ==
    \/ Created(p) \/ Poll(p) \/ Begun(p) \/ Answer(p) \/ Ack(p) \/ Ended(p)
    \/ CompleteBatch(p) \/ ShutDown(p) \/ Exit(p)

Next ==
    \E p \in Processes :
       \/ Launch(p) \/ Serve(p)
       \/ Beat(p) \/ WriteBeat(p) \/ Age(p)
       \/ PollFails(p) \/ AnswerFails(p) \/ SaveFails(p) \/ BeatFails(p)
       \/ WriteFails(p) \/ Crash(p)

\* Somebody starts the command again when it has ended; files are written, the
\* platform and the turn answer, and time passes.
Fairness ==
    \A p \in Processes :
       WF_vars(Launch(p)) /\ WF_vars(Serve(p)) /\ WF_vars(WriteBeat(p)) /\ WF_vars(Age(p))

Spec == Init /\ [][Next]_vars
FairSpec == Spec /\ Fairness

-----------------------------------------------------------------------------
(* Properties                                                              *)

\* Type invariant: offsets, cursors and batches stay within the updates that
\* the platform has.
ChannelTypeOK ==
    /\ platform \in {"telegram", "matrix"}
    /\ forgotten \in 0..NumUpdates
    /\ offset \in 0..NumUpdates
    /\ file \in [Processes -> FileStates]
    /\ proc \in [Processes -> Process]
    /\ beat \in [Processes -> BOOLEAN]
    /\ answered \in [Allowed -> 0..2]
    /\ shared \in BOOLEAN
    /\ exposed \subseteq Allowed
    /\ faults \in 0..MaxFaults

\* No message is lost: what the offset on disk covers, or the platform has
\* dropped, was answered, although polled batches are cut short by errors and
\* crashes, files are torn, and a second process may serve with an offset of
\* its own.
NoMessageLost ==
    \A m \in Allowed : m <= offset \/ m <= forgotten => answered[m] > 0

\* A message is answered twice only if it had been answered and was not covered
\* by the offset on disk when a serving process failed or died (or if two
\* processes have served at the same time).  Whatever else ends a process and
\* starts the next one, serve --once, a failed poll, a lost heartbeat, a refused
\* start or a crash outside the loop, the next one begins after everything that
\* was answered.
RepeatsHaveCause ==
    ~shared => \A m \in Allowed : answered[m] > 1 => m \in exposed

\* Every message is answered in the end: the files that a dead process has left
\* do not keep the next one out for ever, and the updates it had not
\* acknowledged are polled again.
EveryMessageAnswered ==
    <>(\A m \in Allowed : answered[m] > 0)
=============================================================================
