-------------------------- MODULE DelegateSessions --------------------------
(***************************************************************************)
(* The life of the delegate children of one parent session: the rows that  *)
(* crates/app/src/session/repository.rs keeps (sessions, session_events,   *)
(* session_terminal_outcomes), the code that runs a child inline or in a   *)
(* detached task (conversation/turn_coordinator.rs, runtime.rs), and the   *)
(* session_cancel, session_recover and session_archive tools               *)
(* (tools/session.rs), which read a snapshot first and act on it later.    *)
(*                                                                         *)
(* One action is one SQLite transaction or one await of a worker.  A       *)
(* repository call may fail before it writes anything, or after it has     *)
(* committed (every writer re-reads the row after its commit).  The        *)
(* process may crash: the rows stay, the workers and the snapshots do not. *)
(***************************************************************************)
EXTENDS Integers, FiniteSets

CONSTANTS
    Children,           \* delegate session ids
    Operators,          \* concurrent calls of the session tools
    MaxActiveChildren,  \* tools.delegate.max_active_children
    Timeout             \* timeout_seconds of every child

ASSUME MaxActiveChildrenAssumption == MaxActiveChildren \in Nat
ASSUME TimeoutAssumption == Timeout \in Nat

VARIABLES
    state,      \* sessions.state; "absent": no such row
    mode,       \* execution.mode in the child's first event
    age,        \* seconds since queued_at (Ready) or started_at (Running)
    outcome,    \* session_terminal_outcomes.status; "none": no row
    log,        \* the kinds in session_events
    worker,     \* where the code that runs the child is
    result,     \* what the child's turn came to, while it is being stored
    failed,     \* will that code return Err?
    reported,   \* what an inline delegate returned to its parent
    hook,       \* the subagent hooks: "none", "prepared" or "ended"
    plan        \* the plan each operator has built from its snapshot

vars == <<state, mode, age, outcome, log, worker, result, failed, reported,
          hook, plan>>
rows == <<state, mode, age, outcome, log>>

-----------------------------------------------------------------------------
(* Types                                                                   *)

Active == {"Ready", "Running"}
TerminalStates == {"Completed", "Failed", "TimedOut"}
States == {"absent"} \cup Active \cup TerminalStates

Modes == {"none", "inline", "async"}
Outcomes == {"none", "ok", "error", "timeout"}

TerminalEvents ==
    {"delegate_completed", "delegate_failed", "delegate_timed_out",
     "delegate_spawn_failed", "delegate_cancelled", "delegate_recovery_applied"}
EventKinds ==
    {"delegate_queued", "delegate_started", "delegate_cancel_requested",
     "session_archived"} \cup TerminalEvents

WorkerSteps ==
    {"none", "create", "queued", "start", "turn", "finalize", "recover",
     "mark", "end", "spawn_failed", "spawn_recover", "spawn_mark", "gone",
     "dropped"}

NoChild == "no child"
Plan == [tool : {"none", "cancel", "recover", "archive"},
         child : Children \cup {NoChild}, from : States]
NoPlan == [tool |-> "none", child |-> NoChild, from |-> "absent"]

-----------------------------------------------------------------------------
(* The repository                                                          *)

\* count_active_direct_children_with_conn
ActiveChildren == {c \in Children : state[c] \in Active}

\* The test in create_delegate_child_session_with_event_if_within_limit, made
\* in the IMMEDIATE transaction that inserts the row.
WithinLimit_OffByOne == Cardinality(ActiveChildren) <= MaxActiveChildren
WithinLimit == Cardinality(ActiveChildren) < MaxActiveChildren

Insert(c, m, st, ev) ==
    /\ WithinLimit
    /\ state' = [state EXCEPT ![c] = st]
    /\ mode' = [mode EXCEPT ![c] = m]
    /\ age' = [age EXCEPT ![c] = 0]
    /\ log' = [log EXCEPT ![c] = {ev}]
    /\ UNCHANGED outcome

NoWrite == UNCHANGED rows

\* UPDATE ... WHERE session_id = c AND state = from, with the event and the
\* terminal outcome of the same transaction ("none": the statement is not
\* part of it).
Put(c, to, ev, out) ==
    /\ state' = [state EXCEPT ![c] = to]
    /\ log' = [log EXCEPT ![c] = IF ev = "none" THEN @ ELSE @ \cup {ev}]
    /\ outcome' = [outcome EXCEPT ![c] = IF out = "none" THEN @ ELSE out]
    /\ UNCHANGED mode

WriteIfCurrent_Blind(c, from, to, ev, out) == Put(c, to, ev, out)
WriteIfCurrent(c, from, to, ev, out) ==
    /\ state[c] = from
    /\ Put(c, to, ev, out)

Goto(c, step) == worker' = [worker EXCEPT ![c] = step]

Attempt_LogsStale(c, from, to, ev, out, ok, skipped, err) ==
    /\ \/ WriteIfCurrent(c, from, to, ev, out) /\ Goto(c, ok)
       \/ state[c] # from /\ Put(c, state[c], ev, "none") /\ Goto(c, skipped)
       \/ NoWrite /\ Goto(c, err)
    /\ UNCHANGED age

\* A repository call of worker c: it commits and answers; it commits but the
\* re-read fails; it finds another state; or it fails without a write.
Attempt(c, from, to, ev, out, ok, skipped, err) ==
    /\ \/ WriteIfCurrent(c, from, to, ev, out) /\ Goto(c, ok)
       \/ WriteIfCurrent(c, from, to, ev, out) /\ Goto(c, err)
       \/ state[c] # from /\ NoWrite /\ Goto(c, skipped)
       \/ NoWrite /\ Goto(c, err)
    /\ UNCHANGED age

-----------------------------------------------------------------------------
(* Spawning                                                                *)

\* execute_delegate_tool: the prepare hook comes before the row (when it
\* fails there is no child at all) ...
PrepareInline(c) ==
    /\ state[c] = "absent" /\ worker[c] = "none"
    /\ hook' = [hook EXCEPT ![c] = "prepared"]
    /\ Goto(c, "create")
    /\ UNCHANGED <<rows, result, failed, reported, plan>>

\* ... and the row is born Running.  A failed insert, or one that is refused
\* by the limit, still runs the end hook.
CreateInline(c) ==
    /\ worker[c] = "create"
    /\ \/ Insert(c, "inline", "Running", "delegate_started") /\ Goto(c, "turn")
          /\ UNCHANGED failed
       \/ Insert(c, "inline", "Running", "delegate_started") /\ Goto(c, "end")
          /\ failed' = [failed EXCEPT ![c] = TRUE]
       \/ NoWrite /\ Goto(c, "end")
          /\ failed' = [failed EXCEPT ![c] = TRUE]
    /\ UNCHANGED <<result, reported, hook, plan>>

\* execute_delegate_async_tool: the row is born Ready and the detached task is
\* spawned; when the insert reports an error, nothing is spawned.
QueueAsync(c) ==
    /\ state[c] = "absent" /\ worker[c] = "none"
    /\ Insert(c, "async", "Ready", "delegate_queued")
    /\ \/ Goto(c, "queued")
       \/ Goto(c, "gone")
    /\ UNCHANGED <<result, failed, reported, hook, plan>>

\* DefaultAsyncDelegateSpawner::spawn up to the prepare hook.
PrepareAsync(c) ==
    /\ worker[c] = "queued"
    /\ \/ Goto(c, "start") /\ hook' = [hook EXCEPT ![c] = "prepared"]
       \/ Goto(c, "spawn_failed") /\ UNCHANGED hook
    /\ UNCHANGED <<rows, result, failed, reported, plan>>

\* Ready -> Running with delegate_started.  If the row is not Ready (it was
\* cancelled or recovered), or the call fails, the work is Err; the end hook
\* runs in every case.
SkippedStart_NoCleanup == "spawn_failed"
SkippedStart == "end"

StartAsync(c) ==
    /\ worker[c] = "start"
    /\ \/ /\ WriteIfCurrent(c, "Ready", "Running", "delegate_started", "none")
          /\ age' = [age EXCEPT ![c] = 0]
          /\ \/ Goto(c, "turn") /\ UNCHANGED failed
             \/ Goto(c, "end") /\ failed' = [failed EXCEPT ![c] = TRUE]
       \/ /\ state[c] # "Ready"
          /\ NoWrite
          /\ Goto(c, SkippedStart)
          /\ failed' = [failed EXCEPT ![c] = TRUE]
       \/ /\ NoWrite
          /\ Goto(c, "end")
          /\ failed' = [failed EXCEPT ![c] = TRUE]
    /\ UNCHANGED <<result, reported, hook, plan>>

-----------------------------------------------------------------------------
(* Running and finishing: run_started_delegate_child_turn_with_runtime     *)

\* The turn ends by itself, with an answer, or with an error or a panic
\* (catch_unwind); or the timeout fires, at Timeout seconds or later.
EndTurn(c, res) ==
    /\ worker[c] = "turn"
    /\ res = "TimedOut" => age[c] >= Timeout
    /\ result' = [result EXCEPT ![c] = res]
    /\ Goto(c, "finalize")
    /\ UNCHANGED <<rows, failed, reported, hook, plan>>

\* The repository cannot be opened, or the summary of a finished child cannot
\* be loaded: the function returns before it has finalized anything.
AbandonTurn(c) ==
    /\ worker[c] = "turn"
    /\ failed' = [failed EXCEPT ![c] = mode[c] = "inline"]
    /\ Goto(c, "end")
    /\ UNCHANGED <<rows, result, reported, hook, plan>>

EventOf(res) ==
    [Completed |-> "delegate_completed", Failed |-> "delegate_failed",
     TimedOut |-> "delegate_timed_out"][res]

OutcomeOf(res) ==
    [Completed |-> "ok", Failed |-> "error", TimedOut |-> "timeout"][res]

\* finalize_delegate_child_terminal_with_recovery, first attempt: a row that
\* is no longer Running is left alone, and that counts as success.
Finalize(c) ==
    /\ worker[c] = "finalize"
    /\ Attempt(c, "Running", result[c], EventOf(result[c]),
               OutcomeOf(result[c]), "end", "end", "recover")
    /\ UNCHANGED <<result, failed, reported, hook, plan>>

\* ... second attempt: Failed with delegate_recovery_applied, no outcome; the
\* function returns Err whatever comes of it.
RecoverFinalize(c) ==
    /\ worker[c] = "recover"
    /\ Attempt(c, "Running", "Failed", "delegate_recovery_applied", "none",
               "end", "end", "mark")
    /\ failed' = [failed EXCEPT ![c] = mode[c] = "inline"]
    /\ UNCHANGED <<result, reported, hook, plan>>

\* ... third attempt: the state alone.
MarkFailed(c) ==
    /\ worker[c] = "mark"
    /\ Attempt(c, "Running", "Failed", "none", "none", "end", "end", "end")
    /\ UNCHANGED <<result, failed, reported, hook, plan>>

\* on_subagent_ended runs whatever the work came to; its failure is an error
\* of the whole.  An inline delegate then returns to its parent; a detached
\* task that ends in an error goes on to finalize a spawn failure.
EndHook(c) ==
    /\ worker[c] = "end"
    /\ hook' = [hook EXCEPT ![c] = "ended"]
    /\ \E hookFails \in BOOLEAN :
         LET err == failed[c] \/ hookFails IN
         /\ Goto(c, IF mode[c] = "async" /\ err THEN "spawn_failed" ELSE "gone")
         /\ reported' = [reported EXCEPT ![c] =
                IF mode[c] = "inline" /\ ~err THEN result[c] ELSE @]
    /\ result' = [result EXCEPT ![c] = "absent"]
    /\ failed' = [failed EXCEPT ![c] = FALSE]
    /\ UNCHANGED <<rows, plan>>

\* finalize_async_delegate_spawn_failure_with_recovery: three attempts from
\* Ready; a child that did start is left alone.
SpawnFailed(c) ==
    /\ worker[c] = "spawn_failed"
    /\ Attempt(c, "Ready", "Failed", "delegate_spawn_failed", "error",
               "gone", "gone", "spawn_recover")
    /\ UNCHANGED <<result, failed, reported, hook, plan>>

SpawnRecover(c) ==
    /\ worker[c] = "spawn_recover"
    /\ Attempt(c, "Ready", "Failed", "delegate_recovery_applied", "none",
               "gone", "gone", "spawn_mark")
    /\ UNCHANGED <<result, failed, reported, hook, plan>>

SpawnMark(c) ==
    /\ worker[c] = "spawn_mark"
    /\ Attempt(c, "Ready", "Failed", "none", "none", "gone", "gone", "gone")
    /\ UNCHANGED <<result, failed, reported, hook, plan>>

-----------------------------------------------------------------------------
(* The session tools                                                       *)

\* session_delegate_staleness_at: strictly more than the threshold.
Overdue(c) == age[c] > Timeout

\* build_session_cancel_plan, build_session_recover_plan and
\* build_session_archive_plan, on the snapshot the tool has just read.
Cancellable(c) ==
    state[c] \in Active /\ outcome[c] = "none" /\ mode[c] = "async"

Recoverable_AnyMode(c) ==
    state[c] \in Active /\ outcome[c] = "none" /\ Overdue(c)
Recoverable_QueuedOnly(c) ==
    state[c] = "Ready" /\ outcome[c] = "none" /\ mode[c] = "async" /\ Overdue(c)
Recoverable(c) ==
    state[c] \in Active /\ outcome[c] = "none" /\ mode[c] = "async" /\ Overdue(c)

Archivable(c) == state[c] \in TerminalStates /\ "session_archived" \notin log[c]

Inspect(o, c, tool) ==
    /\ plan[o] = NoPlan
    /\ \/ tool = "cancel" /\ Cancellable(c)
       \/ tool = "recover" /\ Recoverable(c)
       \/ tool = "archive" /\ Archivable(c)
    /\ plan' = [plan EXCEPT ![o] = [tool |-> tool, child |-> c, from |-> state[c]]]
    /\ UNCHANGED <<rows, worker, result, failed, reported, hook>>

\* apply_session_cancel_plan: a queued child is finalized as Failed; for a
\* running one the request is only noted.
ApplyCancel(o) ==
    LET p == plan[o] IN
    /\ p.tool = "cancel"
    /\ \/ /\ p.from = "Ready"
          /\ WriteIfCurrent(p.child, "Ready", "Failed", "delegate_cancelled", "error")
       \/ /\ p.from = "Running"
          /\ WriteIfCurrent(p.child, "Running", "Running",
                            "delegate_cancel_requested", "none")
    /\ plan' = [plan EXCEPT ![o] = NoPlan]
    /\ UNCHANGED <<age, worker, result, failed, reported, hook>>

\* apply_session_recover_plan
ApplyRecover(o) ==
    LET p == plan[o] IN
    /\ p.tool = "recover"
    /\ WriteIfCurrent(p.child, p.from, "Failed", "delegate_recovery_applied", "error")
    /\ plan' = [plan EXCEPT ![o] = NoPlan]
    /\ UNCHANGED <<age, worker, result, failed, reported, hook>>

\* apply_session_archive_plan: the state is rewritten with itself.
ApplyArchive(o) ==
    LET p == plan[o] IN
    /\ p.tool = "archive"
    /\ WriteIfCurrent(p.child, p.from, p.from, "session_archived", "none")
    /\ plan' = [plan EXCEPT ![o] = NoPlan]
    /\ UNCHANGED <<age, worker, result, failed, reported, hook>>

\* The state has changed since the snapshot, or the repository fails: the tool
\* returns an error.
ApplyFails(o) ==
    /\ plan[o] # NoPlan
    /\ plan' = [plan EXCEPT ![o] = NoPlan]
    /\ UNCHANGED <<rows, worker, result, failed, reported, hook>>

-----------------------------------------------------------------------------
(* The environment                                                         *)

\* A second passes for every active child; ages past the timeout are alike.
Tick ==
    /\ \E c \in ActiveChildren : age[c] <= Timeout
    /\ age' = [c \in Children |->
                 IF state[c] \in Active /\ age[c] <= Timeout
                 THEN age[c] + 1 ELSE age[c]]
    /\ UNCHANGED <<state, mode, outcome, log, worker, result, failed, reported,
                   hook, plan>>

\* The parent's own future is dropped (its turn timed out or was aborted)
\* while an inline child is at an await.
DropInline(c) ==
    /\ mode[c] = "inline"
    /\ worker[c] \in {"turn", "end"}
    /\ Goto(c, "dropped")
    /\ result' = [result EXCEPT ![c] = "absent"]
    /\ failed' = [failed EXCEPT ![c] = FALSE]
    /\ UNCHANGED <<rows, reported, hook, plan>>

Gone == {"none", "gone", "dropped"}

\* The process dies; nothing resumes a child after a restart.
Crash ==
    /\ \E c \in Children : worker[c] \notin Gone
    /\ worker' = [c \in Children |->
                    IF worker[c] \in Gone THEN worker[c] ELSE "dropped"]
    /\ result' = [c \in Children |-> "absent"]
    /\ failed' = [c \in Children |-> FALSE]
    /\ plan' = [o \in Operators |-> NoPlan]
    /\ UNCHANGED <<rows, reported, hook>>

-----------------------------------------------------------------------------
(* Specification                                                           *)

Init ==
    /\ state = [c \in Children |-> "absent"]
    /\ mode = [c \in Children |-> "none"]
    /\ age = [c \in Children |-> 0]
    /\ outcome = [c \in Children |-> "none"]
    /\ log = [c \in Children |-> {}]
    /\ worker = [c \in Children |-> "none"]
    /\ result = [c \in Children |-> "absent"]
    /\ failed = [c \in Children |-> FALSE]
    /\ reported = [c \in Children |-> "absent"]
    /\ hook = [c \in Children |-> "none"]
    /\ plan = [o \in Operators |-> NoPlan]

\* The steps a worker takes by itself once it exists.
WorkerStep(c) ==
    \/ CreateInline(c)
    \/ PrepareAsync(c)
    \/ StartAsync(c)
    \/ \E res \in TerminalStates : EndTurn(c, res)
    \/ AbandonTurn(c)
    \/ Finalize(c)
    \/ RecoverFinalize(c)
    \/ MarkFailed(c)
    \/ EndHook(c)
    \/ SpawnFailed(c)
    \/ SpawnRecover(c)
    \/ SpawnMark(c)

ApplyStep(o) ==
    ApplyCancel(o) \/ ApplyRecover(o) \/ ApplyArchive(o) \/ ApplyFails(o)

ToolStep(o) ==
    \/ \E c \in Children, tool \in {"cancel", "recover", "archive"} :
          Inspect(o, c, tool)
    \/ ApplyStep(o)

Next ==
    \/ \E c \in Children :
          PrepareInline(c) \/ QueueAsync(c) \/ WorkerStep(c) \/ DropInline(c)
    \/ \E o \in Operators : ToolStep(o)
    \/ Tick
    \/ Crash

Spec == Init /\ [][Next]_vars

\* Time passes, a task of the tokio runtime is eventually polled, and a tool
\* call ends.  Nothing in the code calls session_recover by itself, so the last
\* conjunct is an assumption on its users: somebody keeps calling it for an
\* overdue child, and not every write of theirs fails.
Fairness ==
    /\ WF_vars(Tick)
    /\ \A c \in Children : WF_vars(WorkerStep(c))
    /\ \A o \in Operators : WF_vars(ApplyStep(o))
    /\ \A c \in Children : \A o \in Operators :
          /\ SF_vars(Inspect(o, c, "recover"))
          /\ SF_vars(ApplyRecover(o) /\ plan[o].child = c)

FairSpec == Spec /\ Fairness

-----------------------------------------------------------------------------
(* Properties                                                              *)

\* Type invariant: rows, workers, hooks and plans have their types, and no
\* age runs past the first overdue second.
TypeOK ==
    /\ state \in [Children -> States]
    /\ mode \in [Children -> Modes]
    /\ age \in [Children -> 0..(Timeout + 1)]
    /\ outcome \in [Children -> Outcomes]
    /\ log \in [Children -> SUBSET EventKinds]
    /\ worker \in [Children -> WorkerSteps]
    /\ result \in [Children -> TerminalStates \cup {"absent"}]
    /\ failed \in [Children -> BOOLEAN]
    /\ reported \in [Children -> TerminalStates \cup {"absent"}]
    /\ hook \in [Children -> {"none", "prepared", "ended"}]
    /\ plan \in [Operators -> Plan]

\* max_active_children is never exceeded, however creations, finishes and
\* crashes interleave.
LimitRespected == Cardinality(ActiveChildren) <= MaxActiveChildren

\* The row, the outcome and the events of a child tell one story: at most one
\* terminal event, an outcome only beside the state it belongs to, and no
\* outcome or terminal event for a child that is still active.
OneStory ==
    \A c \in Children :
        /\ Cardinality(log[c] \cap TerminalEvents) <= 1
        /\ outcome[c] = "ok" <=> "delegate_completed" \in log[c]
        /\ outcome[c] = "ok" => state[c] = "Completed"
        /\ outcome[c] = "timeout" => state[c] = "TimedOut"
        /\ outcome[c] = "error" => state[c] = "Failed"
        /\ state[c] \in {"Completed", "TimedOut"} => outcome[c] # "none"
        /\ log[c] \cap TerminalEvents # {} => state[c] \in TerminalStates

\* A child that was cancelled while queued never runs, although its detached
\* task is already on its way.
CancelledNeverStarts ==
    \A c \in Children : "delegate_cancelled" \in log[c] =>
        "delegate_started" \notin log[c] /\ worker[c] # "turn"

\* What an inline delegate returned to its parent is what the child's row
\* says: nobody else finalizes an inline child under a running worker.
ReportedIsStored ==
    \A c \in Children : reported[c] # "absent" => state[c] = reported[c]

\* A prepared subagent is told that it has ended before its worker is gone;
\* only a crash or a dropped future skips the end hook.
HooksPaired ==
    \A c \in Children : worker[c] = "gone" => hook[c] # "prepared"

\* A terminal row is final: neither a late worker nor a stale plan changes its
\* state or its outcome.
TerminalFinal ==
    [][ \A c \in Children : state[c] \in TerminalStates =>
            state'[c] = state[c] /\ outcome'[c] = outcome[c] ]_vars

\* The children as their parent sees them: each is admitted within the limit,
\* begins once, is settled once, and its parent is told the settled end once,
\* although writes fail before or after their commit, an async worker and an
\* operator race for the same row, and the process crashes.
Life == INSTANCE ChildLifecycle WITH Limit <- MaxActiveChildren, answer <- reported
FollowsLifecycle == Life!LifeSpec

\* Every async child settles, through failed writes, failed spawns and
\* crashes, as long as somebody keeps calling session_recover.
AsyncSettles ==
    \A c \in Children :
        (mode[c] = "async" /\ state[c] \in Active) ~> (state[c] \in TerminalStates)
=============================================================================
