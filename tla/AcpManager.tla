----------------------------- MODULE AcpManager -----------------------------
(***************************************************************************)
(* AcpSessionManager of crates/app/src/acp/manager.rs: the control plane   *)
(* that runs turns and control operations on ACP sessions, one at a time   *)
(* per session, evicts idle sessions, and lets cancel and close preempt a  *)
(* running turn.                                                           *)
(*                                                                         *)
(* Serialization rests on a registry of async mutexes, one per actor key,  *)
(* which SessionActorGuard::drop prunes when a reference count falls to    *)
(* zero.  Each registry has a lock of its own, so one action here is one   *)
(* critical section, or one await.  On a multi-threaded runtime other      *)
(* callers run between any two of them; on a current-thread runtime only   *)
(* at the awaits.                                                          *)
(*                                                                         *)
(* A session stands for its actor key: the bootstrap and the stored        *)
(* metadata of a session name the same route, conversation and key.        *)
(***************************************************************************)
EXTENDS Integers, Sequences, FiniteSets

CONSTANTS
    Callers,      \* concurrent calls of the manager
    Sessions,     \* session keys
    MaxFaults     \* bound on dropped futures, failed writes and restarts

ASSUME MaxFaultsAssumption == MaxFaults \in Nat
ASSUME FiniteAssumption == IsFiniteSet(Callers) /\ IsFiniteSet(Sessions)

VARIABLES
    runtime,     \* the flavour of the tokio runtime
    store,       \* the state in the stored metadata; "none": not registered
    idle,        \* is last_activity_ms at least the idle TTL ago?
    active,      \* active_turns: whose turn is registered
    actorLock,   \* session_actor_locks: the mutex registered for a session
    queue,       \* each mutex: its holder, then its waiters in order
    refs,        \* actor_ref_counts
    pending,     \* pending_turns
    pc,          \* where each caller is
    frame,       \* the locals of each caller
    faults,      \* dropped futures, failed writes and restarts so far
    lost,        \* waits dropped before their guard existed (history)
    unowned      \* sessions whose Busy row, if it has one, is no turn's (history)

storeVars == <<store, idle>>
actorVars == <<actorLock, queue, refs, pending>>
vars == <<runtime, store, idle, active, actorLock, queue, refs, pending, pc,
          frame, faults, lost, unowned>>

-----------------------------------------------------------------------------
(* Types                                                                   *)

Nobody == "nobody"
NoSession == "no session"
ASSUME NamesAssumption == Nobody \notin Callers /\ NoSession \notin Sessions

AcpSessionState == {"Initializing", "Ready", "Busy", "Cancelling", "Error", "Closed"}
States == AcpSessionState \cup {"none"}

Ops == {"turn", "ensure", "snapshot", "status", "mode", "cancel", "close"}
ControlOps == {"status", "mode", "cancel", "close"}
Guarded == ControlOps \cup {"turn"}

LockIds == 1..(Cardinality(Callers) + Cardinality(Sessions))

Frame ==
    [op : Ops \cup {"none"}, s : Sessions \cup {NoSession}, lock : LockIds \cup {0},
     st : States, scan : SUBSET Sessions,
     victim : Sessions \cup {NoSession}, ensuring : BOOLEAN]
NoFrame ==
    [op |-> "none", s |-> NoSession, lock |-> 0, st |-> "none", scan |-> {},
     victim |-> NoSession, ensuring |-> FALSE]

\* The points where a caller is suspended in an await ...
Awaits == {"idle", "wait", "evict", "create", "turn", "backend", "cancelling"}
\* ... and the others.
Synchronous ==
    {"look", "preempt", "ref", "pend", "join", "clean", "scan", "resolve",
     "touch", "busy", "register", "result", "clear", "control",
     "unlock", "unpend", "unref", "check", "remove"}

-----------------------------------------------------------------------------
(* Helpers                                                                 *)

op(c) == frame[c].op
sess(c) == frame[c].s

\* On a current-thread runtime nobody runs while another caller is between
\* two awaits.
MayRun(c) ==
    runtime = "current_thread" => \A d \in Callers \ {c} : pc[d] \in Awaits

At(c, step) == pc[c] = step /\ MayRun(c)
Goto(c, step) == pc' = [pc EXCEPT ![c] = step]

\* The call is over: back to idle, the locals are gone.
Finish(c) ==
    /\ Goto(c, "idle")
    /\ frame' = [frame EXCEPT ![c] = NoFrame]

\* A call that returns drops its guard first, if it has one; its other locals
\* are gone.
Leave(c) ==
    IF op(c) \in Guarded /\ frame[c].lock # 0
    THEN /\ Goto(c, "unlock")
         /\ frame' = [frame EXCEPT ![c] = [NoFrame EXCEPT !.op = op(c), !.s = sess(c),
                                                          !.lock = frame[c].lock]]
    ELSE Finish(c)

Fault == faults < MaxFaults /\ faults' = faults + 1

\* The steps of a turn between the Busy row and the row that replaces it.
Owning == {"register", "turn", "clear", "result"}

\* The history of Busy rows: a turn that marks the session Busy owns the row; a
\* Busy that the backend reports to get_status belongs to no turn, and neither
\* does one whose turn is cut off before it has written its result.
Noted(c, st) ==
    CASE pc[c] = "busy" -> unowned \ {sess(c)}
      [] pc[c] = "backend" /\ op(c) = "status" /\ st = "Busy" -> unowned \cup {sess(c)}
      [] OTHER -> unowned
CutOff(c) == IF pc[c] \in Owning THEN unowned \cup {sess(c)} ELSE unowned

\* store.upsert, always with a fresh last_activity_ms; when the write fails
\* the call returns.
Upsert(c, st, then) ==
    \/ /\ store' = [store EXCEPT ![sess(c)] = st]
       /\ idle' = [idle EXCEPT ![sess(c)] = FALSE]
       /\ unowned' = Noted(c, st)
       /\ then
       /\ UNCHANGED faults
    \/ /\ Fault
       /\ Leave(c)
       /\ unowned' = CutOff(c)
       /\ UNCHANGED storeVars

Decrement(n) == IF n <= 1 THEN 0 ELSE n - 1

\* The queue without the place of c in it.
Without(q, c) ==
    LET place == CHOOSE i \in DOMAIN q : q[i] = c
    IN [i \in 1..Len(q) - 1 |-> IF i < place THEN q[i] ELSE q[i + 1]]

-----------------------------------------------------------------------------
(* Entry                                                                   *)

\* The first lookup of get_status, set_mode, set_config_option (both "mode"),
\* cancel and close needs a registered session; get_status answers at once
\* while a turn is active or queued.
Start(c, o, s) ==
    /\ At(c, "idle")
    /\ o \in ControlOps => store[s] # "none"
    /\ o = "status" => active[s] = Nobody /\ pending[s] = 0
    /\ frame' = [frame EXCEPT ![c] = [NoFrame EXCEPT !.op = o, !.s = s]]
    /\ Goto(c, CASE o \in {"cancel", "close"} -> "look"
                 [] o \in {"turn", "status", "mode"} -> "ref"
                 [] o \in {"ensure", "snapshot"} -> "clean")
    /\ UNCHANGED <<runtime, storeVars, active, actorVars, faults, lost, unowned>>

\* cancel and close look for an active turn to preempt.
LookForTurn(c) ==
    /\ At(c, "look")
    /\ Goto(c, IF active[sess(c)] # Nobody THEN "preempt" ELSE "ref")
    /\ UNCHANGED <<runtime, storeVars, active, actorVars, frame, faults, lost, unowned>>

\* request_active_turn_cancellation: abort, then Cancelling, then the backend.
Preempt(c) ==
    /\ At(c, "preempt")
    /\ Upsert(c, "Cancelling", Goto(c, "cancelling") /\ UNCHANGED frame)
    /\ UNCHANGED <<runtime, active, actorVars, lost>>

\* The backend answers: cancel is done, close goes on to wait for the guard.
\* An error is stored over whatever the row has become.
Preempted(c) ==
    /\ At(c, "cancelling")
    /\ \/ /\ \/ op(c) = "cancel" /\ Finish(c)
             \/ op(c) = "close" /\ Goto(c, "ref") /\ UNCHANGED frame
          /\ UNCHANGED <<storeVars, faults, unowned>>
       \/ Upsert(c, "Error", Finish(c))
    /\ UNCHANGED <<runtime, active, actorVars, lost>>

-----------------------------------------------------------------------------
(* The actor guard                                                         *)

\* increment_actor_ref_count
IncrementRef(c) ==
    /\ At(c, "ref")
    /\ refs' = [refs EXCEPT ![sess(c)] = @ + 1]
    /\ Goto(c, IF op(c) = "turn" THEN "pend" ELSE "join")
    /\ UNCHANGED <<runtime, storeVars, active, actorLock, queue, pending, frame,
                   faults, lost, unowned>>

\* increment_pending_turn (acquire_turn_queue_guard only)
IncrementPending(c) ==
    /\ At(c, "pend")
    /\ pending' = [pending EXCEPT ![sess(c)] = @ + 1]
    /\ Goto(c, "join")
    /\ UNCHANGED <<runtime, storeVars, active, actorLock, queue, refs, frame,
                   faults, lost, unowned>>

\* A mutex nobody refers to: Arc::new(AsyncMutex::new(())).
FreshLock ==
    CHOOSE l \in LockIds :
        /\ \A s \in Sessions : actorLock[s] # l
        /\ \A c \in Callers : frame[c].lock # l

ActorFor_AlwaysNew(s) == FreshLock
ActorFor(s) == IF actorLock[s] = 0 THEN FreshLock ELSE actorLock[s]

\* get_or_insert_session_actor, and the first poll of lock_owned.
Join(c) ==
    LET l == ActorFor(sess(c)) IN
    /\ At(c, "join")
    /\ actorLock' = [actorLock EXCEPT ![sess(c)] = l]
    /\ queue' = [queue EXCEPT ![l] = Append(@, c)]
    /\ frame' = [frame EXCEPT ![c].lock = l]
    /\ Goto(c, "wait")
    /\ UNCHANGED <<runtime, storeVars, active, refs, pending, faults, lost, unowned>>

\* The mutex is handed over in the order of arrival; the guard exists now.
Acquire(c) ==
    /\ At(c, "wait")
    /\ Head(queue[frame[c].lock]) = c
    /\ Goto(c, "clean")
    /\ UNCHANGED <<runtime, storeVars, active, actorVars, frame, faults, lost, unowned>>

\* SessionActorGuard::drop: release the mutex, take the pending turn and the
\* reference back, and remove the mutex from the registry if no reference was
\* left when the count was read again.
Unlocked_NotReleased(c) == queue
Unlocked(c) == [queue EXCEPT ![frame[c].lock] = Without(@, c)]

Unlock_ForgetsTurn(c) ==
    /\ At(c, "unlock")
    /\ queue' = Unlocked(c)
    /\ Goto(c, "unref")
    /\ UNCHANGED <<runtime, storeVars, active, actorLock, refs, pending, frame,
                   faults, lost, unowned>>

Unlock(c) ==
    /\ At(c, "unlock")
    /\ queue' = Unlocked(c)
    /\ Goto(c, IF op(c) = "turn" THEN "unpend" ELSE "unref")
    /\ UNCHANGED <<runtime, storeVars, active, actorLock, refs, pending, frame,
                   faults, lost, unowned>>

DecrementPending(c) ==
    /\ At(c, "unpend")
    /\ pending' = [pending EXCEPT ![sess(c)] = Decrement(@)]
    /\ Goto(c, "unref")
    /\ UNCHANGED <<runtime, storeVars, active, actorLock, queue, refs, frame,
                   faults, lost, unowned>>

DecrementRef(c) ==
    /\ At(c, "unref")
    /\ refs' = [refs EXCEPT ![sess(c)] = Decrement(@)]
    /\ Goto(c, "check")
    /\ UNCHANGED <<runtime, storeVars, active, actorLock, queue, pending, frame,
                   faults, lost, unowned>>

ShouldRemoveActor_Always(c) == TRUE
ShouldRemoveActor(c) == refs[sess(c)] = 0

CheckActor(c) ==
    /\ At(c, "check")
    /\ \/ ShouldRemoveActor(c) /\ Goto(c, "remove") /\ UNCHANGED frame
       \/ ~ShouldRemoveActor(c) /\ Finish(c)
    /\ UNCHANGED <<runtime, storeVars, active, actorVars, faults, lost, unowned>>

RemoveActor(c) ==
    /\ At(c, "remove")
    /\ actorLock' = [actorLock EXCEPT ![sess(c)] = 0]
    /\ Finish(c)
    /\ UNCHANGED <<runtime, storeVars, active, queue, refs, pending, faults, lost, unowned>>

-----------------------------------------------------------------------------
(* cleanup_idle_sessions                                                   *)

\* The rows that the list read at the start lets through.
Stale(s) == idle[s] /\ store[s] \in {"Ready", "Error", "Closed"}

ListSessions(c) ==
    /\ At(c, "clean")
    /\ frame' = [frame EXCEPT ![c].scan = {s \in Sessions : Stale(s)}]
    /\ Goto(c, "scan")
    /\ UNCHANGED <<runtime, storeVars, active, actorVars, faults, lost, unowned>>

InUse(s) == refs[s] > 0 \/ pending[s] > 0 \/ active[s] # Nobody

\* A session in use is skipped; for any other the backend's close is awaited,
\* and then, whatever has happened meanwhile, the row is removed.
Inspect(c, s) ==
    /\ At(c, "scan")
    /\ s \in frame[c].scan
    /\ IF InUse(s)
       THEN /\ frame' = [frame EXCEPT ![c].scan = @ \ {s}]
            /\ UNCHANGED pc
       ELSE /\ frame' = [frame EXCEPT ![c].scan = @ \ {s}, ![c].victim = s]
            /\ Goto(c, "evict")
    /\ UNCHANGED <<runtime, storeVars, active, actorVars, faults, lost, unowned>>

Evict(c) ==
    /\ At(c, "evict")
    /\ store' = [store EXCEPT ![frame[c].victim] = "none"]
    /\ idle' = [idle EXCEPT ![frame[c].victim] = FALSE]
    /\ frame' = [frame EXCEPT ![c].victim = NoSession]
    /\ Goto(c, "scan")
    /\ UNCHANGED <<runtime, active, actorVars, faults, lost, unowned>>

\* What the method does after its cleanup.  A turn cleans up twice, itself and
\* in ensure_session.
Cleaned(c) ==
    /\ At(c, "scan")
    /\ frame[c].scan = {}
    /\ CASE op(c) = "snapshot" -> Finish(c)
         [] op(c) \in ControlOps -> Goto(c, "control") /\ UNCHANGED frame
         [] op(c) = "ensure" -> Goto(c, "resolve") /\ UNCHANGED frame
         [] op(c) = "turn" ->
              /\ Goto(c, IF frame[c].ensuring THEN "resolve" ELSE "clean")
              /\ frame' = [frame EXCEPT ![c].ensuring = TRUE]
    /\ UNCHANGED <<runtime, storeVars, active, actorVars, faults, lost, unowned>>

-----------------------------------------------------------------------------
(* ensure_session                                                          *)

\* resolve_existing_session finds the row, or enforce_max_concurrent_sessions
\* lets a new one through or not.  It counts the rows of every session there
\* is, not only of Sessions, so either answer is possible.
Resolve(c) ==
    /\ At(c, "resolve")
    /\ \/ /\ store[sess(c)] # "none"
          /\ frame' = [frame EXCEPT ![c].st = store[sess(c)], ![c].ensuring = FALSE]
          /\ Goto(c, "touch")
       \/ /\ store[sess(c)] = "none"
          /\ \/ Goto(c, "create") /\ frame' = [frame EXCEPT ![c].ensuring = FALSE]
             \/ Leave(c)
    /\ UNCHANGED <<runtime, storeVars, active, actorVars, faults, lost, unowned>>

\* The session is there: a turn goes on, ensure_session returns.
Ensured(c) ==
    \/ /\ op(c) = "turn"
       /\ frame' = [frame EXCEPT ![c].st = "none"]
       /\ Goto(c, "busy")
    \/ op(c) = "ensure" /\ Finish(c)

\* validate_and_touch_existing_session writes back the row it has read.
Touch(c) ==
    /\ At(c, "touch")
    /\ Upsert(c, frame[c].st, Ensured(c))
    /\ UNCHANGED <<runtime, active, actorVars, lost>>

\* The backend creates the session, or fails.
Create(c) ==
    /\ At(c, "create")
    /\ \/ Upsert(c, "Ready", Ensured(c))
       \/ Leave(c) /\ UNCHANGED <<storeVars, faults, unowned>>
    /\ UNCHANGED <<runtime, active, actorVars, lost>>

-----------------------------------------------------------------------------
(* run_turn_with_sink                                                      *)

MarkBusy(c) ==
    /\ At(c, "busy")
    /\ Upsert(c, "Busy", Goto(c, "register") /\ UNCHANGED frame)
    /\ UNCHANGED <<runtime, active, actorVars, lost>>

RegisterTurn(c) ==
    /\ At(c, "register")
    /\ active' = [active EXCEPT ![sess(c)] = c]
    /\ Goto(c, "turn")
    /\ UNCHANGED <<runtime, storeVars, actorVars, frame, faults, lost, unowned>>

\* The backend's turn ends: the state it returns (Ready), or Error.
EndTurn(c, st) ==
    /\ At(c, "turn")
    /\ frame' = [frame EXCEPT ![c].st = st]
    /\ Goto(c, "clear")
    /\ UNCHANGED <<runtime, storeVars, active, actorVars, faults, lost, unowned>>

ClearTurn(c) ==
    /\ At(c, "clear")
    /\ active' = [active EXCEPT ![sess(c)] = Nobody]
    /\ Goto(c, "result")
    /\ UNCHANGED <<runtime, storeVars, actorVars, frame, faults, lost, unowned>>

StoreResult_OnlyErrors(c) ==
    /\ At(c, "result")
    /\ \/ frame[c].st = "Error" /\ Upsert(c, "Error", Leave(c))
       \/ frame[c].st # "Error" /\ Leave(c) /\ UNCHANGED <<storeVars, faults, unowned>>
    /\ UNCHANGED <<runtime, active, actorVars, lost>>

StoreResult(c) ==
    /\ At(c, "result")
    /\ Upsert(c, frame[c].st, Leave(c))
    /\ UNCHANGED <<runtime, active, actorVars, lost>>

-----------------------------------------------------------------------------
(* get_status, set_mode, set_config_option, cancel and close, once guarded *)

\* The second lookup: the session may be gone, and for get_status a turn may
\* have been queued.
Control(c) ==
    /\ At(c, "control")
    /\ IF \/ store[sess(c)] = "none"
          \/ op(c) = "status" /\ (active[sess(c)] # Nobody \/ pending[sess(c)] > 0)
       THEN Leave(c)
       ELSE /\ frame' = [frame EXCEPT ![c].st = store[sess(c)]]
            /\ Goto(c, "backend")
    /\ UNCHANGED <<runtime, storeVars, active, actorVars, faults, lost, unowned>>

\* What the row may be after the backend has answered Ok: get_status stores the
\* state that the backend reports, whatever it is.
StatesAfter(c) ==
    CASE op(c) = "status" -> AcpSessionState
      [] op(c) = "mode"   -> {frame[c].st}
      [] op(c) = "cancel" -> {"Cancelling"}
      [] OTHER            -> {}

Answered(c) ==
    /\ At(c, "backend")
    /\ \/ \E st \in StatesAfter(c) : Upsert(c, st, Leave(c))
       \/ op(c) # "close" /\ Upsert(c, "Error", Leave(c))
       \* a backend without a status, a close that failed
       \/ op(c) \in {"status", "close"} /\ Leave(c) /\ UNCHANGED <<storeVars, faults, unowned>>
    /\ UNCHANGED <<runtime, active, actorVars, lost>>

Closed(c) ==
    /\ At(c, "backend")
    /\ op(c) = "close"
    /\ active' = [active EXCEPT ![sess(c)] = Nobody]
    /\ store' = [store EXCEPT ![sess(c)] = "none"]
    /\ idle' = [idle EXCEPT ![sess(c)] = FALSE]
    /\ Leave(c)
    /\ UNCHANGED <<runtime, actorVars, faults, lost, unowned>>

-----------------------------------------------------------------------------
(* The environment                                                         *)

\* The idle TTL of a registered session runs out.
GoIdle(s) ==
    /\ store[s] # "none" /\ ~idle[s]
    /\ idle' = [idle EXCEPT ![s] = TRUE]
    /\ UNCHANGED <<runtime, store, active, actorVars, pc, frame, faults, lost, unowned>>

\* The caller's future is dropped while it waits for the mutex.  The guard does
\* not exist yet, so nobody takes its reference or its pending turn back.
DropWait(c) ==
    /\ At(c, "wait")
    /\ Fault
    /\ queue' = [queue EXCEPT ![frame[c].lock] = Without(@, c)]
    /\ lost' = [lost EXCEPT ![sess(c)] =
                  [refs |-> @.refs + 1,
                   turns |-> IF op(c) = "turn" THEN @.turns + 1 ELSE @.turns]]
    /\ Finish(c)
    /\ UNCHANGED <<runtime, storeVars, active, actorLock, refs, pending, unowned>>

\* It is dropped at another await: the guard, if there is one, runs its drop,
\* but a Busy row and a registered turn stay.
DropCall(c) ==
    /\ pc[c] \in Awaits \ {"idle", "wait"}
    /\ MayRun(c)
    /\ Fault
    /\ Leave(c)
    /\ unowned' = CutOff(c)
    /\ UNCHANGED <<runtime, storeVars, active, actorVars, lost>>

\* The process restarts: only the (SQLite) store survives.
Restart ==
    /\ Fault
    /\ active' = [s \in Sessions |-> Nobody]
    /\ actorLock' = [s \in Sessions |-> 0]
    /\ queue' = [l \in LockIds |-> <<>>]
    /\ refs' = [s \in Sessions |-> 0]
    /\ pending' = [s \in Sessions |-> 0]
    /\ pc' = [c \in Callers |-> "idle"]
    /\ frame' = [c \in Callers |-> NoFrame]
    /\ lost' = [s \in Sessions |-> [refs |-> 0, turns |-> 0]]
    /\ unowned' = unowned \cup {s \in Sessions : store[s] = "Busy"}
    /\ UNCHANGED <<runtime, storeVars>>

-----------------------------------------------------------------------------
(* Specification                                                           *)

Init ==
    /\ runtime \in {"current_thread", "multi_thread"}
    /\ store = [s \in Sessions |-> "none"]
    /\ idle = [s \in Sessions |-> FALSE]
    /\ active = [s \in Sessions |-> Nobody]
    /\ actorLock = [s \in Sessions |-> 0]
    /\ queue = [l \in LockIds |-> <<>>]
    /\ refs = [s \in Sessions |-> 0]
    /\ pending = [s \in Sessions |-> 0]
    /\ pc = [c \in Callers |-> "idle"]
    /\ frame = [c \in Callers |-> NoFrame]
    /\ faults = 0
    /\ lost = [s \in Sessions |-> [refs |-> 0, turns |-> 0]]
    /\ unowned = {}

GuardStep(c) ==
    \/ IncrementRef(c) \/ IncrementPending(c) \/ Join(c) \/ Acquire(c)
    \/ Unlock(c) \/ DecrementPending(c) \/ DecrementRef(c) \/ CheckActor(c)
    \/ RemoveActor(c)

CleanupStep(c) ==
    ListSessions(c) \/ (\E s \in Sessions : Inspect(c, s)) \/ Evict(c) \/ Cleaned(c)

TurnStep(c) ==
    \/ Resolve(c) \/ Touch(c) \/ Create(c)
    \/ MarkBusy(c) \/ RegisterTurn(c)
    \/ \E st \in {"Ready", "Error"} : EndTurn(c, st)
    \/ ClearTurn(c) \/ StoreResult(c)

ControlStep(c) ==
    LookForTurn(c) \/ Preempt(c) \/ Preempted(c) \/ Control(c) \/ Answered(c)
    \/ Closed(c)

\* The steps a call takes once it has begun.
CallStep(c) == GuardStep(c) \/ CleanupStep(c) \/ TurnStep(c) \/ ControlStep(c)

Next ==
    \/ \E c \in Callers :
          \/ \E o \in Ops, s \in Sessions : Start(c, o, s)
          \/ CallStep(c)
          \/ DropWait(c)
          \/ DropCall(c)
    \/ \E s \in Sessions : GoIdle(s)
    \/ Restart

Spec == Init /\ [][Next]_vars

-----------------------------------------------------------------------------
(* Properties                                                              *)

\* Type invariant: in particular a mutex in use is always one of LockIds, so
\* FreshLock never runs out.
AcpTypeOK ==
    /\ runtime \in {"current_thread", "multi_thread"}
    /\ store \in [Sessions -> States]
    /\ idle \in [Sessions -> BOOLEAN]
    /\ active \in [Sessions -> Callers \cup {Nobody}]
    /\ actorLock \in [Sessions -> LockIds \cup {0}]
    /\ DOMAIN queue = LockIds
    /\ \A l \in LockIds : queue[l] \in Seq(Callers)
    /\ refs \in [Sessions -> Nat]
    /\ pending \in [Sessions -> Nat]
    /\ pc \in [Callers -> Awaits \cup Synchronous]
    /\ frame \in [Callers -> Frame]
    /\ faults \in 0..MaxFaults
    /\ lost \in [Sessions -> [refs : Nat, turns : Nat]]
    /\ unowned \subseteq Sessions

\* The callers between the increment and the decrement of a count.
Referring(s) ==
    {c \in Callers : /\ sess(c) = s
                     /\ op(c) \in Guarded
                     /\ pc[c] \notin {"look", "preempt", "cancelling", "ref",
                                      "check", "remove"}}
Queued(s) ==
    {c \in Referring(s) : op(c) = "turn" /\ pc[c] \notin {"pend", "unref"}}

\* actor_ref_counts and pending_turns, which decide what cleanup may evict and
\* what get_status projects, count exactly the calls that are inside, on every
\* way out of a call, plus one for every wait that was dropped.
CountsExact ==
    \A s \in Sessions :
        /\ refs[s] = Cardinality(Referring(s)) + lost[s].refs
        /\ pending[s] = Cardinality(Queued(s)) + lost[s].turns

\* The steps of a call that owns a guard.
Holding ==
    {"clean", "scan", "evict", "resolve", "touch", "create", "busy", "register",
     "turn", "clear", "result", "control", "backend", "unlock"}

\* The callers that a backend is serving under the guard of session s.
InBackend(s) == {c \in Callers : sess(c) = s /\ pc[c] \in {"turn", "backend"}}

\* "per-session actor serialization" (docs/design-docs/acp-acpx-preembed.md):
\* no two turns or control operations of one session are in the backend at
\* once.
TurnsSerialized == \A s \in Sessions : Cardinality(InBackend(s)) <= 1

\* ... which the code does guarantee when all callers share one thread, through
\* dropped futures, evictions, preemption and restarts.
SerializedOnOneThread == runtime = "current_thread" => TurnsSerialized

\* On one thread the registry of mutexes, pruned by reference counts, is one
\* first-come-first-served line per session: nobody stands in the queue of a
\* mutex that was removed, a new mutex is nobody's, and whoever is in the
\* backend is alone and first in line.  (On several threads the mapped lines
\* stay empty: nothing is claimed.)
OneThread == runtime = "current_thread"
Line(s) == IF OneThread /\ actorLock[s] # 0 THEN queue[actorLock[s]] ELSE <<>>
Within(s) ==
    IF OneThread
    THEN {c \in Callers : sess(c) = s /\ op(c) \in Guarded /\ pc[c] \in Holding}
    ELSE {}
Turns == INSTANCE SessionLine WITH line <- [s \in Sessions |-> Line(s)],
                                   inside <- [s \in Sessions |-> Within(s)]
FifoOnOneThread == Turns!LineSpec

\* On one thread a Busy row has a turn that will overwrite it, unless the
\* backend itself reported Busy to get_status, or the turn that wrote it was cut
\* off (its future dropped, its last write failed, the process restarted).  The
\* copies of the metadata that ensure_session, set_mode and set_config_option
\* write back bring no other Busy row about.  It matters because nothing but a
\* later call on the session removes such a row: cleanup never evicts it.
BusyHasOwner ==
    runtime = "current_thread" =>
        \A s \in Sessions : store[s] = "Busy" =>
            s \in unowned \/ \E c \in Callers : sess(c) = s /\ pc[c] \in Owning

\* Nobody waits for a mutex that will not be released: its holder is a call
\* that is still going on with the guard, or a waiter that has just been handed
\* the mutex; a mutex that nobody holds has no waiters.
HolderIsAlive ==
    \A c \in Callers : pc[c] = "wait" =>
        LET l == frame[c].lock
            h == Head(queue[l])
        IN  queue[l] # <<>> /\ frame[h].lock = l /\ pc[h] \in Holding \cup {"wait"}
=============================================================================
