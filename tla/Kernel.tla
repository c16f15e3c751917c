------------------------------- MODULE Kernel -------------------------------
(***************************************************************************)
(* The governed execution path of crates/kernel: LoongClawKernel           *)
(* (kernel.rs) over the policy engine (PolicyEngine), the policy extension *)
(* chain, the execution planes, the audit sinks (audit.rs) and the task    *)
(* supervisor (task_supervisor.rs, task_state.rs).                         *)
(*                                                                         *)
(* A call of the kernel runs through                                       *)
(*   boundary checks -> clock -> authorize -> extensions -> adapter.await  *)
(*   -> event id -> sink 1 -> sink 2 ...                                   *)
(* Every arrow is a point where another caller may run, the await one      *)
(* where the future may be dropped, every sink one that may fail.          *)
(***************************************************************************)
EXTENDS PolicyEngine

CONSTANTS
    Manifests,   \* manifests that pass VerticalPackManifest::validate
    Connectors,  \* connector names
    Tasks,       \* supervised tasks (one TaskSupervisor each)
    NumSinks,    \* children of the FanoutAuditSink, in order
    MaxCalls     \* bound on the numbered calls of a behaviour

ASSUME NumSinksAssumption == NumSinks \in Nat \ {0}
ASSUME MaxCallsAssumption == MaxCalls \in Nat
ASSUME ConnectorsAssumption == Connectors # {}
ASSUME ManifestsAssumption ==
    Manifests \subseteq [grants : (SUBSET Capabilities) \ {{}},
                         connectors : SUBSET Connectors]

VARIABLES
    clock,       \* Clock::now_epoch_s
    packs,       \* packs: the manifest registered under each id
    namespaces,  \* namespaces: granted_capabilities of each projection
    at,          \* where each caller is inside the kernel
    call,        \* the numbered call each caller is in
    calls,       \* how many calls have begun (history)
    made,        \* each numbered call: kind, task, what it returned (history)
    held,        \* tokens that issue_token has returned to a caller
    effects,     \* calls whose adapter took effect (history)
    eventSeq,    \* event_seq
    log,         \* the events each sink holds
    task         \* TaskState of each supervised task

kernelVars == <<clock, packs, namespaces, at, call, calls, made, held, effects,
                eventSeq, log, task>>
vars == <<policyVars, kernelVars>>

-----------------------------------------------------------------------------
(* Types                                                                   *)

Sinks == 1..NumSinks
CallIds == 1..MaxCalls
NoManifest == [grants |-> {}, connectors |-> {}]
NoTask == "no task"

ExecuteKinds == {"task", "connector", "plane"}
Kinds == {"none", "issue", "revoke", "note"} \cup ExecuteKinds

EventKinds ==
    {"none", "TokenIssued", "TokenRevoked", "AuthorizationDenied",
     "TaskDispatched", "ConnectorInvoked", "PlaneInvoked", "Noted"}

KernelStep ==
    {"idle", "issue", "issuing", "authorize", "authorizing",
     "extend", "running", "event", "record", "forward"}

Call ==
    [n : 0..MaxCalls, kind : Kinds, task : Tasks \cup {NoTask}, token : CapabilityToken,
     pack : Packs, need : SUBSET Capabilities, connector : Connectors,
     now : Time, ttl : Time, revoked : BOOLEAN,
     event : EventKinds, eid : Nat, sink : 0..NumSinks]

Results == {"open", "ok", "rejected", "denied", "adapter_error", "audit_error", "dropped"}

Made == [kind : Kinds, task : Tasks \cup {NoTask}, res : Results]

Event == [eid : Nat, call : CallIds, kind : EventKinds]

TaskStates == {"Runnable", "InReply", "Completed", "Faulted"}
Terminal == {"Completed", "Faulted"}

NotMade == [kind |-> "none", task |-> NoTask, res |-> "open"]

NoCall ==
    [n |-> 0, kind |-> "none", task |-> NoTask, token |-> NoToken,
     pack |-> CHOOSE p \in Packs : TRUE, need |-> {},
     connector |-> CHOOSE k \in Connectors : TRUE, now |-> 0, ttl |-> 0,
     revoked |-> FALSE, event |-> "none", eid |-> 0, sink |-> 0]

-----------------------------------------------------------------------------
(* Helpers                                                                 *)

Registered(p) == packs[p] # NoManifest

\* Any await-free early return, and the end of a call: the supervisor, when
\* there is one, turns Ok into Completed and any Err into Faulted, unless the
\* state is terminal already.
TaskAfter(k, res) ==
    IF k.task = NoTask \/ task[k.task] \in Terminal THEN task
    ELSE [task EXCEPT ![k.task] = IF res = "ok" THEN "Completed" ELSE "Faulted"]

Return(c, res) ==
    /\ at' = [at EXCEPT ![c] = "idle"]
    /\ made' = [made EXCEPT ![call[c].n].res = res]
    /\ task' = TaskAfter(call[c], res)
    /\ held' = IF call[c].kind = "issue" /\ res = "ok"
               THEN held \cup {call[c].token} ELSE held
    /\ call' = [call EXCEPT ![c] = NoCall]

\* Enter call number calls + 1.
Begin(c, step, k) ==
    /\ at[c] = "idle"
    /\ calls < MaxCalls
    /\ calls' = calls + 1
    /\ at' = [at EXCEPT ![c] = step]
    /\ call' = [call EXCEPT ![c] = [k EXCEPT !.n = calls + 1]]
    /\ made' = [made EXCEPT ![calls + 1] =
                  [kind |-> k.kind, task |-> k.task, res |-> "open"]]

\* The call goes on to record event e; of its locals, only what the event and
\* the return need stays alive (the timestamp of an event is not modelled).
Owing(c, e) ==
    [NoCall EXCEPT !.n = call[c].n, !.kind = call[c].kind,
                   !.task = call[c].task, !.event = e]

Owe(c, e) == call' = [call EXCEPT ![c] = Owing(c, e)]

\* The audit event a call records when its adapter succeeded.
DispatchEvent(kind) ==
    CASE kind = "task"      -> "TaskDispatched"
      [] kind = "connector" -> "ConnectorInvoked"
      [] kind = "plane"     -> "PlaneInvoked"

\* The event that follows event e of a call, "none" after the last one: the
\* connector plane records ConnectorInvoked, then PlaneInvoked.
FollowingEvent(e) == IF e = "ConnectorInvoked" THEN "PlaneInvoked" ELSE "none"

\* What the call returns once its last event is recorded.
ResultOf(e) == IF e = "AuthorizationDenied" THEN "denied" ELSE "ok"

-----------------------------------------------------------------------------
(* Registration and time                                                   *)

\* register_pack needs &mut self: no other call is inside the kernel.
RegisterPack_Overwrite(p, m) ==
    /\ \A c \in Callers : at[c] = "idle"
    /\ packs' = [packs EXCEPT ![p] = m]
    /\ namespaces' = [namespaces EXCEPT ![p] = m.grants]
    /\ UNCHANGED <<policyVars, clock, at, call, calls, made, held, effects,
                   eventSeq, log, task>>

RegisterPack(p, m) ==
    /\ \A c \in Callers : at[c] = "idle"
    /\ ~Registered(p)
    /\ packs' = [packs EXCEPT ![p] = m]
    /\ namespaces' = [namespaces EXCEPT ![p] = m.grants]
    /\ UNCHANGED <<policyVars, clock, at, call, calls, made, held, effects,
                   eventSeq, log, task>>

Tick ==
    /\ clock < MaxTime
    /\ clock' = clock + 1
    /\ UNCHANGED <<policyVars, packs, namespaces, at, call, calls, made, held,
                   effects, eventSeq, log, task>>

-----------------------------------------------------------------------------
(* Token lifecycle                                                         *)

\* issue_token up to the clock read; an unknown pack returns PackNotFound.
BeginIssue(c, p, ttl) ==
    /\ Registered(p)
    /\ Begin(c, "issue", [NoCall EXCEPT !.kind = "issue", !.pack = p,
                                        !.ttl = ttl, !.now = clock])
    /\ UNCHANGED <<policyVars, clock, packs, namespaces, held, effects,
                   eventSeq, log, task>>

TakeGeneration(c) ==
    /\ at[c] = "issue"
    /\ IssueGeneration(c, call[c].pack, packs[call[c].pack].grants,
                       call[c].now, call[c].ttl)
    /\ at' = [at EXCEPT ![c] = "issuing"]
    /\ UNCHANGED <<clock, packs, namespaces, call, calls, made, held, effects,
                   eventSeq, log, task>>

TakeId(c) ==
    /\ at[c] = "issuing"
    /\ IssueId(c)
    /\ at' = [at EXCEPT ![c] = "event"]
    /\ call' = [call EXCEPT ![c] =
                 [Owing(c, "TokenIssued") EXCEPT !.token = NextToken(c)]]
    /\ UNCHANGED <<clock, packs, namespaces, calls, made, held, effects,
                   eventSeq, log, task>>

\* revoke_token revokes first and records afterwards.
BeginRevoke(c, id) ==
    /\ RevokeToken(c, id)
    /\ Begin(c, "event", [NoCall EXCEPT !.kind = "revoke", !.now = clock,
                                        !.event = "TokenRevoked"])
    /\ UNCHANGED <<clock, packs, namespaces, held, effects,
                   eventSeq, log, task>>

\* revoke_generation is handed to the engine and records nothing.
BeginRevokeGeneration(c, b) ==
    /\ at[c] = "idle"
    /\ RevokeGeneration(c, b)
    /\ at' = [at EXCEPT ![c] = "forward"]
    /\ UNCHANGED <<clock, packs, namespaces, call, calls, made, held, effects,
                   eventSeq, log, task>>

EndRevokeGeneration(c) ==
    /\ at[c] = "forward"
    /\ RaiseGeneration(c)
    /\ at' = [at EXCEPT ![c] = "idle"]
    /\ UNCHANGED <<clock, packs, namespaces, call, calls, made, held, effects,
                   eventSeq, log, task>>

\* record_audit_event: an event of the embedding application.
BeginNote(c) ==
    /\ Begin(c, "event", [NoCall EXCEPT !.kind = "note", !.now = clock,
                                        !.event = "Noted"])
    /\ UNCHANGED <<policyVars, clock, packs, namespaces, held, effects,
                   eventSeq, log, task>>

-----------------------------------------------------------------------------
(* Governed execution                                                      *)

WithinPack_NoConnector(kind, p, need, connector) ==
    /\ Registered(p)
    /\ need \subseteq packs[p].grants

\* get_pack, assert_connector_allowed (connector calls only) and
\* assert_pack_grants: what a call must pass before the clock is read.
WithinPack(kind, p, need, connector) ==
    /\ Registered(p)
    /\ kind = "connector" => connector \in packs[p].connectors
    /\ need \subseteq packs[p].grants

\* TaskSupervisor::execute: Runnable -> InSend -> InReply before the kernel is
\* entered, with no await between (so InSend is never seen); any other state
\* is a ProtocolViolation and nothing is dispatched.
Dispatchable_Unguarded(t) == task[t] \notin Terminal
Dispatchable(t) == task[t] = "Runnable"

\* The entry of execute_task, execute_connector_core/_extension and
\* execute_{runtime,tool,memory}_{core,extension}.  t is NoTask unless the
\* call is a supervised task.
BeginExecute(c, kind, t, token, p, need, connector) ==
    /\ t # NoTask => kind = "task" /\ Dispatchable(t)
    /\ WithinPack(kind, p, need, connector)
    /\ Begin(c, "authorize",
             [NoCall EXCEPT !.kind = kind, !.task = t, !.token = token,
                            !.pack = p, !.need = need,
                            !.connector = connector, !.now = clock,
                            !.revoked = Revoked(token)])
    /\ task' = IF t = NoTask THEN task ELSE [task EXCEPT ![t] = "InReply"]
    /\ UNCHANGED <<policyVars, clock, packs, namespaces, held, effects,
                   eventSeq, log>>

\* PackNotFound, ConnectorNotAllowed, PackCapabilityBoundary: an Err without
\* an audit event; a supervised task becomes Faulted.
RejectExecute(c, kind, t, token, p, need, connector) ==
    /\ at[c] = "idle"
    /\ calls < MaxCalls
    /\ t # NoTask => kind = "task" /\ Dispatchable(t)
    /\ ~WithinPack(kind, p, need, connector)
    /\ calls' = calls + 1
    /\ made' = [made EXCEPT ![calls + 1] =
                  [kind |-> kind, task |-> t, res |-> "rejected"]]
    /\ task' = IF t = NoTask THEN task ELSE [task EXCEPT ![t] = "Faulted"]
    /\ UNCHANGED <<policyVars, clock, packs, namespaces, at, call, held, effects,
                   eventSeq, log>>

\* Where the call goes once the engine has answered.
AfterVerdict(v) == IF v = "allowed" THEN "extend" ELSE "event"

Lookup(c) ==
    /\ at[c] = "authorize"
    /\ AuthorizeLookup(c, call[c].token, call[c].pack, call[c].now, call[c].need)
    /\ \/ /\ pc'[c] = "check"
          /\ at' = [at EXCEPT ![c] = "authorizing"]
          /\ call' = call
       \/ /\ pc'[c] = "idle"
          /\ at' = [at EXCEPT ![c] = "event"]
          /\ Owe(c, "AuthorizationDenied")
    /\ UNCHANGED <<clock, packs, namespaces, calls, made, held, effects,
                   eventSeq, log, task>>

CheckToken(c) ==
    /\ at[c] = "authorizing"
    /\ AuthorizeCheck(c)
    /\ at' = [at EXCEPT ![c] = AfterVerdict(verdict'[c])]
    /\ call' = IF verdict'[c] = "allowed" THEN call
               ELSE [call EXCEPT ![c] = Owing(c, "AuthorizationDenied")]
    /\ UNCHANGED <<clock, packs, namespaces, calls, made, held, effects,
                   eventSeq, log, task>>

\* PolicyExtensionChain::authorize: the first extension that refuses decides.
\* Extensions are plugged in, so either answer is possible.
Extend(c, allow) ==
    /\ at[c] = "extend"
    /\ IF allow
       THEN /\ at' = [at EXCEPT ![c] = "running"]
            /\ call' = call
       ELSE /\ at' = [at EXCEPT ![c] = "event"]
            /\ Owe(c, "AuthorizationDenied")
    /\ UNCHANGED <<policyVars, clock, packs, namespaces, calls, made, held,
                   effects, eventSeq, log, task>>

\* The adapter of the plane answers Ok, having acted.
AdapterOk(c) ==
    /\ at[c] = "running"
    /\ effects' = effects \cup {call[c].n}
    /\ at' = [at EXCEPT ![c] = "event"]
    /\ Owe(c, DispatchEvent(call[c].kind))
    /\ UNCHANGED <<policyVars, clock, packs, namespaces, calls, made, held,
                   eventSeq, log, task>>

\* The adapter is missing or answers Err, with or without having acted: the
\* error is returned and nothing is recorded.
AdapterErr(c, acted) ==
    /\ at[c] = "running"
    /\ effects' = IF acted THEN effects \cup {call[c].n} ELSE effects
    /\ Return(c, "adapter_error")
    /\ UNCHANGED <<policyVars, clock, packs, namespaces, calls, eventSeq, log>>

\* The caller's future is dropped at its only await (an outer timeout or an
\* abort): neither an event nor a TaskState transition follows.
Drop(c, acted) ==
    /\ at[c] = "running"
    /\ effects' = IF acted THEN effects \cup {call[c].n} ELSE effects
    /\ at' = [at EXCEPT ![c] = "idle"]
    /\ made' = [made EXCEPT ![call[c].n].res = "dropped"]
    /\ call' = [call EXCEPT ![c] = NoCall]
    /\ UNCHANGED <<policyVars, clock, packs, namespaces, calls, held, eventSeq, log, task>>

-----------------------------------------------------------------------------
(* Audit                                                                   *)

\* new_event: event_seq.fetch_add(1), before the sink is entered; and the bug
\* of taking the id from the length of the journal.
JournalLength == Cardinality(log[1]) + 1
NextEventId == eventSeq + 1

NewEvent(c) ==
    /\ at[c] = "event"
    /\ eventSeq' = eventSeq + 1
    /\ at' = [at EXCEPT ![c] = "record"]
    /\ call' = [call EXCEPT ![c].eid = NextEventId, ![c].sink = 1]
    /\ UNCHANGED <<policyVars, clock, packs, namespaces, calls, made, held,
                   effects, log, task>>

\* What follows in a call when the sink it was in has answered Ok: the next
\* child, the next event, or the return.
AfterRecord(c) ==
    \/ /\ call[c].sink < NumSinks
       /\ call' = [call EXCEPT ![c].sink = call[c].sink + 1]
       /\ UNCHANGED <<at, made, held, task>>
    \/ /\ call[c].sink = NumSinks
       /\ FollowingEvent(call[c].event) # "none"
       /\ call' = [call EXCEPT ![c].event = FollowingEvent(call[c].event)]
       /\ at' = [at EXCEPT ![c] = "event"]
       /\ UNCHANGED <<made, held, task>>
    \/ /\ call[c].sink = NumSinks
       /\ FollowingEvent(call[c].event) = "none"
       /\ Return(c, ResultOf(call[c].event))

CurrentEvent(c) ==
    [eid |-> call[c].eid, call |-> call[c].n, kind |-> call[c].event]

\* One child of the FanoutAuditSink appends the event.
Record(c) ==
    /\ at[c] = "record"
    /\ log' = [log EXCEPT ![call[c].sink] = @ \cup {CurrentEvent(c)}]
    /\ AfterRecord(c)
    /\ UNCHANGED <<policyVars, clock, packs, namespaces, calls, effects, eventSeq>>

\* A child fails; the line may be in the journal all the same (flush or unlock
\* failed after write_all).  The fan-out stops there and the error goes to the
\* caller, even if the operation has taken effect.
RecordFails_Swallowed(c, written) ==
    /\ at[c] = "record"
    /\ log' = IF written THEN [log EXCEPT ![call[c].sink] = @ \cup {CurrentEvent(c)}]
              ELSE log
    /\ AfterRecord(c)
    /\ UNCHANGED <<policyVars, clock, packs, namespaces, calls, effects, eventSeq>>

RecordFails(c, written) ==
    /\ at[c] = "record"
    /\ log' = IF written THEN [log EXCEPT ![call[c].sink] = @ \cup {CurrentEvent(c)}]
              ELSE log
    /\ Return(c, "audit_error")
    /\ UNCHANGED <<policyVars, clock, packs, namespaces, calls, effects, eventSeq>>

-----------------------------------------------------------------------------
(* Specification                                                           *)

Init ==
    /\ PolicyInit
    /\ clock = 0
    /\ packs = [p \in Packs |-> NoManifest]
    /\ namespaces = [p \in Packs |-> {}]
    /\ at = [c \in Callers |-> "idle"]
    /\ call = [c \in Callers |-> NoCall]
    /\ calls = 0
    /\ made = [n \in CallIds |-> NotMade]
    /\ held = {}
    /\ effects = {}
    /\ eventSeq = 0
    /\ log = [s \in Sinks |-> {}]
    /\ task = [t \in Tasks |-> "Runnable"]

TokenStep(c) ==
    \/ \E p \in Packs, ttl \in Time : BeginIssue(c, p, ttl)
    \/ TakeGeneration(c)
    \/ TakeId(c)
    \/ \E id \in 1..MaxGeneration : BeginRevoke(c, id)
    \/ \E b \in 1..MaxGeneration : BeginRevokeGeneration(c, b)
    \/ EndRevokeGeneration(c)

ExecuteStep(c) ==
    \/ \E kind \in ExecuteKinds, t \in Tasks \cup {NoTask}, token \in held, p \in Packs,
          need \in SUBSET Capabilities, connector \in Connectors :
          \/ BeginExecute(c, kind, t, token, p, need, connector)
          \/ RejectExecute(c, kind, t, token, p, need, connector)
    \/ Lookup(c)
    \/ CheckToken(c)
    \/ \E allow \in BOOLEAN : Extend(c, allow)
    \/ AdapterOk(c)
    \/ \E acted \in BOOLEAN : AdapterErr(c, acted) \/ Drop(c, acted)

AuditStep(c) ==
    \/ BeginNote(c)
    \/ NewEvent(c)
    \/ Record(c)
    \/ \E written \in BOOLEAN : RecordFails(c, written)

Next ==
    \/ Tick
    \/ \E p \in Packs, m \in Manifests : RegisterPack(p, m)
    \/ \E c \in Callers : TokenStep(c) \/ ExecuteStep(c) \/ AuditStep(c)

Spec == Init /\ [][Next]_vars

-----------------------------------------------------------------------------
(* Properties                                                              *)

\* Type invariant of the kernel's own state; in particular every event in a
\* sink belongs to a numbered call.
KernelTypeOK ==
    /\ clock \in Time
    /\ packs \in [Packs -> Manifests \cup {NoManifest}]
    /\ namespaces \in [Packs -> SUBSET Capabilities]
    /\ at \in [Callers -> KernelStep]
    /\ call \in [Callers -> Call]
    /\ calls \in 0..MaxCalls
    /\ made \in [CallIds -> Made]
    /\ held \subseteq tokens
    /\ effects \subseteq CallIds
    /\ eventSeq \in Nat
    /\ log \in [Sinks -> SUBSET Event]
    /\ task \in [Tasks -> TaskStates]

\* An adapter only ever runs for a call whose token was alive when the call
\* began, belongs to the pack, had not expired at the time the call read, and
\* covers what the call needs; and the pack itself, as it is registered while
\* the adapter runs, grants all of that and the connector (docs/RELIABILITY.md,
\* kernel invariant 1; ARCHITECTURE.md, pack boundary).
FailClosed ==
    \A c \in Callers : at[c] = "running" =>
        LET k == call[c] IN
        /\ ~k.revoked
        /\ k.token \in tokens
        /\ k.token.pack = k.pack
        /\ k.now <= k.token.expires
        /\ k.need \subseteq k.token.caps \cap packs[k.pack].grants
        /\ k.kind = "connector" => k.connector \in packs[k.pack].connectors

\* A pack keeps the manifest it was registered with: what a token carries and
\* what get_namespace reports never differ from what the kernel enforces
\* (docs/RELIABILITY.md, kernel invariant 3).
GrantsAgree ==
    /\ \A t \in tokens : t.caps = packs[t.pack].grants
    /\ \A p \in Packs : namespaces[p] = packs[p].grants

RecordedEverywhere(n, kind) ==
    \A s \in Sinks : \E e \in log[s] : e.call = n /\ e.kind = kind

\* The events a call of each kind owes when it succeeds.
Evidence(kind) ==
    CASE kind = "issue"     -> {"TokenIssued"}
      [] kind = "revoke"    -> {"TokenRevoked"}
      [] kind = "note"      -> {"Noted"}
      [] kind = "task"      -> {"TaskDispatched"}
      [] kind = "connector" -> {"ConnectorInvoked", "PlaneInvoked"}
      [] kind = "plane"     -> {"PlaneInvoked"}

\* Audit events are never silently dropped (docs/RELIABILITY.md, kernel
\* invariant 2): a call that reports success has every event it owes in every
\* sink, a call reported as denied has its denial there, and an adapter's
\* effect lacks evidence only while the call is open or after an error or a
\* drop.
EvidenceBeforeOk ==
    \A n \in CallIds :
        /\ made[n].res = "ok" =>
              /\ \A kind \in Evidence(made[n].kind) : RecordedEverywhere(n, kind)
              /\ made[n].kind \in ExecuteKinds => n \in effects
        /\ made[n].res = "denied" =>
              /\ RecordedEverywhere(n, "AuthorizationDenied")
              /\ n \notin effects

\* The fan-out writes its children in order and stops at the first failure:
\* the durable journal (first child) is never behind the in-memory view.
JournalFirst ==
    \A s, t \in Sinks : s < t => log[t] \subseteq log[s]

\* An event id names one event: concurrent calls never share one, within a
\* sink or across sinks.
EventIdsUnique ==
    \A s, t \in Sinks : \A e \in log[s], f \in log[t] : e.eid = f.eid => e = f

\* A supervised task acts at most once: a task whose future was dropped half
\* way, or whose audit record failed after the adapter had acted, is not
\* Runnable again, so no retry through its supervisor repeats the effect
\* (docs/RELIABILITY.md, kernel invariant 5).
TaskActsOnce ==
    \A m, n \in effects :
        made[m].task = made[n].task /\ made[m].task # NoTask => m = n

\* "token lifecycle events ... all emit structured audit events"
\* (ARCHITECTURE.md, principle 4): a token that is dead by generation has a
\* TokenRevoked event somewhere.
TokenLifecycleAudited ==
    \A t \in tokens : GenerationRevoked(t) =>
        \E s \in Sinks : \E e \in log[s] : e.kind = "TokenRevoked"
=============================================================================
