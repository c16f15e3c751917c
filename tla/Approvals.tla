----------------------------- MODULE Approvals -----------------------------
(***************************************************************************)
(* Approval of governed tool calls: the approval_requests and              *)
(* approval_grants tables of session/repository.rs, the check a turn makes *)
(* before an app tool runs (turn_engine.rs), and the resolution of a       *)
(* request by an operator, which replays the saved call                    *)
(* (CoordinatorApprovalResolutionRuntime of turn_coordinator.rs).          *)
(*                                                                         *)
(* Every repository call opens its own connection, so one action is one    *)
(* SQL statement and everything else interleaves: several resolvers of one *)
(* request, turns that issue calls of the same tool, a dropped future, a   *)
(* crash of the process.  A call that writes re-reads the row afterwards,  *)
(* so it may fail before its write or after it.                            *)
(***************************************************************************)
EXTENDS Naturals, FiniteSets

CONSTANTS
    Calls,      \* tool calls; the request id is a hash of the call
    Scopes,     \* <<root session, approval key>> pairs
    Scope,      \* the scope of each call
    Resolvers,  \* concurrent calls of approval_request_resolve
    Visible     \* the <<resolver, call>> pairs the session tree lets through

ASSUME ScopeAssumption == Scope \in [Calls -> Scopes]
ASSUME CallsAssumption == Calls # {}

VARIABLES
    status,     \* approval_requests.status ("absent": no row)
    decision,   \* approval_requests.decision
    lastError,  \* approval_requests.last_error is not NULL
    grants,     \* approval_grants
    turn,       \* where the turn that issues a call is
    task,       \* what each resolver is doing, for which request and decision
    replays,    \* how often the saved call was started by a resolver (history)
    outcome,    \* how that replay ended (history)
    direct      \* has the call run from a turn? (history)

rows    == <<status, decision, lastError>>
history == <<replays, outcome, direct>>
vars    == <<status, decision, lastError, grants, turn, task, replays, outcome, direct>>

-----------------------------------------------------------------------------
(* Types                                                                   *)

ApprovalRequestStatus == {"absent", "Pending", "Approved", "Executing", "Executed", "Denied"}
ApprovalDecision == {"ApproveOnce", "ApproveAlways", "Deny"}
TurnSteps == {"idle", "ensure", "run"}
ResolveSteps == {"idle", "decide", "grant", "begin", "replay", "await", "finish"}

\* How a replay ends: an Ok outcome that reports success, an Ok outcome whose
\* own status is "error" or "timeout" (a delegated child that failed or ran out
\* of time), or an Err.
Answered == {"ok", "failed"}
ReplayResults == Answered \cup {"error"}

Task == [step : ResolveSteps, call : Calls, dec : ApprovalDecision]

\* A resolver that has returned keeps nothing.
NoTask == [step |-> "idle", call |-> CHOOSE c \in Calls : TRUE, dec |-> "Deny"]

-----------------------------------------------------------------------------
(* Repository                                                              *)

\* transition_approval_request_if_current: UPDATE ... WHERE status = from.  A
\* NULL decision leaves the column alone; last_error is always overwritten.
\* (Transition_Blind: without the WHERE clause on the status.)
Transition_Blind(c, from, to, dec, err) ==
    /\ status[c] # "absent"
    /\ status' = [status EXCEPT ![c] = to]
    /\ decision' = [decision EXCEPT ![c] = IF dec = "none" THEN @ ELSE dec]
    /\ lastError' = [lastError EXCEPT ![c] = err]
Transition(c, from, to, dec, err) ==
    /\ status[c] = from
    /\ status' = [status EXCEPT ![c] = to]
    /\ decision' = [decision EXCEPT ![c] = IF dec = "none" THEN @ ELSE dec]
    /\ lastError' = [lastError EXCEPT ![c] = err]

Goto(r, step) == task' = [task EXCEPT ![r].step = step]
Return(r) == task' = [task EXCEPT ![r] = NoTask]

\* One conditional update of resolver r, which goes on to step ok; it ends the
\* call when the row was re-read in vain, was not in status from, or could not
\* be written.
Attempt(r, from, to, dec, err, ok) ==
    \/ Transition(task[r].call, from, to, dec, err) /\ (Goto(r, ok) \/ Return(r))
    \/ UNCHANGED rows /\ Return(r)

-----------------------------------------------------------------------------
(* The turn: maybe_require_approval, then execute_app_tool                 *)

\* load_approval_grant for the lineage root and the tool of the call.  The
\* turn fails when the lineage or the grant cannot be read.
LookupGrant(c) ==
    /\ turn[c] = "idle"
    /\ turn' = [turn EXCEPT ![c] = IF Scope[c] \in grants THEN "run" ELSE "ensure"]
    /\ UNCHANGED <<rows, grants, task, history>>

\* ensure_approval_request: INSERT a Pending row; the UNIQUE constraint turns
\* a second request for the same call into a read of the first.  The turn ends
\* with NeedsApproval, or with an error.
EnsureRequest(c) ==
    /\ turn[c] = "ensure"
    /\ \/ status[c] = "absent" /\ status' = [status EXCEPT ![c] = "Pending"]
       \/ UNCHANGED status
    /\ turn' = [turn EXCEPT ![c] = "idle"]
    /\ UNCHANGED <<decision, lastError, grants, task, history>>

\* execute_prepared_tool_intent: the tool of a call that needs no approval.
RunTool(c) ==
    /\ turn[c] = "run"
    /\ direct' = [direct EXCEPT ![c] = TRUE]
    /\ turn' = [turn EXCEPT ![c] = "idle"]
    /\ UNCHANGED <<rows, grants, task, replays, outcome>>

\* The turn is dropped, or its preparation failed: nothing was written.
EndTurn(c) ==
    /\ turn[c] # "idle"
    /\ turn' = [turn EXCEPT ![c] = "idle"]
    /\ UNCHANGED <<rows, grants, task, history>>

-----------------------------------------------------------------------------
(* The resolver: resolve_approval_request and execute_approved_request     *)

\* load_approval_request and the visibility check; a call that fails either
\* changes nothing.
LoadRequest(r, c, dec) ==
    /\ task[r].step = "idle"
    /\ status[c] # "absent"
    /\ <<r, c>> \in Visible
    /\ task' = [task EXCEPT ![r] = [step |-> "decide", call |-> c, dec |-> dec]]
    /\ UNCHANGED <<rows, grants, turn, history>>

\* Pending -> Denied ends the call, Pending -> Approved goes on.
DenyRequest(r) ==
    /\ task[r].step = "decide" /\ task[r].dec = "Deny"
    /\ \/ Transition(task[r].call, "Pending", "Denied", "Deny", FALSE)
       \/ UNCHANGED rows
    /\ Return(r)
    /\ UNCHANGED <<grants, turn, history>>

ApproveRequest(r) ==
    /\ task[r].step = "decide" /\ task[r].dec # "Deny"
    /\ Attempt(r, "Pending", "Approved", task[r].dec, FALSE,
               IF task[r].dec = "ApproveAlways" THEN "grant" ELSE "begin")
    /\ UNCHANGED <<grants, turn, history>>

\* lineage_root_session_id and upsert_approval_grant.  A failure leaves the
\* row Approved, with or without the grant.
\* (PersistGrant_BestEffort: the error is ignored and the call goes on.)
PersistGrant_BestEffort(r) ==
    /\ task[r].step = "grant"
    /\ \/ grants' = grants \cup {Scope[task[r].call]}
       \/ UNCHANGED grants
    /\ Goto(r, "begin")
    /\ UNCHANGED <<rows, turn, history>>
PersistGrant(r) ==
    /\ task[r].step = "grant"
    /\ \/ grants' = grants \cup {Scope[task[r].call]} /\ (Goto(r, "begin") \/ Return(r))
       \/ UNCHANGED grants /\ Return(r)
    /\ UNCHANGED <<rows, turn, history>>

\* Approved -> Executing.
BeginExecution(r) ==
    /\ task[r].step = "begin"
    /\ Attempt(r, "Approved", "Executing", "none", FALSE, "replay")
    /\ UNCHANGED <<grants, turn, history>>

\* replay_approved_request: the saved payload or the session context may be
\* refused before the tool starts.
ReplayRefused(r) ==
    /\ task[r].step = "replay"
    /\ outcome' = [outcome EXCEPT ![task[r].call] = "error"]
    /\ Goto(r, "finish")
    /\ UNCHANGED <<rows, grants, turn, replays, direct>>

\* ... or the tool starts,
ReplayTool(r) ==
    /\ task[r].step = "replay"
    /\ replays' = [replays EXCEPT ![task[r].call] = @ + 1]
    /\ Goto(r, "await")
    /\ UNCHANGED <<rows, grants, turn, outcome, direct>>

\* ... and comes back.
ToolReturns(r, res) ==
    /\ task[r].step = "await"
    /\ outcome' = [outcome EXCEPT ![task[r].call] = res]
    /\ Goto(r, "finish")
    /\ UNCHANGED <<rows, grants, turn, replays, direct>>

\* Executing -> Executed.  Only an Err is stored as last_error: any Ok outcome
\* is a success here, whatever its status says.
\* (FinishExecution_DropsError: last_error is cleared in both branches.)
FinishExecution_DropsError(r) ==
    /\ task[r].step = "finish"
    /\ \/ Transition(task[r].call, "Executing", "Executed", "none", FALSE)
       \/ UNCHANGED rows
    /\ Return(r)
    /\ UNCHANGED <<grants, turn, history>>
FinishExecution(r) ==
    /\ task[r].step = "finish"
    /\ \/ Transition(task[r].call, "Executing", "Executed", "none",
                     outcome[task[r].call] = "error")
       \/ UNCHANGED rows
    /\ Return(r)
    /\ UNCHANGED <<grants, turn, history>>

\* The turn that called approval_request_resolve is dropped at an await.
DropResolver(r) ==
    /\ task[r].step = "await"
    /\ Return(r)
    /\ UNCHANGED <<rows, grants, turn, history>>

\* The process dies between any two statements; the tables survive.
Crash ==
    /\ task' = [r \in Resolvers |-> NoTask]
    /\ turn' = [c \in Calls |-> "idle"]
    /\ UNCHANGED <<rows, grants, history>>

-----------------------------------------------------------------------------
(* What the operator is shown: derive_attention_view                       *)

ExecutionSignals(c) ==
    [absent |-> {}, Pending |-> {"pending_operator_decision"},
     Approved |-> {"resume_incomplete"}, Executing |-> {"resume_incomplete"},
     Executed |-> IF lastError[c] THEN {"resumed_execution_failed"} ELSE {},
     Denied |-> {}][status[c]]

GrantSignals(c) ==
    IF decision[c] = "ApproveAlways" /\ Scope[c] \notin grants
    THEN {"missing_runtime_grant"} ELSE {}

Signals(c) == ExecutionSignals(c) \cup GrantSignals(c)

-----------------------------------------------------------------------------
(* Specification                                                           *)

Init ==
    /\ status = [c \in Calls |-> "absent"]
    /\ decision = [c \in Calls |-> "open"]
    /\ lastError = [c \in Calls |-> FALSE]
    /\ grants = {}
    /\ turn = [c \in Calls |-> "idle"]
    /\ task = [r \in Resolvers |-> NoTask]
    /\ replays = [c \in Calls |-> 0]
    /\ outcome = [c \in Calls |-> "none"]
    /\ direct = [c \in Calls |-> FALSE]

Next ==
    \/ \E c \in Calls :
          LookupGrant(c) \/ EnsureRequest(c) \/ RunTool(c) \/ EndTurn(c)
    \/ \E r \in Resolvers :
          \/ \E c \in Calls, dec \in ApprovalDecision : LoadRequest(r, c, dec)
          \/ DenyRequest(r)
          \/ ApproveRequest(r)
          \/ PersistGrant(r)
          \/ BeginExecution(r)
          \/ ReplayRefused(r)
          \/ ReplayTool(r)
          \/ \E res \in ReplayResults : ToolReturns(r, res)
          \/ FinishExecution(r)
          \/ DropResolver(r)
    \/ Crash

Spec == Init /\ [][Next]_vars

-----------------------------------------------------------------------------
(* Properties                                                              *)

\* Type invariant.
TypeOK ==
    /\ status \in [Calls -> ApprovalRequestStatus]
    /\ decision \in [Calls -> ApprovalDecision \cup {"open"}]
    /\ lastError \in [Calls -> BOOLEAN]
    /\ grants \subseteq Scopes
    /\ turn \in [Calls -> TurnSteps]
    /\ task \in [Resolvers -> Task]
    /\ replays \in [Calls -> Nat]
    /\ outcome \in [Calls -> ReplayResults \cup {"none"}]
    /\ direct \in [Calls -> BOOLEAN]

\* The refinement mapping: a row's decision is the abstract verdict.
Gate == INSTANCE ConsentGate WITH verdict <- decision, granted <- grants

\* The approval runtime keeps the operator's word (ConsentGate): however
\* resolvers, turns, failed writes and crashes interleave, a request is decided
\* once, replayed at most once and only after its approval, for "always" only
\* once the grant is durable, and a turn runs a governed call by itself only
\* under a grant of its scope.
KeepsConsent == Gate!GateSpec

\* What "no attention needed" means: an approved request for which
\* derive_attention_view shows no signal was replayed exactly once, the tool came
\* back with an outcome, and an "always" has its grant.  A resolver that died, a
\* write that failed, a refused replay and a tool that returned an Err all leave
\* a signal.  It does not mean that the work succeeded: a delegate that failed or
\* timed out is an Ok outcome, told to the resolver and kept in the child's row.
CleanMeansDone ==
    \A c \in Calls :
        decision[c] \in {"ApproveOnce", "ApproveAlways"} /\ Signals(c) = {} =>
            /\ replays[c] = 1 /\ outcome[c] \in Answered
            /\ decision[c] = "ApproveAlways" => Scope[c] \in grants

\* One resolver at a time works on an approved request: from its approval to
\* the record of its end no other one passes the decision.
OneExecutor ==
    \A r, s \in Resolvers :
        /\ task[r].step \in {"grant", "begin", "replay", "await", "finish"}
        /\ task[s].step \in {"grant", "begin", "replay", "await", "finish"}
        /\ task[r].call = task[s].call
        => r = s
=============================================================================
