------------------------- MODULE ProgrammaticBatch -------------------------
(***************************************************************************)
(* One batch step of a programmatic tool call (crates/spec/src/            *)
(* programmatic.rs): the scheduler that dispatches the calls by priority   *)
(* under an adaptive budget, and what each call goes through: the          *)
(* connector's circuit breaker, its rate limit, the attempts and their     *)
(* backoff, and the outcome it records in the breaker it was admitted by.  *)
(*                                                                         *)
(* The calls are futures of one FuturesUnordered, polled by one task: they *)
(* interleave at their awaits (a rate-limit sleep, the connector's answer, *)
(* a backoff sleep), and a call that completes is reported in the same     *)
(* step.  The breakers and the rate limits outlive the batch, so it may    *)
(* start with an open breaker.  An instant is kept as the time left until  *)
(* it, and Tick lets time pass for all of them.                            *)
(***************************************************************************)
EXTENDS Integers, FiniteSets, Sequences

CONSTANTS
    Batch,              \* the calls in their order: connector and priority
    Breakers,           \* connectors with a circuit-breaker policy
    Limited,            \* connectors with a rate limit
    MaxAttempts,        \* retry.max_attempts
    FailureThreshold,   \* circuit breaker: failure_threshold
    Cooldown,           \*   cooldown_ms
    HalfOpenMaxCalls,   \*   half_open_max_calls
    SuccessThreshold,   \*   success_threshold
    MinInterval,        \* rate limit: min_interval_ms
    MaxInFlight,        \* concurrency: max_in_flight
    MinInFlight,        \*   min_in_flight
    Weight,             \*   high_weight, normal_weight, low_weight
    AdaptiveBudget,     \*   adaptive_budget
    RecoverySuccesses,  \*   adaptive_recovery_successes
    UpshiftStep,        \*   adaptive_upshift_step
    DownshiftStep,      \*   adaptive_downshift_step
    ReduceOn            \*   adaptive_reduce_on

PriorityClass == {"High", "Normal", "Low"}

\* What validate_programmatic_circuit_breakers, _rate_limits,
\* validate_retry_policy and validate_programmatic_concurrency_policy accept.
ASSUME RetryAssumption == MaxAttempts \in Nat \ {0}
ASSUME RateAssumption == MinInterval \in Nat \ {0}
ASSUME BreakerAssumption ==
    /\ FailureThreshold \in Nat \ {0}
    /\ Cooldown \in Nat \ {0}
    /\ HalfOpenMaxCalls \in Nat \ {0}
    /\ SuccessThreshold \in 1..HalfOpenMaxCalls
ASSUME BudgetAssumption ==
    /\ MaxInFlight \in Nat \ {0}
    /\ MinInFlight \in 1..MaxInFlight
    /\ Weight \in [PriorityClass -> Nat \ {0}]
    /\ AdaptiveBudget \in BOOLEAN
    /\ RecoverySuccesses \in Nat \ {0}
    /\ UpshiftStep \in Nat \ {0}
    /\ DownshiftStep \in Nat \ {0}

Calls == 1..Len(Batch)
Connectors == {Batch[c].connector : c \in Calls}

\* prepare_programmatic_batch_calls refuses a batch without calls.
ASSUME BatchAssumption ==
    /\ Batch \in Seq([connector : {Batch[c].connector : c \in DOMAIN Batch},
                      priority : PriorityClass])
    /\ Len(Batch) # 0

VARIABLES
    plan,      \* the step's flags and the scheduling policy
    call,      \* per call: where its future is, its attempts, its sleep
    report,    \* reports_by_call
    order,     \* scheduler.dispatch_order
    cursor,    \* fairness_cursor
    budget,    \* current_budget
    streak,    \* consecutive_successes
    circuit,   \* connector_circuit_state
    slot,      \* connector_rate_state: time until the next free slot
    outcome,   \* what execute_programmatic_batch_calls returned
    admitted   \* calls a breaker let in since it last opened (history)

scheduler == <<order, cursor>>
adaptive  == <<budget, streak>>
vars == <<plan, call, report, order, cursor, budget, streak, circuit, slot, outcome, admitted>>

-----------------------------------------------------------------------------
(* Types                                                                   *)

Plans == [parallel : BOOLEAN, continue : BOOLEAN, fairness : {"weighted", "strict"}]

\* "attempt": asleep until its rate-limit slot (wait > 0), then at the kernel.
Stages == {"queued", "pushed", "attempt", "backoff", "done"}
CallState == [at : Stages, tries : 0..MaxAttempts, wait : Nat]

CircuitPhase == {"Closed", "Open", "HalfOpen"}
CircuitState ==
    [phase : CircuitPhase, failures : Nat, cool : Nat,
     remaining : 0..HalfOpenMaxCalls, successes : 0..HalfOpenMaxCalls]

\* ProgrammaticCircuitRuntimeState::default()
FreshCircuit ==
    [phase |-> "Closed", failures |-> 0, cool |-> 0, remaining |-> 0, successes |-> 0]

\* A breaker that an earlier step of the plan opened.
Tripped(left) ==
    [phase |-> "Open", failures |-> FailureThreshold, cool |-> left,
     remaining |-> 0, successes |-> 0]

ErrorCodes == {"connector_execution_error", "policy_denied"}

Least(S) == CHOOSE c \in S : \A d \in S : c <= d
AtMost(a, b) == IF a < b THEN a ELSE b
AtLeast(a, b) == IF a > b THEN a ELSE b

-----------------------------------------------------------------------------
(* The scheduler                                                           *)

IsParallel == plan.parallel /\ Len(Batch) > 1

Queued == {c \in Calls : call[c].at = "queued"}
InFlight == {c \in Calls : call[c].at \in {"pushed", "attempt", "backoff"}}

\* group_programmatic_calls_by_priority: the queue of a class is its queued
\* calls in batch order.
Waiting(p) == {c \in Queued : Batch[c].priority = p}

\* build_programmatic_weighted_cycle, or the strict order.
Share(p) == IF plan.fairness = "weighted" THEN Weight[p] ELSE 1
CycleLength == Share("High") + Share("Normal") + Share("Low")
ClassAt(i) ==
    IF i < Share("High") THEN "High"
    ELSE IF i < Share("High") + Share("Normal") THEN "Normal" ELSE "Low"

\* pop_next_programmatic_call: the first class, from the cursor on and around
\* the cycle, that has a call.  (PopNext_StaysAtClass: the cursor is left at
\* the class that was served.)
PopNext_StaysAtClass(c) ==
    \E offset \in 0..CycleLength - 1 :
       LET index == (cursor + offset) % CycleLength IN
       /\ Waiting(ClassAt(index)) # {}
       /\ \A o \in 0..offset - 1 : Waiting(ClassAt((cursor + o) % CycleLength)) = {}
       /\ c = Least(Waiting(ClassAt(index)))
       /\ cursor' = index
PopNext(c) ==
    \E offset \in 0..CycleLength - 1 :
       LET index == (cursor + offset) % CycleLength IN
       /\ Waiting(ClassAt(index)) # {}
       /\ \A o \in 0..offset - 1 : Waiting(ClassAt((cursor + o) % CycleLength)) = {}
       /\ c = Least(Waiting(ClassAt(index)))
       /\ cursor' = (index + 1) % CycleLength

\* The inner while loop pushes a future while the budget allows it.
Dispatch(c) ==
    /\ outcome = "running" /\ IsParallel
    /\ Cardinality(InFlight) < budget
    /\ PopNext(c)
    /\ call' = [call EXCEPT ![c].at = "pushed"]
    /\ order' = Append(order, c)
    /\ UNCHANGED <<plan, report, adaptive, circuit, slot, outcome, admitted>>

\* The for loop of a serial batch takes the calls in order, one at a time.
DispatchSerial(c) ==
    /\ outcome = "running" /\ ~IsParallel
    /\ InFlight = {} /\ Queued # {}
    /\ c = Least(Queued)
    /\ call' = [call EXCEPT ![c].at = "pushed"]
    /\ order' = Append(order, c)
    /\ UNCHANGED <<plan, report, cursor, adaptive, circuit, slot, outcome, admitted>>

\* The futures are polled only where the scheduler awaits them: it has pushed
\* all it may.
Awaiting ==
    /\ outcome = "running"
    /\ InFlight # {}
    /\ IsParallel => Queued = {} \/ Cardinality(InFlight) >= budget

\* should_reduce_programmatic_budget
Reduces(code) == {"any_error", code} \cap ReduceOn # {}

\* The budget after a completed call: raised after a run of successes, lowered
\* by an error of a listed kind.  (Adapt_NoFloor: without the max() with
\* min_in_flight.)
Adapt_NoFloor(status, code) ==
    IF ~(IsParallel /\ AdaptiveBudget) THEN UNCHANGED adaptive
    ELSE IF status = "ok"
    THEN LET up == budget < MaxInFlight /\ streak + 1 >= RecoverySuccesses
         IN /\ streak' = IF up THEN 0 ELSE streak + 1
            /\ budget' = IF up THEN AtMost(budget + UpshiftStep, MaxInFlight) ELSE budget
    ELSE /\ streak' = 0
         /\ budget' = IF Reduces(code) /\ budget > MinInFlight
                      THEN AtLeast(budget - DownshiftStep, 0) ELSE budget
Adapt(status, code) ==
    IF ~(IsParallel /\ AdaptiveBudget) THEN UNCHANGED adaptive
    ELSE IF status = "ok"
    THEN LET up == budget < MaxInFlight /\ streak + 1 >= RecoverySuccesses
         IN /\ streak' = IF up THEN 0 ELSE streak + 1
            /\ budget' = IF up THEN AtMost(budget + UpshiftStep, MaxInFlight) ELSE budget
    ELSE /\ streak' = 0
         /\ budget' = IF Reduces(code) /\ budget > MinInFlight
                      THEN AtLeast(budget - DownshiftStep, MinInFlight) ELSE budget

\* A future completes.  A serial batch that does not continue on errors returns
\* the first one at once.
Settle(c, status, code) ==
    /\ call' = [call EXCEPT ![c].at = "done"]
    /\ IF status = "error" /\ ~IsParallel /\ ~plan.continue
       THEN outcome' = "error" /\ UNCHANGED report
       ELSE report' = [report EXCEPT ![c] = status] /\ UNCHANGED outcome
    /\ Adapt(status, code)

\* The outer loop ends when nothing is pending or in flight, or when nothing
\* could be pushed; the first error is returned only now.
\* (Return_WhilePending: the loop ends with the last dispatch.)
Return_WhilePending ==
    /\ outcome = "running"
    /\ Queued = {} \/ (IsParallel /\ InFlight = {} /\ Cardinality(InFlight) >= budget)
    /\ outcome' = IF (\E c \in Calls : report[c] = "error") /\ ~plan.continue
                  THEN "error" ELSE "ok"
    /\ UNCHANGED <<plan, call, report, scheduler, adaptive, circuit, slot, admitted>>
Return ==
    /\ outcome = "running"
    /\ InFlight = {}
    /\ Queued = {} \/ (IsParallel /\ Cardinality(InFlight) >= budget)
    /\ outcome' = IF (\E c \in Calls : report[c] = "error") /\ ~plan.continue
                  THEN "error" ELSE "ok"
    /\ UNCHANGED <<plan, call, report, scheduler, adaptive, circuit, slot, admitted>>

-----------------------------------------------------------------------------
(* One call: invoke_programmatic_connector_with_resilience                 *)

Connector(c) == Batch[c].connector
Guarded(c) == Connector(c) \in Breakers
Entry(c) == circuit[Connector(c)]

\* apply_programmatic_rate_limit: the call takes the next free slot of its
\* connector, under the lock, and sleeps until it.  (Reserve_FromNow: the next
\* slot is counted from now.)
Reserve_FromNow(c) ==
    /\ call' = [call EXCEPT ![c] = [at |-> "attempt", tries |-> @.tries + 1,
                                    wait |-> IF Connector(c) \in Limited
                                             THEN slot[Connector(c)] ELSE 0]]
    /\ slot' = [slot EXCEPT ![Connector(c)] =
                   IF Connector(c) \in Limited THEN MinInterval ELSE @]
Reserve(c) ==
    /\ call' = [call EXCEPT ![c] = [at |-> "attempt", tries |-> @.tries + 1,
                                    wait |-> IF Connector(c) \in Limited
                                             THEN slot[Connector(c)] ELSE 0]]
    /\ slot' = [slot EXCEPT ![Connector(c)] =
                   IF Connector(c) \in Limited THEN @ + MinInterval ELSE @]

Cooling(e) == e.phase = "Open" /\ e.cool > 0

\* The entry as acquire_programmatic_circuit_slot goes on with it: a breaker
\* that has cooled down becomes half open, with all its probes.
Thawed(e) ==
    IF e.phase = "Open"
    THEN [e EXCEPT !.phase = "HalfOpen", !.cool = 0,
                   !.remaining = HalfOpenMaxCalls, !.successes = 0]
    ELSE e

Exhausted(e) == Thawed(e).phase = "HalfOpen" /\ Thawed(e).remaining = 0

\* A probe uses one of the calls the half-open breaker allows.
\* (Taken_Free: without the decrement.)
Taken_Free(e) == Thawed(e)
Taken(e) == [Thawed(e) EXCEPT !.remaining = IF Thawed(e).phase = "HalfOpen" THEN @ - 1 ELSE @]

Reopened(e) == [Thawed(e) EXCEPT !.phase = "Open", !.cool = Cooldown]

\* The first poll of a pushed future: the breaker is closed, absent, or has a
\* probe left; the call goes on to its first attempt.
Admit(c) ==
    /\ Awaiting /\ call[c].at = "pushed"
    /\ Guarded(c) => ~Cooling(Entry(c)) /\ ~Exhausted(Entry(c))
    /\ circuit' = [circuit EXCEPT ![Connector(c)] = IF Guarded(c) THEN Taken(@) ELSE @]
    /\ admitted' = [admitted EXCEPT ![Connector(c)] = @ + 1]
    /\ Reserve(c)
    /\ UNCHANGED <<plan, report, scheduler, adaptive, outcome>>

\* The breaker is open and has not cooled down.
RefuseOpen(c) ==
    /\ Awaiting /\ call[c].at = "pushed"
    /\ Guarded(c) /\ Cooling(Entry(c))
    /\ Settle(c, "error", "circuit_open")
    /\ UNCHANGED <<plan, scheduler, circuit, slot, admitted>>

\* The half-open breaker has no probe left: it opens again, whatever its probes
\* in flight will say.
RefuseExhausted(c) ==
    /\ Awaiting /\ call[c].at = "pushed"
    /\ Guarded(c) /\ ~Cooling(Entry(c)) /\ Exhausted(Entry(c))
    /\ circuit' = [circuit EXCEPT ![Connector(c)] = Reopened(@)]
    /\ admitted' = [admitted EXCEPT ![Connector(c)] = 0]
    /\ Settle(c, "error", "circuit_open")
    /\ UNCHANGED <<plan, scheduler, slot>>

Opened(e) == [e EXCEPT !.phase = "Open", !.cool = Cooldown, !.remaining = 0, !.successes = 0]

\* record_programmatic_circuit_outcome.  It looks at the phase of now, not at
\* the one the call was admitted in.
AfterSuccess(e) ==
    IF e.phase = "Closed" THEN [e EXCEPT !.failures = 0]
    ELSE IF e.phase = "Open" THEN e
    ELSE IF e.successes + 1 >= SuccessThreshold THEN FreshCircuit
    ELSE IF e.remaining = 0
    THEN [e EXCEPT !.phase = "Open", !.cool = Cooldown, !.successes = 0]
    ELSE [e EXCEPT !.successes = @ + 1]
AfterFailure(e) ==
    IF e.phase = "Closed"
    THEN IF e.failures + 1 >= FailureThreshold
         THEN [Opened(e) EXCEPT !.failures = @ + 1]
         ELSE [e EXCEPT !.failures = @ + 1]
    ELSE IF e.phase = "Open" THEN e
    ELSE Opened(e)

Record(c, after) ==
    /\ circuit' = [circuit EXCEPT ![Connector(c)] = IF Guarded(c) THEN after ELSE @]
    /\ admitted' = [admitted EXCEPT ![Connector(c)] =
                       IF Guarded(c) /\ Entry(c).phase # "Open" /\ after.phase = "Open"
                       THEN 0 ELSE @]

AtKernel(c) == Awaiting /\ call[c].at = "attempt" /\ call[c].wait = 0

\* The connector answers.
Succeed(c) ==
    /\ AtKernel(c)
    /\ Record(c, AfterSuccess(Entry(c)))
    /\ Settle(c, "ok", "none")
    /\ UNCHANGED <<plan, scheduler, slot>>

\* The connector, or the kernel, refuses the last attempt.
Fail(c, code) ==
    /\ AtKernel(c) /\ call[c].tries >= MaxAttempts
    /\ Record(c, AfterFailure(Entry(c)))
    /\ Settle(c, "error", code)
    /\ UNCHANGED <<plan, scheduler, slot>>

\* It refuses an earlier one: the call sleeps.  (Backoff_SameAttempt: the
\* attempt is not counted.)
Backoff_SameAttempt(c) ==
    /\ AtKernel(c) /\ call[c].tries < MaxAttempts
    /\ call' = [call EXCEPT ![c].at = "backoff", ![c].tries = @ - 1]
    /\ UNCHANGED <<plan, report, scheduler, adaptive, circuit, slot, outcome, admitted>>
Backoff(c) ==
    /\ AtKernel(c) /\ call[c].tries < MaxAttempts
    /\ call' = [call EXCEPT ![c].at = "backoff"]
    /\ UNCHANGED <<plan, report, scheduler, adaptive, circuit, slot, outcome, admitted>>

\* ... and tries again, without another look at the breaker.
Retry(c) ==
    /\ Awaiting /\ call[c].at = "backoff"
    /\ Reserve(c)
    /\ UNCHANGED <<plan, report, scheduler, adaptive, circuit, outcome, admitted>>

Less(n) == IF n > 0 THEN n - 1 ELSE 0

\* Time passes; only where it matters to someone.
Tick ==
    /\ Awaiting
    /\ \/ \E k \in Connectors : slot[k] > 0 \/ circuit[k].cool > 0
       \/ \E c \in Calls : call[c].wait > 0
    /\ slot' = [k \in Connectors |-> Less(slot[k])]
    /\ circuit' = [k \in Connectors |-> [circuit[k] EXCEPT !.cool = Less(@)]]
    /\ call' = [c \in Calls |-> [call[c] EXCEPT !.wait = Less(@)]]
    /\ UNCHANGED <<plan, report, scheduler, adaptive, outcome, admitted>>

-----------------------------------------------------------------------------
(* Specification                                                           *)

Init ==
    /\ plan \in Plans
    /\ call = [c \in Calls |-> [at |-> "queued", tries |-> 0, wait |-> 0]]
    /\ report = [c \in Calls |-> "none"]
    /\ order = << >>
    /\ cursor = 0
    /\ budget = MaxInFlight
    /\ streak = 0
    /\ circuit \in [Connectors -> {FreshCircuit} \cup {Tripped(d) : d \in 0..Cooldown}]
    /\ \A k \in Connectors \ Breakers : circuit[k] = FreshCircuit
    /\ slot = [k \in Connectors |-> 0]
    /\ outcome = "running"
    /\ admitted = [k \in Connectors |-> 0]

Next ==
    \/ \E c \in Calls :
          \/ Dispatch(c) \/ DispatchSerial(c)
          \/ Admit(c) \/ RefuseOpen(c) \/ RefuseExhausted(c)
          \/ Succeed(c) \/ Backoff(c) \/ Retry(c)
          \/ \E code \in ErrorCodes : Fail(c, code)
    \/ Return
    \/ Tick

\* The step is one task of the runtime: it is polled when an await is ready,
\* timers expire and connectors answer (in one way or the other).
Fairness ==
    /\ WF_vars(\E c \in Calls : Dispatch(c) \/ DispatchSerial(c))
    /\ WF_vars(Return)
    /\ WF_vars(Tick)
    /\ \A c \in Calls :
          /\ WF_vars(Admit(c) \/ RefuseOpen(c) \/ RefuseExhausted(c))
          /\ WF_vars(Succeed(c) \/ Backoff(c) \/ \E code \in ErrorCodes : Fail(c, code))
          /\ WF_vars(Retry(c))

Spec == Init /\ [][Next]_vars
FairSpec == Spec /\ Fairness

-----------------------------------------------------------------------------
(* Properties                                                              *)

\* Type invariant: the calls and their report, the adaptive budget, and the
\* circuit and rate slot of every connector.
BatchTypeOK ==
    /\ plan \in Plans
    /\ call \in [Calls -> CallState]
    /\ report \in [Calls -> {"none", "ok", "error"}]
    /\ order \in Seq(Calls)
    /\ cursor \in Nat
    /\ budget \in MinInFlight..MaxInFlight
    /\ streak \in Nat
    /\ circuit \in [Connectors -> CircuitState]
    /\ slot \in [Connectors -> Nat]
    /\ outcome \in {"running", "ok", "error"}
    /\ admitted \in [Connectors -> Nat]

\* The caller of the batch step builds its totals from the reports: a batch
\* that returns Ok has one for every call, whatever the budget, the order of
\* the completions and the errors were; and all of them are "ok" unless the
\* step continues on errors.
ReportsComplete ==
    outcome = "ok" => \A c \in Calls : report[c] \in (IF plan.continue THEN {"ok", "error"} ELSE {"ok"})

\* No priority class starves: as long as a class has queued calls, it is served
\* within as many dispatches as the other classes have places in the cycle.
NoStarvation ==
    IsParallel =>
       \A p \in PriorityClass :
          LET others == CycleLength - Share(p) IN
          Waiting(p) # {} /\ Len(order) > others =>
             \E i \in Len(order) - others..Len(order) : Batch[order[i]].priority = p

\* Between two openings a breaker that is not closed lets in no more calls than
\* half_open_max_calls, however the calls of one batch interleave and whatever
\* late answers it records.
ProbesBounded ==
    \A k \in Breakers \cap Connectors :
       /\ circuit[k].phase = "Open" => admitted[k] = 0
       /\ circuit[k].phase = "HalfOpen" => admitted[k] + circuit[k].remaining <= HalfOpenMaxCalls

\* Calls that sleep for the rate limit of one connector, in first attempts or
\* in retries, are min_interval_ms apart from each other and from whoever comes
\* next.
RateSpacing ==
    \A c \in Calls :
       call[c].wait > 0 =>
          /\ call[c].wait + MinInterval <= slot[Connector(c)]
          /\ \A d \in Calls \ {c} :
                call[d].wait > 0 /\ Connector(d) = Connector(c) =>
                   \/ call[d].wait + MinInterval <= call[c].wait
                   \/ call[c].wait + MinInterval <= call[d].wait

\* A batch returns, whatever its breakers refuse.
BatchReturns == <>(outcome # "running")
=============================================================================
