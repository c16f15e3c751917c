# Formal specification of LoongClaw

TLA+ modules for the parts of LoongClaw whose correctness depends on interleaving,
partial failure and restart, checked with TLC on small instances and, where the
argument is inductive, proved with TLAPS for every value of the constants.

`PROJECT.json` is the machine-readable side of this file: components, runs, mutants,
the map from definitions to source lines, hazards, findings and theorems.

## 1. Inventory

| Component | State | Operations | What is hard | What makes it correct | Modelled |
|---|---|---|---|---|---|
| Policy engine (`kernel/src/policy.rs`) | two atomic counters, an atomic revocation threshold, a set of revoked ids behind a mutex | `issue_token`, `authorize`, `revoke_token`, `revoke_generation` | `&self` everywhere, several atomic accesses per method, no lock around a method | revoked stays revoked; a revoked token is never allowed; tokens are distinct | yes |
| Kernel (`kernel/src/kernel.rs`, `audit.rs`, `policy_ext.rs`, `task_supervisor.rs`, `contracts`) | packs and namespaces, `event_seq`, audit sinks, supervised task states, clock | `register_pack`, `issue_token`, `revoke_*`, `record_audit_event`, `execute_task/connector/runtime/tool/memory` | authority is read before an await and used after it; several sinks, each of which may fail; futures dropped in the adapter | fail closed; evidence before success; a task acts once | mostly |
| Delegate sessions (`app/src/session/repository.rs`, `conversation/turn_coordinator.rs`, `conversation/runtime.rs`, `tools/session.rs`, `tools/delegate.rs`) | `sessions`, `session_events`, `session_terminal_outcomes` in SQLite; detached tasks; subagent hooks | `delegate`, `delegate_async`, `session_cancel`, `session_recover`, `session_archive` | workers, operators with stale snapshots, timeouts, failing writes and crashes all write the same row | terminal rows are final, row, outcome and events agree, the child limit holds, async children settle | mostly |
| Approvals (`turn_coordinator.rs`, `turn_engine.rs`, `session/repository.rs`, `tools/approval.rs`) | `approval_requests`, `approval_grants` | require approval, resolve, grant, replay, attention view | two resolutions of one request; failure or crash between approval, grant, replay and its record | a request is decided once and replayed at most once; a grant before the replay of an "always"; nothing unfinished looks finished | yes |
| ACP session manager (`app/src/acp/manager.rs`, `store.rs`) | session store, active turns, mutex registry, reference counts, pending turns | `ensure_session`, `run_turn`, `get_status`, `set_mode`, `set_config_option`, `cancel`, `close`, idle cleanup | five registries with five locks; preemption; dropped futures; restart over a persistent store | one call per session in the backend, exact counts, no orphaned waiters | mostly |
| Spec runtime, programmatic batches (`spec/src/programmatic.rs`) | breakers, rate limits, adaptive budget, priority queues | a batch step: dispatch, admit, attempt, retry, record | outcomes recorded in another phase than the one of the admission; parallel calls of one connector | complete reports, no starved class, bounded probes, spaced calls, the batch returns | the batch step |
| Provider layer (`app/src/provider`) | catalog cache and single flight, profile health, state file | resolve models, fail over, mark a profile, persist | stalled and dropped leaders, snapshots written out of order, torn files | one young fetch per key; the disk has the last revision; requests end | partly |
| Channel runtimes (`app/src/channel`) | runtime state files, heartbeat, offset or cursor | serve, poll, answer, acknowledge, shut down | two processes, stale files, a crash between the answer and the acknowledgement | no message lost, repeated answers have a cause, a dead process does not lock the next one out | polling channels |
| ACP backends, runtime routing (`app/src/acp/acpx*.rs`, ...) | child processes, routing tables | spawn, prompt, cancel | process I/O | behind the manager: an answer, an error or nothing | no |
| Turn loop, plan executor, turn budget (`app/src/conversation`) | turn state, budget windows, plan nodes | run a turn, run a plan | retries, budget exhaustion, node timeouts | bounded work, no node before its dependencies | no |
| Protocol transports (`protocol/src/lib.rs`) | bounded queues, closed flags | send, recv, close | close racing send | nothing after close, order kept | no |
| Integration, plugins, bootstrap, awareness (`kernel`) | catalogues, plans | scan, plan, bootstrap | none: sequential | order and policy of the plan | no |
| Memory (`app/src/memory`) | SQLite turns and summaries | append, window, compact | SQL text and ranking | window and summary agree | no |
| Tools, configuration, onboarding, CLIs, presentation | files, processes | many | I/O and text | outside this model | no |

### How the parts interact

A channel or the CLI starts a *turn*. The serve command of a polling channel owns its
account by a file with a heartbeat and hands each polled message to a turn. The turn
coordinator asks the *provider* for an answer (a model from the catalog, a profile by its
health, the next one when it fails), runs tools through the *kernel* (policy engine,
extensions, adapter, audit) after the *approval* check, and may start *delegate children*,
either inside its own future or in a detached task. When ACP is selected, the turn goes to
the *ACP manager* instead, which calls a backend. A spec step may call connectors in a
*programmatic batch*, each call through the kernel.
State is shared through SQLite (sessions, approvals, ACP store), through files (provider
state, channel runtime state, offsets), through the kernel's shared reference (`Arc`), and
through process-wide registries. Nothing in the repository runs a background job that
repairs state: recovery of a delegate child is a tool call, cleanup of ACP sessions rides
on the next call, an approved request whose replay was interrupted waits for an operator.

## 2. Modules

| Module | Models | Composition |
|---|---|---|
| `PolicyEngine` | `StaticPolicyEngine` | - |
| `Kernel` | `LoongClawKernel`, audit sinks, policy extensions, `TaskSupervisor` | extends `PolicyEngine`: its actions are the engine's atomic steps inside a kernel call; proved to implement `PolicySpec` |
| `ChildLifecycle` | what the delegate runtime promises a parent about each child | abstract specification |
| `DelegateSessions` | repository rows of one parent's children, inline and detached workers, session tools | implements `ChildLifecycle` (checked and proved) |
| `ConsentGate` | what approvals promise, without rows, resolvers or crashes | abstract specification |
| `Approvals` | the two tables, the check of a turn, the resolver, the attention view | implements `ConsentGate` (checked and proved) |
| `SessionLine` | what the ACP manager promises the callers of a session | abstract specification |
| `AcpManager` | `AcpSessionManager`, `SessionActorGuard`, the store's rows | implements `SessionLine` on a current-thread runtime (checked and proved) |
| `ProgrammaticBatch` | one batch step: scheduler, budget, breakers, rate limits, attempts | - |
| `ModelCatalog` | the catalog cache and its single flight | - |
| `ProviderProfiles` | health of the auth profiles, snapshots, the file backend | - |
| `ProviderRequests` | a request in auto-model mode | extends `ModelCatalog` and `ProviderProfiles` and drives both |
| `ChannelServe` | serve of a polling channel: gate, runtime files, heartbeat, batches, offset | - |
| `PolicyEngineProofs`, `KernelProofs`, `DelegateSessionsProofs`, `ApprovalsProofs`, `AcpManagerProofs`, `ProgrammaticBatchProofs`, `ProviderProofs`, `ChannelServeProofs` | theorems and proofs | each extends the module it is about (`ProviderProofs`: `ProviderRequests`, and with it the catalog and the profiles); `KernelProofs` extends `PolicyEngineProofs` as well |
| `MC*` | instances for TLC | one per run's module; several `.cfg` for different questions |

### PolicyEngine

One action is one atomic access. `issue_token` is `IssueGeneration` then `IssueId`;
`revoke_generation` is `RevokeGeneration` (raise the threshold, `fetch_max`) then
`RaiseGeneration` (move the counter past it); `authorize` is `AuthorizeLookup` (the
mutex-protected set of ids) then `AuthorizeCheck` (threshold, pack, expiry, capabilities,
in the code's order of precedence). `pc`, `tok`, `request`, `below` are the locals of a
caller; `tokens` and `doomed` are history. The accesses use relaxed atomics; each variable
is accessed through read-modify-write operations or single loads and no method draws a
conclusion from the order of writes to two different variables, so interleaving is the
model of them. `MaxTime` plays `u64::MAX`, so saturation of the expiry is inside the model.
The engine has no run of its own: every one of its steps is taken inside the kernel's run,
which checks the engine's properties there.

### Kernel

A call is numbered when it begins (`made` remembers what became of it) and goes through
the steps boundary checks, clock, authorize (two engine steps), extensions, adapter
(await), event id, and one step per sink. The nine `execute_*` methods share that path
and differ in the boundary check and the events they owe, so they are one family of
actions with a `kind`: `task` (with or without a supervisor), `connector` (also checks the
connector and owes two events), `plane` (runtime, tool and memory). A pack's manifest is
its grants and its allowed connectors. The sinks of `FanoutAuditSink` are written in
order and the first failure ends the record (`RecordFails`). `Drop` is a future dropped
while the adapter runs, before or after its effect.

### DelegateSessions

One action is one SQLite transaction, or one await of a worker. Every writing repository
method commits and then re-reads, so `Attempt` has four outcomes: committed, committed
but reported as an error, refused because the row has moved on, failed without a write.
`worker` is the program counter of the code that runs a child; `plan` is what an operator
has read and not applied yet. `Crash` kills all workers and plans and keeps the rows.
Event logs are sets of kinds: no property depends on their order or payload. `age` is
seconds since the row's own timestamp, capped one past the timeout, where every
comparison in the code has already turned true.

`ChildLifecycle` keeps of a child its state, the account of its end and what the parent was
told (`answer <- reported`). A child is admitted within the limit, begins at most once, ends
at most once with an account that fits, and a child that never began can only fail; the
parent is answered once, with the end that is stored. Hooks, events, plans, retries and
crashes of the detailed model are steps of it or stutters.

### Approvals and ConsentGate

One action is one SQL statement: every repository call opens its own connection. A turn
looks for a grant of its scope (the lineage root and the approval key) and then runs the
call or inserts a `Pending` request, whose id is a hash of the call, so that a second
request for it reads the first. A resolver (`task`) loads the request, moves it
`Pending -> Approved` with an `UPDATE ... WHERE status = ...`, for "always" writes the
grant, moves it to `Executing`, replays the saved call and writes `Executed` with the
error, if any. A write that commits may still be reported as an error, because the row is
read again. `DropResolver` drops the future in the tool, `Crash` ends everything but the
tables. `Signals` is `derive_attention_view`. `ToolReturns` has the three ways a replayed
tool comes back: it worked, it failed and said so in an `Ok` outcome (a `delegate` whose
child failed or timed out), or it returned an `Err`. `execute_approved_request` looks at the
last alone: the first two are recorded as `Executed` without an error and without a signal.
`CleanMeansDone` therefore says of a request without a signal that it was replayed exactly
once and came back with an outcome, not that the work succeeded; the failure of the child is
told to the resolver and kept in the child's own row. `ConsentGate` has only the verdict, the
grants and the runs of each call; under the mapping `verdict <- decision`,
`granted <- grants` a resolver's statements are steps of the gate or stutters.
The statuses `Expired` and `Cancelled` are declared and never written. The configured lists
of approved and denied calls are static; a call of the model is one that they leave to the
operator. A pending request is not withdrawn when a grant of its scope arrives.

### AcpManager

One action is one critical section of one registry, or one await. `SessionActorGuard::drop`
is therefore five steps (`Unlock`, `DecrementPending`, `DecrementRef`, `CheckActor`,
`RemoveActor`). `runtime` says whether callers run on one thread (they interleave only at
awaits) or on several. The tokio mutex is fair, so each mutex is a queue. A session stands
for its actor key. Abstractions: the number of rows that `max_concurrent_sessions` is
compared with includes sessions outside the model, so either answer is possible; the three
count reads for a row in `cleanup_idle_sessions` are one step; set_mode and
set_config_option write the same row and are one operation.
Turns of the repository's backends return `Ready`; `get_status` stores whatever state the
backend reports (`StatesAfter`), `Busy` among them. Such a row has no turn that will
overwrite it, and cleanup never evicts it until a later call on the session writes another
state. The history variable `unowned` marks the sessions of these rows and of those whose
turn was cut off, and `BusyHasOwner` says that there are no others. Cleanup tests the counts, awaits the
backend's close and then removes the row, although a turn may have begun meanwhile
(`Evict` removes whatever has become of it); the turn inserts the row again when it ends.

`SessionLine` has one line of callers per session and the caller inside: one arrives at the
end, the first enters when nobody is inside, comes out and leaves the line; one that gives up
is taken out and the others keep their order; a restart clears everything. The line of a
session is the queue of its registered mutex (`Line`), the callers inside are those that own
a guard (`Within`). Both are mapped to nothing on a multi-threaded runtime, where finding 2
breaks the promise; a caller at a mutex that is no longer registered, or a second one inside,
is no step of the line.

### ProgrammaticBatch

The calls of a batch are futures of one `FuturesUnordered`, polled by one task, so they
interleave at their awaits, and `Awaiting` says when the scheduler is there. `Dispatch`
pops the next call by the weighted or strict cycle (`PopNext`), `Admit` asks the breaker and
takes a rate-limit slot, `Succeed`, `Fail` and `Backoff` are the answer of the connector,
`Settle` the report with the adaptive budget in the same step. Breakers and rate limits
outlive the batch, so `Init` allows an open breaker. An instant is kept as the time left
until it; `Tick` lets time pass for all of them. The code records an outcome in the phase
the breaker has when the answer arrives, not in the one of the admission: a late success
may close a half-open breaker, and a window whose probes are all in flight re-opens
(`AfterSuccess`, `RefuseExhausted`). The model has both, and `ProbesBounded` holds
nevertheless.

### ModelCatalog, ProviderProfiles, ProviderRequests

`ModelCatalog` is the cache (`none`, `fresh`, `stale`) and the single flight: `Join`
subscribes to the registered slot or leads, `Publish` sends the result, `Unregister` and
`Abandon` drop the leader's guard, `Evict` is the timeout of a follower that finds its own
slot registered and old. A leader that was taken over may come back late (`Publish` from
`stalled`) and store its list.

`ProviderProfiles` is the store (entries, windows, and the relation "marked before"), the
mark with its snapshot under the store's lock, and the write of the snapshot afterwards under the
backend's lock: replaced by rename, overwritten in place when that fails (`BeginOverwrite`,
`EndOverwrite`), or lost. Times are abstracted to whether a window is open. One process has the file: the
backend's lock is of one process, and commands that share the file and overwrite each
other's windows are not modelled. Consequences of the code that the model keeps: an evicted entry takes its disabled window with it
(`Bounded`), and a restart prunes what it loads (`Reload`).

`ProviderRequests` composes them: `Begin` orders the configured profiles (`Rankings`, every
order that the health allows; profiles the comparison does not tell apart keep their places),
`Resolve` asks the catalog with one profile after the other, and the failover orders that list
again with the health it then finds (`Resolved`) and tries each model with each profile. The
order of the models by their own
cooldown is abstracted. `try_next_model` of an error is reported and does not steer the
loops, so an exhausted 5xx is retried with the next model, where
`provider-runtime-roadmap.md:52` speaks of prevention; the model follows the code.

### ChannelServe

An action is a file operation, an await or a critical section of one process; the
heartbeat is a task of its own. `Launch` is the gate: prune what is inactive (scan, then
remove what was found, even if its owner has written it again meanwhile), refuse if some
file says running, prune again; `Created` writes the file and reads the offset. `Poll`,
`Begun`, `Answer`, `Ack`, `Ended` and `CompleteBatch` are the loop of
`process_channel_batch` with the offset tracker: Telegram acknowledges each message,
Matrix the batch. `ShutDown` and `Exit` are the way out, with a heartbeat that may write
its copy after it. A process in `Once` runs with `--once`: it leaves the loop after a round,
answered or empty (`NextRound`), in good order; this is no fault, and somebody may start it
again. Faults: a poll or an answer that fails (even an answer that was delivered), an offset or
a state file that cannot be written, a crash. The history variable `exposed` holds the messages
that were answered and beyond the offset on disk when a serving process failed or died.

The gate is a check followed by a create, and a live process whose heartbeat is late is
pruned; so two processes may serve one account, although
`docs/plans/2026-03-11-channel-serve-ownership-phase-13.md:5` wants to prevent it. The
history variable `shared` records it, `RepeatsHaveCause` excepts it, and
`NoMessageLost` holds in spite of it. Apart from it, `RepeatsHaveCause` allows a second answer
only to an exposed message: it is about every restart, after `--once`, after a failed poll, after
a crash in the loop or outside it, and rests on the offset being in the file and read again.

Abstractions: files without an account and the old `telegram.offset` are left out; busy
flags, run counts and labels are for display; a file is truncated and written by one
write, so a torn one is empty; all files of a scan or a check are read in one step; a copy
that is written late is one that is stale right after. Assumed of the platforms: update ids
ascend, Telegram forgets what the offset of a poll covers, Matrix returns everything after
the cursor and, without one, from the beginning. The last is generous: a sync response may be
cut (`limited`), and `matrix.rs:294` takes its events without asking for the rest, so on Matrix
`NoMessageLost` and `EveryMessageAnswered` are about timelines that are not cut. `answered` counts handled turns.

## 3. Runs

| Run | Configuration | Question and result |
|---|---|---|
| `kernel_authority` | 2 callers, 2 packs, 2 manifests that differ in capability and connector, generations to 2, time to 1, 2 calls | `FailClosed`, `GrantsAgree`: what holds while an adapter runs. `RevokedNeverAllowed`, `TokensDistinct`, `RevocationMonotonic`, `FreshTokenIsLive`, `PolicyTypeOK`: the engine under interleaved calls of the kernel. |
| `kernel_audit` | 2 callers, 3 calls, 2 sinks, failures and drops anywhere | `EvidenceBeforeOk`, `JournalFirst`, `EventIdsUnique`, `TaskActsOnce`. |
| `kernel_lifecycle_audited` | 1 caller | Expected violation: `revoke_generation` kills tokens and records nothing. |
| `delegate_sessions` | 2 children, 1 slot, 1 operator, timeout 1 | `LimitRespected`, `OneStory`, `CancelledNeverStarts`, `ReportedIsStored`, `HooksPaired`, `TerminalFinal`, and the refinement `FollowsLifecycle`. |
| `delegate_liveness` | 1 child, 1 operator, fair | `AsyncSettles`. |
| `approvals` | 2 resolvers, 3 calls, 2 scopes | `OneExecutor`, `CleanMeansDone`, and the refinement `KeepsConsent`. |
| `acp_manager` | 2 callers on 1 session, 1 fault, both runtime flavours | `CountsExact`, `SerializedOnOneThread`, `BusyHasOwner`, `HolderIsAlive`, and the refinement `FifoOnOneThread`. |
| `acp_serialization` | the same without faults | Expected violation: `TurnsSerialized` on a multi-threaded runtime. |
| `programmatic_batch` | 4 calls of 2 connectors and 3 priorities, 2 attempts, 2 probes | `ReportsComplete`, `NoStarvation`, `ProbesBounded`, `RateSpacing`, `BatchReturns`, `BatchTypeOK`. |
| `provider_requests` | 2 requests, 2 profiles with a key each, room for 1 entry, 1 fault | `OneFetch`, `DiskIsCurrent`, `StalledSlotIsFreed`, `RequestsEnd`. |
| `model_catalog_followers` | 3 requests, 1 key | Expected violation: `NoFollowerStarves`. |
| `channel_serve` | 2 processes, one of them with `--once`, 3 updates of which 1 is ignored, 1 fault, both platforms | `NoMessageLost`, `RepeatsHaveCause`, `EveryMessageAnswered`. |

### Why the bounds are enough

* Two callers reach every race between two methods of the engine, of the kernel and of
  the manager: each property relates at most two calls. Three numbered calls in
  `kernel_audit` let a task be tried, fail and be retried beside another call.
* Two calls in `kernel_authority` do not reach a token that is issued, revoked by its id and
  then used; issue and use, and revoke and use, they do. The theorems of `PolicyEngineProofs`
  and `KernelProofs` have no such bound.
* `MaxGeneration = 2` allows a threshold below, at and above a token's generation;
  `MaxTime = 1` has an expired and a live token and makes the expiry saturate.
* Two sinks are the journal and the in-memory view of the production fan-out.
* Two children and one slot make the limit bind; one operator and one worker race for
  the row, and the second child competes for the slot. The timeout of 1 distinguishes
  before, at and after the deadline.
* Two resolvers race for one request; a second call of the same scope profits from its
  grant, and a call of another scope must not. Crashes and failed writes are not bounded.
* One ACP session with two callers: the registries are keyed by session and no operation
  but cleanup touches two keys; two callers suffice for a removed mutex, because the
  first to enter may finish and enter again. One fault is a dropped future, a failed
  write or a restart, at any point.
* Three of the four calls of a batch share a connector with a breaker and a rate limit:
  one more than the breaker has probes, so that it is exhausted. The budget of 3 falls
  by 2 and meets its floor. Both fairness policies, serial and parallel, with and without
  `continue_on_error`, breakers closed or open at the start are all initial states. With four
  calls a class waits for a whole cycle only under the strict policy; for the weighted one
  `NoStarvation` rests on the theorem `NoClassStarves`.
* Two requests are a leader and a follower, or two writers of snapshots; two profiles and
  room for one entry make the store evict. Three requests are needed for the second
  follower of the expected violation.
* Two processes are the old and the new owner, or two that passed the gate at once; of
  three updates the middle one is ignored, so an offset may cover more than the answers.
  The process with `--once` ends and comes back any number of times without a fault; the one
  fault exposes a message, or ends a process where it exposes none. `NoMessageLost` and
  `RepeatsHaveCause` are proved for every number of faults, processes and updates.

### Fairness

* `delegate_liveness`: time passes (weak fairness of `Tick`), a spawned task is polled
  until it is done (weak fairness of `WorkerStep`; tokio guarantees it), and a tool call
  ends. Nothing in the code calls `session_recover` by itself, so strong fairness of the
  recovery is an assumption about the users: somebody keeps recovering overdue children
  and not every write fails for ever. Without it the property is false: a crash leaves an
  async row `Running`.
* `programmatic_batch`: timers expire, ready futures are polled and connectors answer.
  The kernel call has no timeout of its own, so a connector that never answers would keep
  the batch.
* `provider_requests` and `model_catalog_followers`: ready futures are polled, slots grow
  old, the provider answers a request (the HTTP client has a timeout), and a catalog fetch
  that does not hang ends. A fetch that hangs is left to hang: `StalledSlotIsFreed` and
  `NoFollowerStarves` are about it, `RequestsEnd` excludes it.
* `channel_serve`: somebody starts the command again when it has ended (a supervisor or
  the user), its steps are taken, the platform and the turn answer, and heartbeats that are
  not renewed grow stale.

### Findings

1. `revoke_generation` records no audit event (`kernel.rs:280`), while
   `ARCHITECTURE.md:104` says that token lifecycle events all emit one.
2. `SessionActorGuard::drop` reads the reference count and removes the mutex under
   different locks (`manager.rs:1010`). A call that arrives in between keeps a mutex
   that is no longer registered; the next call makes a new one, and two turns of one
   session are in the backend at once. The test of serialization runs on a
   current-thread runtime, where the code is safe (`SerializedOnOneThread`).
3. Of two followers of a stalled catalog leader, only the one that removes the old slot
   gets away (`catalog_runtime.rs:235`); the other keeps the receiver of the stalled
   leader and waits as long as that hangs. `provider-runtime-roadmap.md:44` says that the
   takeover prevents follower starvation.

## 4. Proofs

Every theorem is for any finite or infinite sets the constants allow; the assumptions are
the named `ASSUME`s of the modules, which TLC evaluates in the runs: bounds are naturals,
sets that a record needs a member of are not empty, "nobody" is not a name, a batch is well
formed, and, where something is counted, the set is finite (callers and sessions of the ACP
manager, processes of a channel, calls of a batch, configured profiles). With them every
invariant, every action property and every refinement of the passing runs is a theorem. Type
invariants that are proved and catch nothing else are not repeated in the runs.

**`PolicyEngineProofs`**: `PolicyTypeCorrect`, `RevokedIsNeverAllowed`,
`TokensAreDistinct`, `RevocationIsMonotonic`, `FreshTokensLive`. The inductive invariant
`PolicyInv` adds to the type invariant and the properties:

* `CountersBound`: no issued or half-built token has an id or a generation beyond the
  counters. Without it nothing stops the next `fetch_add` from repeating one.
* `DraftsDistinct`: tokens that have a generation but no id yet already differ from
  each other and from the issued ones, since `issue_token` is two steps.
* `ThresholdCovered`: the threshold is at most the generation counter, except while
  some `revoke_generation` is between its two steps. `FreshTokensLive` follows from it.
* `DoomedByGeneration`: at the second step of `authorize`, a token that was revoked at
  the call and passed the id lookup is revoked by generation; the threshold only grows,
  so the check that follows refuses it.

**`KernelProofs`**: `KernelTypeCorrect`, `ExecutionFailsClosed`, `GrantsAlwaysAgree`, and
`KernelRunsTheEngine`: every behaviour of the kernel is one of `PolicySpec`, so that the
theorems about the engine hold inside it (`KernelNeverAllowsRevoked` is one). `KernelInv`
is inductive: `CallOK` says what a caller relies on in its own state (the engine works on
the token of the call, and a call that was allowed carries a token of the right pack, in
time, with the capabilities), `CallerOK` what it relies on in the shared state (its pack is
still registered with the same manifest; a token that was dead at the beginning is dead by
id before the lookup and by generation after it).

In the same module, for the audit side: `JournalIsFirst`, `EventIdsAreUnique`, `TasksActOnce`,
`SuccessHasEvidence`. `AuditInv`: a caller inside the fan-out owns its event id, and the
earlier sinks have its event. `TaskInv`: a call that names a task has taken it out of
`Runnable` for good, so no two calls name one. `EvidenceInv`: what a call has done and
recorded so far follows from where it is; call numbers of callers inside are distinct, and
the sinks only grow. With these every property of the kernel's passing runs is proved.

**`DelegateSessionsProofs`**: `DelegateTypeCorrect`, `LimitHolds`, `OneStoryHolds`,
`CancelledChildrenNeverStart`, `ReportsAreStored`, `HooksArePaired`, `TerminalRowsFinal`, and
`LifecycleIsFollowed`: `DelegateSessions` implements `ChildLifecycle`.
`ChildStep` shows of every action that it is good for every child: a step touches one
child, and for that child `DelegateInv` is kept. The invariant adds to the properties:

* `WorkerSound`: what the place of a worker says about its row, its mode and its hooks;
  in particular a row is inserted only where none was, so no insert overwrites a
  terminal row, and a worker that finalizes has a result.
* `InlineSound`: the row of an inline child is `Running` until its own worker finalizes
  it, and a worker that ends without an error has stored its result. This rests on
* `PlanSound`: cancel and recover plans are about async children (the builders of the
  plans refuse inline ones, and a child keeps its mode), so a stale plan never writes an
  inline row, and it names a state from which its write is allowed.
* `LimitInv`: the set of active children is finite; apart from an insert, which tests
  the limit in its own transaction, no step makes a child active (`EntryStep`).
* `AnsweredLast`, for the refinement: a worker that may still report has not reported, so
  the parent is answered once; that the answer is the stored end is `InlineSound`. Settling
  a child with a fitting account is the business of `WriteIfCurrent`, whose every caller
  names an end and an outcome that belong together (`SettleLife`).

**`ApprovalsProofs`**: `ApprovalsTypeCorrect`, `ExecutorIsUnique`, `CleanRequestsAreDone`,
and `ConsentIsKept`: `Approvals` implements `ConsentGate`. In `ApprovalInv`, `CallSound`
ties the columns of a row, the grants and the history of a call together, `TaskSound` says
what a resolver may rely on between two statements, and `OneExecutor` makes that reliance
safe: the row of a resolver past its decision is changed by nobody else.

**`AcpManagerProofs`**: `AcpTypeCorrect`, `CountsAreExact`, `NobodyWaitsForTheDead`,
`OneThreadSerializes`, `BusyIsOwned`, `SessionsAreLines`, for any finite number of callers and sessions and any
number of faults. Most of the steps leave the registries and the queues alone; `QuietSteps`
shows that once, from `FrameOK` (what the place of a caller says about its locals), and the
eight steps of the guard are treated one by one. Then, each on top of the former:

* `FreshLockExists`: there are as many mutexes as callers and sessions, and the caller that
  needs one has none, so one is free (a counting argument on images of finite sets).
* `QueueInv`: the callers in a queue have its mutex, only the first may be past its wait,
  nobody is in it twice, and whoever waits or owns is in it. `HolderIsAlive` follows.
* `CountsExact` is inductive with that; a step changes a count by the difference of what the
  caller counts before and after (`CountsMove`), and a caller that counts makes the count
  positive, so the saturating decrement subtracts exactly one.
* `ThreadInv`, on one thread: at most one caller is between two awaits, hence the count that
  `CheckActor` has read is still 0 at `RemoveActor`, hence (counts) nobody has the mutex that
  is removed, hence all calls of a session are in one queue, of which only the first runs.
  The second "hence" is what fails on several threads (finding 2).
* `BusyInv`, on one thread, with any number of faults: a `Busy` row has a turn or is marked
  `unowned` (`Owned`); a copy that is written back at once is the row itself (`FreshCopy`); one
  that is written back after the backend's answer is `Busy` only if the session is marked
  (`CleanCopy`), because its reader had the guard and the turn that owns a `Busy` row has it
  too (`OneOwner`).
* `SessionsAreLines`: on one thread `AcpManager` implements `SessionLine`. `LineInv` adds
  `LocksApart` (no two sessions share a mutex) to the above. Joining appends to the line
  because a fresh mutex has an empty queue (`LineJoin`), removing a mutex leaves the line as
  it is because its queue is empty (`LineRemove`, from the counts), the first enters an empty
  session because an owner is first too (`LineEnter`), and a dropped wait takes one place out
  because nobody has two (`LineGiveUp`). This says more than `OneThreadSerializes`: nobody
  overtakes, and no caller is left at a mutex that later callers do not see.

**`ProgrammaticBatchProofs`**: `BatchTypeCorrect`, `ProbesAreBounded`, `CallsAreSpaced`,
`ReportsAreComplete`, `NoClassStarves`. The probes are inductive beside the types: the step
to half-open resets both the admitted and the remaining calls. `Reported`: until the batch
fails, a call that is done has a report; and a batch that returns has nothing in flight, so
its budget is not used up and its queue is empty too. `NoStarvation` looks back over the
dispatched calls while the code looks ahead from a cursor: `InTurn` relates the two (the
dispatches since a waiting class was last served are at most the places the cursor has passed
since), with lemmas about the cyclic distance to the next place of a class.

**`ProviderProofs`**: `SingleFlight` (the catalog alone), `RequestsShareFetches` (the same of
the composition, through cancellation, failover and restarts), `ProviderTypeCorrect`,
`LastRevisionIsSaved`. Two young leaders of one key are excluded by `YoungOwnsSlot`: a leader
younger than the stale-slot age is the registered one, since only its own guard, or a follower
that saw it old, removes a slot. `DiskInv`: every snapshot on its way, and the file, has at
most the store's revision, and with the store's revision the store's windows; the last
revision is in the file, on its way, or lost. The store's revision grows with every mark, so
an old snapshot is never taken for the last one.

**`ChannelServeProofs`**: `ChannelTypeCorrect`, `MessagesAreNotLost`,
`RepeatedAnswersHaveCause`. `ChannelInv` adds what each process knows (`Tracks`): the offset
in its memory covers answered messages only, and what its pending offset covers is answered or
still in its batch. So nothing a process writes, however old its memory is, covers an
unanswered message. `Alone`, as long as no two processes have served at once: while a process
is in the loop, its offset in memory is the one on disk, and what was answered and is not exposed
is behind it (`Behind`: covered by that offset, taken from its batch, or about to be
acknowledged); while nobody is in the loop, it is covered by the offset on disk (`Resting`). An
orderly end and a failed poll lead from the first to the second without exposing anything; every
other way out of the loop exposes exactly what the offset does not cover, so the process that
starts next meets only exposed messages again.

Only model-checked: liveness (`AsyncSettles`, `BatchReturns`, `StalledSlotIsFreed`,
`RequestsEnd`, `EveryMessageAnswered`), since fairness and ENABLED are outside the proof
system's reach; and the three expected violations.

## 5. Not modelled

Each is listed in `PROJECT.json` with its reason. Most of the repository's lines are text:
prompts, rendering, argument parsing, configuration, onboarding, migration, message
formats, HTTP and process I/O, SQL ranking, benchmarks and tests inside the source files.
They keep little state and share less, and a model of them would be a transliteration.
With state of their own and not modelled yet: the protocol transports, the turn loop with
its budgets, plan executor and safe lane, the memory windows, the Feishu webhook.
The last has a hazard of its own: an event that is a duplicate of one still being processed
is acknowledged, and if that processing fails nobody sends it again.

Inside modelled components: poisoned locks (a panic inside a critical section) and the
error counters of the ACP manager; harness and adapter registration in the kernel; custom
policy engines; a restart of the kernel, which resets `event_seq` while the journal goes on;
nested delegates and the batch variants of the session tools; the steps of a programmatic
plan around a batch; the retries of one HTTP request and the SQLite backend of the provider
state; the contents of prompts, payloads and messages.

## 6. Plan

Done: all modules of section 2, model-checked, and every invariant, action property and
refinement of their passing runs proved.

1. An atomic authority (issue, revoke, decide in one step) implemented by `PolicyEngine`. Where
   a decision takes effect depends on what is revoked after the id lookup, so the refinement
   needs a prophecy of the verdict.
2. `Transport`: the channel and JSON-line transports, close racing send and recv, bounded
   queue; refines an abstract FIFO with a close.
3. The Feishu webhook with its deduplication, composed with the serve gate.
4. The turn loop: rounds, budget and plan executor, composed with `Approvals`.
