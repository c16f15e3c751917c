-------------------------- MODULE ProviderRequests --------------------------
(***************************************************************************)
(* A provider request in auto-model mode, from its session to its answer:  *)
(* prepare_provider_request_session (request_session_runtime.rs) resolves  *)
(* the model candidates with one auth profile after the other, through the *)
(* catalog; request_across_model_candidates (request_failover_runtime.rs)  *)
(* then tries every model with every profile until one answers.  Both mark *)
(* the health of the profiles they use.  Several requests run at the same  *)
(* time, on several threads; the process may crash and start again.        *)
(*                                                                         *)
(* The model candidates are numbered: which model comes first (their       *)
(* ranking, model_candidate_cooldown_runtime.rs) is abstracted.            *)
(***************************************************************************)
EXTENDS ModelCatalog, ProviderProfiles, Sequences

CONSTANTS
    Configured,  \* the auth profiles, in the order of the configuration
    KeyOf,       \* the catalog cache key of a profile
    NumModels,   \* model candidates (bound)
    MaxFaults    \* faults, and moments at which time matters (bound)

ASSUME ClientsAssumption == Clients = Requests
\* resolve_provider_auth_profiles ends with the anonymous profile when there is
\* no other, and never names one twice.
ASSUME ConfiguredAssumption ==
    /\ IsFiniteSet(Profiles) /\ Profiles # {}
    /\ Configured \in [1..Cardinality(Profiles) -> Profiles]
    /\ \A i, j \in DOMAIN Configured : Configured[i] = Configured[j] => i = j
ASSUME KeyOfAssumption == KeyOf \in [Profiles -> Keys]
ASSUME NumModelsAssumption == NumModels \in Nat \ {0}
ASSUME MaxFaultsAssumption == MaxFaults \in Nat

VARIABLES
    req,      \* per request: its stage and what is left of its loops
    faults    \* the faults so far

vars == <<cache, slot, fetch, store, persistRev, disk, unsaved,
          writer, lost, req, faults>>

Stages == {"idle", "catalog", "attempt", "done", "failed", "dropped"}
Request == [stage : Stages, todo : Seq(Profiles), ordered : Seq(Profiles), model : 0..NumModels]
NoRequest == [stage |-> "idle", todo |-> << >>, ordered |-> << >>, model |-> 0]
Ended(how) == [NoRequest EXCEPT !.stage = how]

\* prioritize_profiles_by_health of the profiles in `order`: the usable ones come
\* first, those that were never used before the others and in the order given
\* (the sort is stable).  The times that order the rest are abstracted.
Ready(p) == ObserveOnly \/ p \notin Unusable
Place(order, p) == CHOOSE i \in DOMAIN order : order[i] = p
MayPrecede(order, p, q) ==
    /\ Ready(q) => Ready(p)
    /\ Ready(p) /\ Ready(q) /\ p \in store.used => q \in store.used
    /\ Ready(p) /\ Ready(q) /\ q \notin store.used => Place(order, p) < Place(order, q)
Rankings(order) ==
    {s \in [DOMAIN Configured -> Profiles] :
        \A i, j \in DOMAIN s : i < j => s[i] # s[j] /\ MayPrecede(order, s[i], s[j])}

\* A request goes on once its last mark has been written.
Running(r, stage) == req[r].stage = stage /\ unsaved[r] = NoSnapshot
Current(r) == Head(req[r].todo)

\* The session orders the profiles ...
Begin(r) ==
    /\ Running(r, "idle")
    /\ \E s \in Rankings(Configured) :
          req' = [req EXCEPT ![r] = [stage |-> "catalog", todo |-> s, ordered |-> s, model |-> 0]]
    /\ Look
    /\ UNCHANGED <<catalogVars, faults>>

\* ... and asks the catalog with the first of them.
Resolve(r) ==
    /\ Running(r, "catalog")
    /\ Lookup(r, KeyOf[Current(r)])
    /\ UNCHANGED <<profileVars, req, faults>>

\* The candidates are known: the failover loop orders the profiles of the session
\* again.
Resolved(r) ==
    /\ Running(r, "catalog") /\ fetch[r].at = "resolved"
    /\ fetch' = [fetch EXCEPT ![r] = NoFetch]
    /\ \E s \in Rankings(req[r].ordered) :
          req' = [req EXCEPT ![r] = [stage |-> "attempt", todo |-> s, ordered |-> s, model |-> 1]]
    /\ Look
    /\ UNCHANGED <<cache, slot, faults>>

\* No catalog with this profile: it is marked, and the next one is asked.
NextAsked(q) == IF Len(q.todo) > 1 THEN [q EXCEPT !.todo = Tail(@)] ELSE Ended("failed")
Unresolved(r, auth) ==
    /\ Running(r, "catalog") /\ fetch[r].at = "failed"
    /\ fetch' = [fetch EXCEPT ![r] = NoFetch]
    /\ MarkFailure(r, Current(r), auth)
    /\ req' = [req EXCEPT ![r] = NextAsked(@)]
    /\ UNCHANGED <<cache, slot, faults>>

\* A request with the current model and profile succeeds.
Answered(r) ==
    /\ Running(r, "attempt")
    /\ MarkSuccess(r, Current(r))
    /\ req' = [req EXCEPT ![r] = Ended("done")]
    /\ UNCHANGED <<catalogVars, faults>>

\* The loops go on with the next profile, then with the next model.  What the
\* error says about trying another model is reported, but steers nothing.
Advanced(q) ==
    IF Len(q.todo) > 1 THEN [q EXCEPT !.todo = Tail(@)]
    ELSE IF q.model < NumModels THEN [q EXCEPT !.todo = q.ordered, !.model = @ + 1]
    ELSE Ended("failed")

\* It fails; the profile is marked unless the error is about the request.
Refused(r, marks, auth) ==
    /\ Running(r, "attempt")
    /\ IF marks THEN MarkFailure(r, Current(r), auth) ELSE UNCHANGED profileVars
    /\ req' = [req EXCEPT ![r] = Advanced(@)]
    /\ UNCHANGED <<catalogVars, faults>>

\* The catalog and the disk go their own way.
CatalogMoves(r) == FetchStep(r) /\ UNCHANGED <<profileVars, req, faults>>
Fetched(r) ==
    /\ \E result \in Results : Publish(r, result)
    /\ UNCHANGED <<profileVars, req, faults>>
Save(r) ==
    /\ SkipStale(r) \/ Replace(r) \/ EndOverwrite(r)
    /\ UNCHANGED <<catalogVars, req, faults>>
SlotsAge ==
    /\ \E q \in Requests : AgeSlot(q)
    /\ UNCHANGED <<profileVars, req, faults>>

-----------------------------------------------------------------------------
(* Faults                                                                  *)

Fault == faults < MaxFaults /\ faults' = faults + 1

\* The future is dropped while it waits for the provider.
Cancel(r) ==
    /\ Fault
    /\ Running(r, "attempt")
    /\ req' = [req EXCEPT ![r] = Ended("dropped")]
    /\ UNCHANGED <<catalogVars, profileVars>>

FetchFails(r) == Fault /\ (Stall(r) \/ Abandon(r)) /\ UNCHANGED <<profileVars, req>>
WriteFails(r) == Fault /\ (BeginOverwrite(r) \/ FailToWrite(r)) /\ UNCHANGED <<catalogVars, req>>

EntriesAge ==
    /\ Fault
    /\ \/ (\E k \in Keys : AgeCache(k)) /\ UNCHANGED profileVars
       \/ (\E p \in Profiles : Expire(p)) /\ UNCHANGED catalogVars
    /\ UNCHANGED req

\* A new process: the disk is all that is left.  A crash in the middle of an
\* overwrite counts as one fault with it.
Crash ==
    /\ Fault \/ (writer # Idle /\ UNCHANGED faults)
    /\ cache' = [k \in Keys |-> "none"]
    /\ slot' = [k \in Keys |-> NoOne]
    /\ fetch' = [r \in Requests |-> NoFetch]
    /\ Reload
    /\ req' = [r \in Requests |-> NoRequest]

-----------------------------------------------------------------------------
(* Specification                                                           *)

Init ==
    /\ CatalogInit
    /\ ProfilesInit
    /\ req = [r \in Requests |-> NoRequest]
    /\ faults = 0

\* The answer of the provider.
Answer(r) ==
    Answered(r) \/ \E marks, auth \in BOOLEAN : Refused(r, marks, auth)

Next ==
    \/ \E r \in Requests :
          \/ Begin(r) \/ Resolve(r) \/ Resolved(r)
          \/ \E auth \in BOOLEAN : Unresolved(r, auth)
          \/ Answer(r)
          \/ CatalogMoves(r) \/ Fetched(r) \/ Save(r)
          \/ Cancel(r) \/ FetchFails(r) \/ WriteFails(r)
    \/ SlotsAge \/ EntriesAge
    \/ Crash

\* Futures that are ready are polled, writes come to an end, slots grow old;
\* the provider answers, and a catalog fetch that does not hang ends.
Fairness ==
    /\ \A r \in Requests :
          /\ WF_vars(Resolve(r) \/ Resolved(r) \/ \E auth \in BOOLEAN : Unresolved(r, auth))
          /\ WF_vars(Answer(r))
          /\ WF_vars(CatalogMoves(r))
          /\ WF_vars(fetch[r].at = "fetch" /\ Fetched(r))
          /\ WF_vars(Save(r))
    /\ WF_vars(SlotsAge)

Spec == Init /\ [][Next]_vars
FairSpec == Spec /\ Fairness

-----------------------------------------------------------------------------
(* Properties                                                              *)

\* Type invariant: the profile store, its snapshots and file, and every
\* request's position in its failover walk.
ProviderTypeOK ==
    /\ CatalogTypeOK
    /\ store \in Store
    /\ disk = Torn \/ disk \in Store
    /\ persistRev \in Nat /\ lost \in BOOLEAN
    /\ unsaved \in [Clients -> Store \cup {NoSnapshot}]
    /\ writer \in Clients \cup {Idle}
    /\ req \in [Requests -> Request]
    /\ faults \in 0..MaxFaults

Over(r) == req[r].stage \in {"done", "failed", "dropped"} \/ fetch[r].at = "dropped"

\* As long as no fetch hangs, the requests that have begun come to an end,
\* through leaders that are dropped, slots that are evicted, profiles that fail
\* and snapshots that cannot be written.
RequestsEnd ==
    []<>(\/ \E q \in Requests : fetch[q].at = "stalled"
         \/ \A r \in Requests : req[r].stage = "idle" \/ Over(r))
=============================================================================
