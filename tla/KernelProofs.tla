---------------------------- MODULE KernelProofs ----------------------------
(***************************************************************************)
(* Governed execution, for any callers, packs, manifests, connectors,      *)
(* tasks and sinks.  Every step of the kernel is a step of the policy      *)
(* engine or leaves it alone, so what PolicyEngineProofs shows of the      *)
(* engine holds inside the kernel.  FailClosed needs what a call relies on *)
(* between two of its steps (CallerOK): the pack it was checked against is *)
(* still registered with the same manifest, the engine works on the token  *)
(* of the call, and a token that was dead when the call began is dead by   *)
(* id or by generation ever after.                                         *)
(*                                                                         *)
(* The audit guarantees follow from three more invariants.  A caller       *)
(* inside the fan-out owns its event id and has left its event in every    *)
(* earlier child (AuditInv); a task is named by at most one call           *)
(* (TaskInv); and what a call has recorded and done so far follows from    *)
(* where it is (EvidenceInv).                                              *)
(***************************************************************************)
EXTENDS Kernel, PolicyEngineProofs, TLAPS

Governed == {"authorize", "authorizing", "extend", "running"}

\* What caller c relies on, as far as it depends on its own state ...
CallOK(c) ==
    LET k == call[c] IN
    /\ at[c] \notin {"idle", "forward"} => k.n \in CallIds
    /\ at[c] \in {"issue", "issuing"} => k.kind = "issue"
    /\ at[c] = "record" => k.sink \in Sinks
    /\ at[c] \in Governed => k.kind \in ExecuteKinds
    /\ at[c] = "authorizing" =>
          /\ tok[c] = k.token
          /\ request[c] = [pack |-> k.pack, now |-> k.now, need |-> k.need]
    /\ at[c] \in {"extend", "running"} =>
          /\ ~k.revoked
          /\ k.token.pack = k.pack
          /\ k.now <= k.token.expires
          /\ k.need \subseteq k.token.caps

\* ... and as far as it depends on the packs and the engine.
CallerOK(c) ==
    LET k == call[c] IN
    /\ at[c] = "issue" => Registered(k.pack)
    /\ at[c] = "issuing" => /\ Registered(tok[c].pack)
                            /\ tok[c].caps = packs[tok[c].pack].grants
    /\ at[c] \in {"event", "record"} /\ k.kind = "issue" => k.token \in tokens
    /\ at[c] \in Governed =>
          /\ k.token \in tokens
          /\ WithinPack(k.kind, k.pack, k.need, k.connector)
    /\ at[c] = "authorize" /\ k.revoked => Revoked(k.token)
    /\ at[c] = "authorizing" /\ k.revoked => GenerationRevoked(k.token)

TokensOfPacks ==
    \A t \in tokens : Registered(t.pack)

KernelInv ==
    /\ PolicyTypeOK
    /\ KernelTypeOK
    /\ \A c \in Callers : CallOK(c) /\ CallerOK(c)
    /\ TokensOfPacks
    /\ GrantsAgree

-----------------------------------------------------------------------------
(* Records                                                                 *)

LEMMA NoCallType == NoCall \in Call
  <1>1. (CHOOSE p \in Packs : TRUE) \in Packs /\ (CHOOSE k \in Connectors : TRUE) \in Connectors
    BY PacksAssumption, ConnectorsAssumption
  <1>2. 0 \in 0..MaxCalls /\ 0 \in 0..NumSinks /\ 0 \in Time
    BY MaxCallsAssumption, NumSinksAssumption, MaxTimeAssumption DEF Time
  <1>3. NoToken \in CapabilityToken
    BY NullTypes
  <1> QED BY <1>1, <1>2, <1>3 DEF NoCall, Call, Kinds, EventKinds

\* A call that owes an event has kept its number, its kind and its task.
LEMMA OwingType ==
  ASSUME KernelTypeOK, NEW c \in Callers, NEW e \in EventKinds
  PROVE  /\ Owing(c, e) \in Call
         /\ Owing(c, e).n = call[c].n
         /\ Owing(c, e).kind = call[c].kind
         /\ Owing(c, e).event = e
         /\ Owing(c, e).sink = NoCall.sink
  <1>1. call[c] \in Call
    BY DEF KernelTypeOK
  <1> QED BY <1>1, NoCallType DEF Owing, Call

\* A registered manifest is not the null one.
LEMMA ManifestFacts ==
  ASSUME NEW m \in Manifests
  PROVE  /\ m # NoManifest
         /\ m.grants \subseteq Capabilities
         /\ m.connectors \subseteq Connectors
  <1>1. /\ m \in [grants : (SUBSET Capabilities) \ {{}}, connectors : SUBSET Connectors]
        /\ NoManifest.grants = {}
    BY ManifestsAssumption DEF NoManifest
  <1> QED BY <1>1

-----------------------------------------------------------------------------
(* Frames                                                                  *)

\* The others are where they were.
Alone(c) ==
    \A d \in Callers \ {c} : at'[d] = at[d] /\ call'[d] = call[d]

\* A step of the engine moves one caller, and revokes or issues more.
EngineMoves(c) ==
    /\ \A d \in Callers \ {c} : tok'[d] = tok[d] /\ request'[d] = request[d]
    /\ revokedBelow' \in Nat /\ revokedBelow' >= revokedBelow
    /\ revokedTokens \subseteq revokedTokens'
    /\ tokens \subseteq tokens'

LEMMA EngineFrame ==
  ASSUME PolicyTypeOK, NEW c \in Callers, PolicyStep(c) \/ UNCHANGED policyVars
  PROVE  PolicyTypeOK' /\ EngineMoves(c) /\ [PolicyNext]_policyVars
  <1>1. [PolicyNext]_policyVars
    BY DEF PolicyNext
  <1>2. PolicyTypeOK'
    BY <1>1, TypeStep
  <1>3. revokedBelow' >= revokedBelow /\ revokedTokens \subseteq revokedTokens'
    BY <1>1, MonotoneStep
  <1>4. /\ tokens \subseteq tokens'
        /\ \A d \in Callers \ {c} : tok'[d] = tok[d] /\ request'[d] = request[d]
    <2>1. CASE UNCHANGED policyVars
      BY <2>1 DEF policyVars
    <2>2. CASE PolicyStep(c)
      BY <2>2 DEF PolicyStep, IssueGeneration, IssueId, RevokeToken, RevokeGeneration,
                  RaiseGeneration, AuthorizeLookup, AuthorizeCheck, NewCall, PolicyTypeOK
    <2> QED BY <2>1, <2>2
  <1> QED BY <1>1, <1>2, <1>3, <1>4 DEF EngineMoves, PolicyTypeOK

\* What a caller relies on survives the steps of the others.
LEMMA OthersOK ==
  ASSUME KernelInv, NEW c \in Callers, Alone(c), EngineMoves(c), packs' = packs,
         NEW d \in Callers \ {c}
  PROVE  CallOK(d)' /\ CallerOK(d)'
  <1>1. CallOK(d) /\ CallerOK(d) /\ call[d] \in Call
    BY DEF KernelInv, KernelTypeOK
  <1>2. at'[d] = at[d] /\ call'[d] = call[d] /\ tok'[d] = tok[d] /\ request'[d] = request[d]
    BY DEF Alone, EngineMoves
  <1>3. CallOK(d)'
    BY <1>1, <1>2 DEF CallOK
  <1>4. call[d].token \in CapabilityToken /\ revokedBelow \in Nat
    BY <1>1 DEF Call, KernelInv, PolicyTypeOK
  <1>5. /\ Revoked(call[d].token) => Revoked(call[d].token)'
        /\ GenerationRevoked(call[d].token) => GenerationRevoked(call[d].token)'
    BY <1>2, <1>4 DEF Revoked, GenerationRevoked, EngineMoves, CapabilityToken
  <1>6. CallerOK(d)'
    BY <1>1, <1>2, <1>5 DEF CallerOK, EngineMoves, Registered, WithinPack
  <1> QED BY <1>3, <1>6

\* The parts of the invariant that a step without registration has to show.
LEMMA StepInv ==
  ASSUME KernelInv, NEW c \in Callers, Alone(c),
         PolicyStep(c) \/ UNCHANGED policyVars,
         packs' = packs, namespaces' = namespaces,
         tokens' = tokens \/ \E t : /\ tokens' = tokens \cup {t}
                                    /\ Registered(t.pack)
                                    /\ t.caps = packs[t.pack].grants,
         KernelTypeOK', CallOK(c)', CallerOK(c)'
  PROVE  KernelInv'
  <1>1. PolicyTypeOK' /\ EngineMoves(c)
    BY EngineFrame DEF KernelInv
  <1>2. \A d \in Callers : CallOK(d)' /\ CallerOK(d)'
    BY <1>1, OthersOK
  <1>3. TokensOfPacks' /\ GrantsAgree'
    BY DEF KernelInv, TokensOfPacks, GrantsAgree, Registered
  <1> QED BY <1>1, <1>2, <1>3 DEF KernelInv

\* A call that returns leaves its caller idle, with nothing to rely on.
LEMMA ReturnFacts ==
  ASSUME KernelInv, NEW c \in Callers, NEW res \in Results, Return(c, res),
         call[c].n \in CallIds,
         call[c].kind = "issue" /\ res = "ok" => call[c].token \in tokens
  PROVE  /\ at' \in [Callers -> KernelStep] /\ call' \in [Callers -> Call]
         /\ made' \in [CallIds -> Made] /\ task' \in [Tasks -> TaskStates]
         /\ held' \subseteq tokens
         /\ Alone(c) /\ CallOK(c)' /\ CallerOK(c)'
  <1> USE DEF KernelInv, KernelTypeOK
  <1>1. call[c] \in Call /\ made[call[c].n] \in Made
    OBVIOUS
  <1>2. [made[call[c].n] EXCEPT !.res = res] \in Made
    BY <1>1 DEF Made
  <1>3. made' = [made EXCEPT ![call[c].n] = [made[call[c].n] EXCEPT !.res = res]]
    BY DEF Return
  <1>4. made' \in [CallIds -> Made]
    BY <1>2, <1>3
  <1>5. task' \in [Tasks -> TaskStates]
    BY <1>1 DEF Return, TaskAfter, TaskStates
  <1>6. /\ at' \in [Callers -> KernelStep] /\ call' \in [Callers -> Call]
        /\ at'[c] = "idle" /\ Alone(c)
    BY NoCallType DEF Return, KernelStep, Alone
  <1>7. CallOK(c)' /\ CallerOK(c)'
    BY <1>6 DEF CallOK, CallerOK, Governed
  <1>8. held' \subseteq tokens
    BY DEF Return
  <1> QED BY <1>4, <1>5, <1>6, <1>7, <1>8

\* A call that begins has a number, and its caller was idle.
LEMMA BeginFacts ==
  ASSUME KernelInv, NEW c \in Callers, NEW step \in KernelStep, NEW k \in Call,
         Begin(c, step, k)
  PROVE  /\ calls' \in 0..MaxCalls /\ at' \in [Callers -> KernelStep]
         /\ call' \in [Callers -> Call] /\ made' \in [CallIds -> Made]
         /\ Alone(c) /\ at'[c] = step
         /\ call'[c] = [k EXCEPT !.n = calls + 1] /\ call'[c].n \in CallIds
  <1> USE DEF KernelInv, KernelTypeOK
  <1>1. calls + 1 \in CallIds /\ calls' \in 0..MaxCalls /\ calls + 1 \in 0..MaxCalls
    BY MaxCallsAssumption DEF Begin, CallIds
  <1>2. [k EXCEPT !.n = calls + 1] \in Call
    BY <1>1 DEF Call
  <1>3. [kind |-> k.kind, task |-> k.task, res |-> "open"] \in Made
    BY DEF Call, Made, Results
  <1>4. /\ call' = [call EXCEPT ![c] = [k EXCEPT !.n = calls + 1]]
        /\ at' = [at EXCEPT ![c] = step]
        /\ made' = [made EXCEPT ![calls + 1] =
                       [kind |-> k.kind, task |-> k.task, res |-> "open"]]
    BY DEF Begin
  <1>5. call'[c].n = calls + 1
    BY <1>4 DEF Call
  <1> QED BY <1>1, <1>2, <1>3, <1>4, <1>5 DEF Alone

-----------------------------------------------------------------------------
(* Registration, time, tokens                                              *)

LEMMA RegisterPackInv ==
  ASSUME KernelInv, NEW p \in Packs, NEW m \in Manifests, RegisterPack(p, m)
  PROVE  KernelInv' /\ UNCHANGED policyVars
  <1> USE DEF RegisterPack
  <1>1. m # NoManifest /\ m.grants \subseteq Capabilities
    BY ManifestFacts
  <1>2. PolicyTypeOK' /\ UNCHANGED policyVars
    BY DEF KernelInv, PolicyTypeOK, policyVars
  <1>3. KernelTypeOK'
    BY <1>1 DEF KernelInv, KernelTypeOK, policyVars
  <1>4. \A c \in Callers : at'[c] = "idle"
    OBVIOUS
  <1>5. \A c \in Callers : CallOK(c)' /\ CallerOK(c)'
    BY <1>4 DEF CallOK, CallerOK, Governed
  <1>6. \A t \in tokens : t.pack # p
    BY DEF KernelInv, TokensOfPacks
  <1>7. TokensOfPacks' /\ GrantsAgree'
    BY <1>6 DEF KernelInv, KernelTypeOK, TokensOfPacks, GrantsAgree, Registered, policyVars,
                PolicyTypeOK, CapabilityToken
  <1> QED BY <1>2, <1>3, <1>5, <1>7 DEF KernelInv

LEMMA TickInv == ASSUME KernelInv, Tick PROVE KernelInv' /\ UNCHANGED policyVars
  <1>1. /\ UNCHANGED policyVars /\ clock' \in Time
        /\ UNCHANGED <<packs, namespaces, at, call, calls, made, held, effects,
                       eventSeq, log, task>>
    BY MaxTimeAssumption DEF Tick, KernelInv, KernelTypeOK, Time
  <1>2. PolicyTypeOK' /\ KernelTypeOK' /\ TokensOfPacks' /\ GrantsAgree'
    BY <1>1 DEF KernelInv, KernelTypeOK, PolicyTypeOK, policyVars, TokensOfPacks, GrantsAgree,
                Registered
  <1>3. \A c \in Callers : CallOK(c)' /\ CallerOK(c)'
    BY <1>1 DEF KernelInv, CallOK, CallerOK, policyVars, Registered, WithinPack, Revoked,
                GenerationRevoked
  <1> QED BY <1>1, <1>2, <1>3 DEF KernelInv

LEMMA BeginIssueInv ==
  ASSUME KernelInv, NEW c \in Callers, NEW p \in Packs, NEW ttl \in Time, BeginIssue(c, p, ttl)
  PROVE  KernelInv'
  <1> DEFINE k == [NoCall EXCEPT !.kind = "issue", !.pack = p, !.ttl = ttl, !.now = clock]
  <1>1. k \in Call /\ k.kind = "issue" /\ k.pack = p
    BY NoCallType DEF Call, Kinds, KernelInv, KernelTypeOK
  <1>2. /\ Begin(c, "issue", k) /\ Registered(p)
        /\ UNCHANGED <<policyVars, clock, packs, namespaces, held, effects, eventSeq, log, task>>
    BY DEF BeginIssue
  <1> HIDE DEF k
  <1>3. /\ calls' \in 0..MaxCalls /\ at' \in [Callers -> KernelStep]
        /\ call' \in [Callers -> Call] /\ made' \in [CallIds -> Made]
        /\ Alone(c) /\ at'[c] = "issue"
        /\ call'[c] = [k EXCEPT !.n = calls + 1] /\ call'[c].n \in CallIds
    BY <1>1, <1>2, BeginFacts DEF KernelStep
  <1>4. KernelTypeOK'
    BY <1>2, <1>3 DEF KernelInv, KernelTypeOK, policyVars
  <1>5. call'[c].kind = "issue" /\ call'[c].pack = p
    BY <1>1, <1>3 DEF Call
  <1>6. CallOK(c)' /\ CallerOK(c)'
    BY <1>2, <1>3, <1>5 DEF CallOK, CallerOK, Registered, Governed
  <1> QED BY <1>2, <1>3, <1>4, <1>6, StepInv DEF policyVars

LEMMA TakeGenerationInv ==
  ASSUME KernelInv, NEW c \in Callers, TakeGeneration(c) PROVE KernelInv' /\ PolicyStep(c)
  <1> DEFINE k == call[c]
             g == packs[k.pack].grants
  <1>1. /\ at[c] = "issue" /\ IssueGeneration(c, k.pack, g, k.now, k.ttl)
        /\ at' = [at EXCEPT ![c] = "issuing"]
        /\ UNCHANGED <<clock, packs, namespaces, call, calls, made, held, effects,
                       eventSeq, log, task>>
    BY DEF TakeGeneration
  <1>2. k \in Call /\ CallOK(c) /\ CallerOK(c)
    BY DEF KernelInv, KernelTypeOK
  <1>3. k.pack \in Packs /\ k.now \in Time /\ k.ttl \in Time
    BY <1>2 DEF Call
  <1>4. Registered(k.pack)
    BY <1>1, <1>2 DEF CallerOK
  <1>5. packs[k.pack] \in Manifests
    BY <1>3, <1>4 DEF KernelInv, KernelTypeOK, Registered
  <1>6. g \in SUBSET Capabilities
    BY <1>5, ManifestFacts
  <1> HIDE DEF k, g
  <1>7. PolicyStep(c)
    BY <1>1, <1>3, <1>6 DEF PolicyStep
  <1>8. tok'[c].caps = g /\ tok'[c].pack = k.pack /\ tokens' = tokens
    BY <1>1 DEF IssueGeneration, KernelInv, PolicyTypeOK
  <1>9. KernelTypeOK'
    BY <1>1, <1>8 DEF KernelInv, KernelTypeOK, KernelStep
  <1>10. Alone(c) /\ at'[c] = "issuing"
    BY <1>1 DEF Alone, KernelInv, KernelTypeOK
  <1>11. CallOK(c)' /\ CallerOK(c)'
    BY <1>1, <1>2, <1>4, <1>8, <1>10 DEF CallOK, CallerOK, Registered, Governed, k, g
  <1> QED BY <1>1, <1>7, <1>8, <1>9, <1>10, <1>11, StepInv

LEMMA TakeIdInv ==
  ASSUME KernelInv, NEW c \in Callers, TakeId(c) PROVE KernelInv' /\ PolicyStep(c)
  <1> DEFINE t == NextToken(c)
             o == Owing(c, "TokenIssued")
             k == [o EXCEPT !.token = t]
  <1>1. /\ at[c] = "issuing" /\ IssueId(c)
        /\ at' = [at EXCEPT ![c] = "event"]
        /\ call' = [call EXCEPT ![c] = k]
        /\ UNCHANGED <<clock, packs, namespaces, calls, made, held, effects,
                       eventSeq, log, task>>
    BY DEF TakeId
  <1>2. CallOK(c) /\ CallerOK(c)
    BY DEF KernelInv
  <1>3. t \in CapabilityToken /\ t.caps = tok[c].caps /\ t.pack = tok[c].pack
    BY DEF NextToken, KernelInv, PolicyTypeOK, CapabilityToken
  <1>4. o \in Call /\ o.n = call[c].n /\ o.kind = call[c].kind
    BY OwingType DEF KernelInv, EventKinds
  <1> HIDE DEF t, o
  <1>5. k \in Call /\ k.token = t /\ k.n = call[c].n /\ k.kind = call[c].kind
    BY <1>3, <1>4 DEF Call
  <1> HIDE DEF k
  <1>6. tokens' = tokens \cup {t} /\ PolicyStep(c)
    BY <1>1 DEF IssueId, PolicyStep, t
  <1>7. KernelTypeOK'
    BY <1>1, <1>5, <1>6 DEF KernelInv, KernelTypeOK, KernelStep
  <1>8. Alone(c) /\ at'[c] = "event" /\ call'[c] = k
    BY <1>1 DEF Alone, KernelInv, KernelTypeOK
  <1>9. CallOK(c)' /\ CallerOK(c)'
    BY <1>1, <1>2, <1>5, <1>6, <1>8 DEF CallOK, CallerOK, Governed
  <1>10. Registered(t.pack) /\ t.caps = packs[t.pack].grants
    BY <1>1, <1>2, <1>3 DEF CallerOK
  <1> QED BY <1>1, <1>6, <1>7, <1>8, <1>9, <1>10, StepInv

\* A call that begins by recording its event.
LEMMA BeginEventFacts ==
  ASSUME KernelInv, NEW c \in Callers, NEW kind \in {"revoke", "note"}, NEW e \in EventKinds,
         Begin(c, "event", [NoCall EXCEPT !.kind = kind, !.now = clock, !.event = e])
  PROVE  /\ calls' \in 0..MaxCalls /\ at' \in [Callers -> KernelStep]
         /\ call' \in [Callers -> Call] /\ made' \in [CallIds -> Made]
         /\ Alone(c) /\ CallOK(c)' /\ CallerOK(c)'
  <1> DEFINE k == [NoCall EXCEPT !.kind = kind, !.now = clock, !.event = e]
  <1>1. k \in Call /\ k.kind = kind
    BY NoCallType DEF Call, Kinds, KernelInv, KernelTypeOK
  <1> HIDE DEF k
  <1>2. /\ calls' \in 0..MaxCalls /\ at' \in [Callers -> KernelStep]
        /\ call' \in [Callers -> Call] /\ made' \in [CallIds -> Made]
        /\ Alone(c) /\ at'[c] = "event"
        /\ call'[c] = [k EXCEPT !.n = calls + 1] /\ call'[c].n \in CallIds
    BY <1>1, BeginFacts DEF KernelStep, k
  <1>3. call'[c].kind = kind
    BY <1>1, <1>2 DEF Call
  <1>4. CallOK(c)' /\ CallerOK(c)'
    BY <1>2, <1>3 DEF CallOK, CallerOK, Governed
  <1> QED BY <1>2, <1>4

LEMMA BeginRevokeInv ==
  ASSUME KernelInv, NEW c \in Callers, NEW id \in 1..MaxGeneration, BeginRevoke(c, id)
  PROVE  KernelInv' /\ PolicyStep(c)
  <1>1. PolicyStep(c) /\ tokens' = tokens
    BY DEF BeginRevoke, PolicyStep, RevokeToken
  <1>2. /\ calls' \in 0..MaxCalls /\ at' \in [Callers -> KernelStep]
        /\ call' \in [Callers -> Call] /\ made' \in [CallIds -> Made]
        /\ Alone(c) /\ CallOK(c)' /\ CallerOK(c)'
    BY BeginEventFacts DEF BeginRevoke, EventKinds
  <1>3. UNCHANGED <<clock, packs, namespaces, held, effects, eventSeq, log, task>>
    BY DEF BeginRevoke
  <1>4. KernelTypeOK'
    BY <1>1, <1>2, <1>3 DEF KernelInv, KernelTypeOK
  <1> QED BY <1>1, <1>2, <1>3, <1>4, StepInv

LEMMA BeginNoteInv ==
  ASSUME KernelInv, NEW c \in Callers, BeginNote(c) PROVE KernelInv' /\ UNCHANGED policyVars
  <1>1. UNCHANGED <<policyVars, clock, packs, namespaces, held, effects, eventSeq, log, task>>
    BY DEF BeginNote
  <1>2. /\ calls' \in 0..MaxCalls /\ at' \in [Callers -> KernelStep]
        /\ call' \in [Callers -> Call] /\ made' \in [CallIds -> Made]
        /\ Alone(c) /\ CallOK(c)' /\ CallerOK(c)'
    BY BeginEventFacts DEF BeginNote, EventKinds
  <1>3. KernelTypeOK'
    BY <1>1, <1>2 DEF KernelInv, KernelTypeOK, policyVars
  <1> QED BY <1>1, <1>2, <1>3, StepInv DEF policyVars

LEMMA RevokeGenerationInv ==
  ASSUME KernelInv, NEW c \in Callers,
         \/ \E b \in 1..MaxGeneration : BeginRevokeGeneration(c, b)
         \/ EndRevokeGeneration(c)
  PROVE  KernelInv' /\ PolicyStep(c)
  <1>1. /\ at' \in [Callers -> KernelStep] /\ at'[c] \in {"idle", "forward"} /\ Alone(c)
        /\ tokens' = tokens
        /\ UNCHANGED <<clock, packs, namespaces, call, calls, made, held, effects,
                       eventSeq, log, task>>
    BY DEF BeginRevokeGeneration, EndRevokeGeneration, RevokeGeneration, RaiseGeneration,
           KernelInv, KernelTypeOK, KernelStep, Alone
  <1>2. PolicyStep(c)
    BY MaxGenerationAssumption DEF BeginRevokeGeneration, EndRevokeGeneration, PolicyStep
  <1>3. KernelTypeOK'
    BY <1>1 DEF KernelInv, KernelTypeOK
  <1>4. CallOK(c)' /\ CallerOK(c)'
    BY <1>1 DEF CallOK, CallerOK, Governed
  <1> QED BY <1>1, <1>2, <1>3, <1>4, StepInv

-----------------------------------------------------------------------------
(* Governed execution                                                      *)

LEMMA BeginExecuteInv ==
  ASSUME KernelInv, NEW c \in Callers, NEW kind \in ExecuteKinds, NEW t \in Tasks \cup {NoTask},
         NEW token \in held, NEW p \in Packs, NEW need \in SUBSET Capabilities,
         NEW connector \in Connectors, BeginExecute(c, kind, t, token, p, need, connector)
  PROVE  KernelInv' /\ UNCHANGED policyVars
  <1> DEFINE k == [NoCall EXCEPT !.kind = kind, !.task = t, !.token = token,
                                 !.pack = p, !.need = need, !.connector = connector,
                                 !.now = clock, !.revoked = Revoked(token)]
  <1>1. token \in tokens /\ token \in CapabilityToken /\ Revoked(token) \in BOOLEAN
    BY DEF KernelInv, KernelTypeOK, PolicyTypeOK, Revoked, GenerationRevoked
  <1>2. /\ k \in Call /\ k.kind = kind /\ k.token = token /\ k.pack = p /\ k.need = need
        /\ k.connector = connector /\ k.revoked = Revoked(token)
    BY <1>1, NoCallType DEF Call, Kinds, KernelInv, KernelTypeOK
  <1>3. /\ Begin(c, "authorize", k) /\ WithinPack(kind, p, need, connector)
        /\ UNCHANGED <<policyVars, clock, packs, namespaces, held, effects, eventSeq, log>>
        /\ task' = IF t = NoTask THEN task ELSE [task EXCEPT ![t] = "InReply"]
    BY DEF BeginExecute
  <1> HIDE DEF k
  <1>4. /\ calls' \in 0..MaxCalls /\ at' \in [Callers -> KernelStep]
        /\ call' \in [Callers -> Call] /\ made' \in [CallIds -> Made]
        /\ Alone(c) /\ at'[c] = "authorize"
        /\ call'[c] = [k EXCEPT !.n = calls + 1] /\ call'[c].n \in CallIds
    BY <1>2, <1>3, BeginFacts DEF KernelStep
  <1>5. KernelTypeOK'
    BY <1>3, <1>4 DEF KernelInv, KernelTypeOK, policyVars, TaskStates
  <1>6. /\ call'[c].kind = kind /\ call'[c].token = token /\ call'[c].pack = p
        /\ call'[c].need = need /\ call'[c].connector = connector
        /\ call'[c].revoked = Revoked(token)
    BY <1>2, <1>4 DEF Call
  <1>7. CallOK(c)'
    BY <1>4, <1>6 DEF CallOK
  <1>8. CallerOK(c)'
    BY <1>1, <1>3, <1>4, <1>6
       DEF CallerOK, Governed, WithinPack, Registered, Revoked, GenerationRevoked, policyVars
  <1> QED BY <1>3, <1>4, <1>5, <1>7, <1>8, StepInv DEF policyVars

LEMMA RejectExecuteInv ==
  ASSUME KernelInv, NEW c \in Callers, NEW kind \in ExecuteKinds, NEW t \in Tasks \cup {NoTask},
         NEW token \in held, NEW p \in Packs, NEW need \in SUBSET Capabilities,
         NEW connector \in Connectors, RejectExecute(c, kind, t, token, p, need, connector)
  PROVE  KernelInv' /\ UNCHANGED policyVars
  <1>1. calls + 1 \in CallIds /\ calls' \in 0..MaxCalls
    BY MaxCallsAssumption DEF RejectExecute, KernelInv, KernelTypeOK, CallIds
  <1>2. [kind |-> kind, task |-> t, res |-> "rejected"] \in Made
    BY DEF Made, Kinds, Results
  <1>3. made' \in [CallIds -> Made] /\ task' \in [Tasks -> TaskStates]
    BY <1>1, <1>2 DEF RejectExecute, KernelInv, KernelTypeOK, TaskStates
  <1>4. UNCHANGED <<policyVars, clock, packs, namespaces, at, call, held, effects, eventSeq, log>>
    BY DEF RejectExecute
  <1>5. KernelTypeOK' /\ Alone(c)
    BY <1>1, <1>3, <1>4 DEF KernelInv, KernelTypeOK, policyVars, Alone
  <1>6. CallOK(c)' /\ CallerOK(c)'
    BY <1>4 DEF RejectExecute, CallOK, CallerOK, Governed
  <1> QED BY <1>4, <1>5, <1>6, StepInv DEF policyVars

\* The caller goes on to record event e.
LEMMA OweFacts ==
  ASSUME KernelInv, NEW c \in Callers, NEW e \in EventKinds,
         call[c].n \in CallIds, call[c].kind # "issue",
         at' = [at EXCEPT ![c] = "event"], call' = [call EXCEPT ![c] = Owing(c, e)]
  PROVE  /\ at' \in [Callers -> KernelStep] /\ call' \in [Callers -> Call]
         /\ Alone(c) /\ CallOK(c)' /\ CallerOK(c)'
  <1>1. /\ Owing(c, e) \in Call /\ Owing(c, e).n = call[c].n
        /\ Owing(c, e).kind = call[c].kind
    BY OwingType DEF KernelInv
  <1>2. /\ at' \in [Callers -> KernelStep] /\ call' \in [Callers -> Call]
        /\ Alone(c) /\ at'[c] = "event" /\ call'[c] = Owing(c, e)
    BY <1>1 DEF KernelInv, KernelTypeOK, KernelStep, Alone
  <1>3. CallOK(c)' /\ CallerOK(c)'
    BY <1>1, <1>2 DEF CallOK, CallerOK, Governed
  <1> QED BY <1>2, <1>3

LEMMA LookupInv ==
  ASSUME KernelInv, NEW c \in Callers, Lookup(c) PROVE KernelInv' /\ PolicyStep(c)
  <1> DEFINE k == call[c]
  <1>1. at[c] = "authorize" /\ AuthorizeLookup(c, k.token, k.pack, k.now, k.need)
    BY DEF Lookup
  <1>2. UNCHANGED <<clock, packs, namespaces, calls, made, held, effects, eventSeq, log, task>>
    BY DEF Lookup
  <1>3. CallOK(c) /\ CallerOK(c) /\ k \in Call
    BY DEF KernelInv, KernelTypeOK
  <1>4. /\ k.n \in CallIds /\ k.kind \in ExecuteKinds /\ k.token \in tokens
        /\ WithinPack(k.kind, k.pack, k.need, k.connector)
        /\ k.revoked => Revoked(k.token)
    BY <1>1, <1>3 DEF CallOK, CallerOK, Governed
  <1>5. PolicyStep(c) /\ tokens' = tokens
    <2>1. k.pack \in Packs /\ k.now \in Time /\ k.need \in SUBSET Capabilities
      BY <1>3 DEF Call
    <2>2. tokens' = tokens
      BY <1>1 DEF AuthorizeLookup
    <2> HIDE DEF k
    <2>3. \E x \in tokens, p \in Packs, now \in Time, need \in SUBSET Capabilities :
             AuthorizeLookup(c, x, p, now, need)
      BY <1>1, <1>4, <2>1
    <2> QED BY <2>2, <2>3 DEF PolicyStep
  <1>6. CASE pc'[c] = "check"
    <2>1. at' = [at EXCEPT ![c] = "authorizing"] /\ call' = call
      BY <1>6 DEF Lookup
    <2>2. k.token.id \notin revokedTokens
      BY <1>1, <1>6 DEF AuthorizeLookup, KernelInv, PolicyTypeOK
    <2>3. /\ tok'[c] = k.token
          /\ request'[c] = [pack |-> k.pack, now |-> k.now, need |-> k.need]
          /\ revokedBelow' = revokedBelow
      BY <1>1, <2>2 DEF AuthorizeLookup, KernelInv, PolicyTypeOK
    <2>4. KernelTypeOK' /\ Alone(c) /\ at'[c] = "authorizing"
      BY <1>2, <1>5, <2>1 DEF KernelInv, KernelTypeOK, KernelStep, Alone
    <2>5. CallOK(c)'
      BY <1>4, <2>1, <2>3, <2>4 DEF CallOK
    <2>6. k.revoked => GenerationRevoked(k.token)
      BY <1>4, <2>2 DEF Revoked
    <2>7. CallerOK(c)'
      BY <1>2, <1>4, <1>5, <2>1, <2>3, <2>4, <2>6
         DEF CallerOK, WithinPack, Registered, GenerationRevoked
    <2> QED BY <1>2, <1>5, <2>4, <2>5, <2>7, StepInv
  <1>7. CASE pc'[c] # "check"
    <2>1. /\ at' = [at EXCEPT ![c] = "event"]
          /\ call' = [call EXCEPT ![c] = Owing(c, "AuthorizationDenied")]
      BY <1>7 DEF Lookup, Owe
    <2>2. /\ at' \in [Callers -> KernelStep] /\ call' \in [Callers -> Call]
          /\ Alone(c) /\ CallOK(c)' /\ CallerOK(c)'
      BY <1>4, <2>1, OweFacts DEF EventKinds, ExecuteKinds
    <2>3. KernelTypeOK'
      BY <1>2, <1>5, <2>2 DEF KernelInv, KernelTypeOK
    <2> QED BY <1>2, <1>5, <2>2, <2>3, StepInv
  <1> QED BY <1>5, <1>6, <1>7

\* authorize allows a token only if it is not dead by generation, belongs to
\* the pack, has not expired and covers what is needed.
LEMMA AllowedMeans ==
  ASSUME NEW t \in CapabilityToken, NEW r \in Request, Decision(t, r) = "allowed"
  PROVE  /\ ~GenerationRevoked(t) /\ t.pack = r.pack
         /\ r.now <= t.expires /\ r.need \subseteq t.caps
  <1> r.now \in Nat /\ t.expires \in Nat
    BY MaxTimeAssumption DEF Request, CapabilityToken, Time
  <1>1. CASE GenerationRevoked(t)
    BY <1>1 DEF Decision
  <1>2. CASE ~GenerationRevoked(t) /\ t.pack # r.pack
    BY <1>2 DEF Decision
  <1>3. CASE ~GenerationRevoked(t) /\ t.pack = r.pack /\ r.now > t.expires
    BY <1>3 DEF Decision
  <1>4. CASE ~GenerationRevoked(t) /\ t.pack = r.pack /\ r.now <= t.expires
    BY <1>4 DEF Decision
  <1> QED BY <1>1, <1>2, <1>3, <1>4

LEMMA CheckTokenInv ==
  ASSUME KernelInv, NEW c \in Callers, CheckToken(c) PROVE KernelInv' /\ PolicyStep(c)
  <1> DEFINE k == call[c]
  <1>1. at[c] = "authorizing" /\ AuthorizeCheck(c)
    BY DEF CheckToken
  <1>2. UNCHANGED <<clock, packs, namespaces, calls, made, held, effects, eventSeq, log, task>>
    BY DEF CheckToken
  <1>3. CallOK(c) /\ CallerOK(c) /\ k \in Call
    BY DEF KernelInv, KernelTypeOK
  <1>4. /\ k.n \in CallIds /\ k.kind \in ExecuteKinds /\ k.token \in tokens
        /\ WithinPack(k.kind, k.pack, k.need, k.connector)
        /\ k.revoked => GenerationRevoked(k.token)
        /\ tok[c] = k.token
        /\ request[c] = [pack |-> k.pack, now |-> k.now, need |-> k.need]
    BY <1>1, <1>3 DEF CallOK, CallerOK, Governed
  <1>5. PolicyStep(c) /\ tokens' = tokens
    BY <1>1 DEF PolicyStep, AuthorizeCheck
  <1>6. verdict'[c] = Decision(tok[c], request[c])
    BY <1>1 DEF AuthorizeCheck, KernelInv, PolicyTypeOK
  <1>7. CASE verdict'[c] = "allowed"
    <2>1. at' = [at EXCEPT ![c] = "extend"] /\ call' = call
      BY <1>7 DEF CheckToken, AfterVerdict
    <2>2. /\ ~GenerationRevoked(tok[c]) /\ tok[c].pack = request[c].pack
          /\ request[c].now <= tok[c].expires /\ request[c].need \subseteq tok[c].caps
      <3>1. tok[c] \in CapabilityToken /\ request[c] \in Request
        BY DEF KernelInv, PolicyTypeOK
      <3> QED BY <1>6, <1>7, <3>1, AllowedMeans
    <2>3. /\ ~k.revoked /\ k.token.pack = k.pack /\ k.now <= k.token.expires
          /\ k.need \subseteq k.token.caps
      BY <1>4, <2>2
    <2>4. KernelTypeOK' /\ Alone(c) /\ at'[c] = "extend"
      BY <1>2, <1>5, <2>1 DEF KernelInv, KernelTypeOK, KernelStep, Alone
    <2>5. CallOK(c)'
      BY <1>4, <2>1, <2>3, <2>4 DEF CallOK
    <2>6. CallerOK(c)'
      BY <1>2, <1>4, <1>5, <2>1, <2>4 DEF CallerOK, WithinPack, Registered
    <2> QED BY <1>2, <1>5, <2>4, <2>5, <2>6, StepInv
  <1>8. CASE verdict'[c] # "allowed"
    <2>1. /\ at' = [at EXCEPT ![c] = "event"]
          /\ call' = [call EXCEPT ![c] = Owing(c, "AuthorizationDenied")]
      BY <1>8 DEF CheckToken, AfterVerdict
    <2>2. /\ at' \in [Callers -> KernelStep] /\ call' \in [Callers -> Call]
          /\ Alone(c) /\ CallOK(c)' /\ CallerOK(c)'
      BY <1>4, <2>1, OweFacts DEF EventKinds, ExecuteKinds
    <2>3. KernelTypeOK'
      BY <1>2, <1>5, <2>2 DEF KernelInv, KernelTypeOK
    <2> QED BY <1>2, <1>5, <2>2, <2>3, StepInv
  <1> QED BY <1>5, <1>7, <1>8

LEMMA ExtendInv ==
  ASSUME KernelInv, NEW c \in Callers, NEW allow \in BOOLEAN, Extend(c, allow)
  PROVE  KernelInv' /\ UNCHANGED policyVars
  <1>1. /\ at[c] = "extend"
        /\ UNCHANGED <<policyVars, clock, packs, namespaces, calls, made, held, effects,
                       eventSeq, log, task>>
    BY DEF Extend
  <1>2. CallOK(c) /\ CallerOK(c)
    BY DEF KernelInv
  <1>3. tokens' = tokens
    BY <1>1 DEF policyVars
  <1>4. CASE allow
    <2>1. at' = [at EXCEPT ![c] = "running"] /\ call' = call
      BY <1>4 DEF Extend
    <2>2. KernelTypeOK' /\ Alone(c) /\ at'[c] = "running"
      BY <1>1, <1>3, <2>1 DEF KernelInv, KernelTypeOK, KernelStep, Alone
    <2>3. CallOK(c)'
      BY <1>1, <1>2, <2>1, <2>2 DEF CallOK, Governed
    <2>4. CallerOK(c)'
      BY <1>1, <1>2, <1>3, <2>1, <2>2 DEF CallerOK, WithinPack, Registered, Governed
    <2> QED BY <1>1, <1>3, <2>2, <2>3, <2>4, StepInv
  <1>5. CASE ~allow
    <2>1. /\ at' = [at EXCEPT ![c] = "event"]
          /\ call' = [call EXCEPT ![c] = Owing(c, "AuthorizationDenied")]
      BY <1>5 DEF Extend, Owe
    <2>2. call[c].n \in CallIds /\ call[c].kind # "issue"
      BY <1>1, <1>2 DEF CallOK, Governed, ExecuteKinds
    <2>3. /\ at' \in [Callers -> KernelStep] /\ call' \in [Callers -> Call]
          /\ Alone(c) /\ CallOK(c)' /\ CallerOK(c)'
      BY <2>1, <2>2, OweFacts DEF EventKinds
    <2>4. KernelTypeOK'
      BY <1>1, <1>3, <2>3 DEF KernelInv, KernelTypeOK
    <2> QED BY <1>1, <1>3, <2>3, <2>4, StepInv
  <1> QED BY <1>1, <1>4, <1>5

LEMMA AdapterInv ==
  ASSUME KernelInv, NEW c \in Callers,
         AdapterOk(c) \/ \E acted \in BOOLEAN : AdapterErr(c, acted) \/ Drop(c, acted)
  PROVE  KernelInv' /\ UNCHANGED policyVars
  <1>1. at[c] = "running" /\ UNCHANGED <<policyVars, clock, packs, namespaces, calls, eventSeq, log>>
    BY DEF AdapterOk, AdapterErr, Drop
  <1>2. call[c].n \in CallIds /\ call[c].kind \in ExecuteKinds
    <2>1. CallOK(c)
      BY DEF KernelInv
    <2> QED BY <1>1, <2>1 DEF CallOK, Governed
  <1>3. tokens' = tokens
    BY <1>1 DEF policyVars
  <1>4. effects' \subseteq CallIds
    BY <1>2 DEF AdapterOk, AdapterErr, Drop, KernelInv, KernelTypeOK
  <1>5. /\ at' \in [Callers -> KernelStep] /\ call' \in [Callers -> Call]
        /\ made' \in [CallIds -> Made] /\ task' \in [Tasks -> TaskStates]
        /\ held' \subseteq tokens
        /\ Alone(c) /\ CallOK(c)' /\ CallerOK(c)'
    <2>1. CASE AdapterOk(c)
      <3>1. DispatchEvent(call[c].kind) \in EventKinds
        BY <1>2 DEF DispatchEvent, ExecuteKinds, EventKinds
      <3>2. /\ at' = [at EXCEPT ![c] = "event"]
            /\ call' = [call EXCEPT ![c] = Owing(c, DispatchEvent(call[c].kind))]
            /\ UNCHANGED <<made, held, task>>
        BY <2>1 DEF AdapterOk, Owe
      <3>3. call[c].kind # "issue"
        BY <1>2 DEF ExecuteKinds
      <3> QED BY <1>2, <3>1, <3>2, <3>3, OweFacts DEF KernelInv, KernelTypeOK
    <2>2. CASE \E acted \in BOOLEAN : AdapterErr(c, acted)
      <3>1. Return(c, "adapter_error")
        BY <2>2 DEF AdapterErr
      <3> QED BY <1>2, <3>1, ReturnFacts DEF Results
    <2>3. CASE \E acted \in BOOLEAN : Drop(c, acted)
      <3>1. /\ at' = [at EXCEPT ![c] = "idle"]
            /\ made' = [made EXCEPT ![call[c].n].res = "dropped"]
            /\ call' = [call EXCEPT ![c] = NoCall]
            /\ UNCHANGED <<held, task>>
        BY <2>3 DEF Drop
      <3>2. [made[call[c].n] EXCEPT !.res = "dropped"] \in Made
        BY <1>2 DEF KernelInv, KernelTypeOK, Made, Results
      <3>3. /\ at' \in [Callers -> KernelStep] /\ call' \in [Callers -> Call]
            /\ made' \in [CallIds -> Made] /\ task' \in [Tasks -> TaskStates]
            /\ held' \subseteq tokens /\ Alone(c) /\ at'[c] = "idle"
        BY <1>2, <3>1, <3>2, NoCallType DEF KernelInv, KernelTypeOK, KernelStep, Alone
      <3> QED BY <3>3 DEF CallOK, CallerOK, Governed
    <2> QED BY <2>1, <2>2, <2>3
  <1>6. KernelTypeOK'
    BY <1>1, <1>3, <1>4, <1>5 DEF KernelInv, KernelTypeOK
  <1> QED BY <1>1, <1>3, <1>5, <1>6, StepInv

-----------------------------------------------------------------------------
(* Audit                                                                   *)

LEMMA NewEventInv ==
  ASSUME KernelInv, NEW c \in Callers, NewEvent(c) PROVE KernelInv' /\ UNCHANGED policyVars
  <1> DEFINE k == [call[c] EXCEPT !.eid = NextEventId, !.sink = 1]
  <1>1. /\ at[c] = "event" /\ at' = [at EXCEPT ![c] = "record"]
        /\ eventSeq' = eventSeq + 1
        /\ call' = [call EXCEPT ![c] = k]
        /\ UNCHANGED <<policyVars, clock, packs, namespaces, calls, made, held, effects, log, task>>
    BY DEF NewEvent, KernelInv, KernelTypeOK
  <1>2. call[c] \in Call /\ CallOK(c) /\ CallerOK(c)
    BY DEF KernelInv, KernelTypeOK
  <1>3. NextEventId \in Nat /\ eventSeq' \in Nat /\ 1 \in Sinks /\ 1 \in 0..NumSinks
    BY <1>1, NumSinksAssumption DEF NextEventId, KernelInv, KernelTypeOK, Sinks
  <1>4. /\ k \in Call /\ k.n = call[c].n /\ k.kind = call[c].kind /\ k.token = call[c].token
        /\ k.sink = 1
    BY <1>2, <1>3 DEF Call
  <1> HIDE DEF k
  <1>5. KernelTypeOK' /\ Alone(c) /\ at'[c] = "record" /\ call'[c] = k /\ tokens' = tokens
    BY <1>1, <1>3, <1>4 DEF KernelInv, KernelTypeOK, KernelStep, Alone, policyVars
  <1>6. CallOK(c)' /\ CallerOK(c)'
    BY <1>1, <1>2, <1>3, <1>4, <1>5 DEF CallOK, CallerOK, Governed
  <1> QED BY <1>1, <1>5, <1>6, StepInv

\* What a caller in a sink relies on, and what the sink holds afterwards.
LEMMA RecordFacts ==
  ASSUME KernelInv, NEW c \in Callers, at[c] = "record"
  PROVE  /\ call[c] \in Call /\ call[c].n \in CallIds /\ call[c].sink \in Sinks
         /\ call[c].kind = "issue" => call[c].token \in tokens
         /\ [log EXCEPT ![call[c].sink] = @ \cup {CurrentEvent(c)}] \in [Sinks -> SUBSET Event]
  <1>1. call[c] \in Call /\ CallOK(c) /\ CallerOK(c)
    BY DEF KernelInv, KernelTypeOK
  <1>2. /\ call[c].n \in CallIds /\ call[c].sink \in Sinks
        /\ call[c].kind = "issue" => call[c].token \in tokens
    BY <1>1 DEF CallOK, CallerOK
  <1>3. CurrentEvent(c) \in Event
    BY <1>1, <1>2 DEF CurrentEvent, Event, Call
  <1> QED BY <1>1, <1>2, <1>3 DEF KernelInv, KernelTypeOK

LEMMA RecordInv ==
  ASSUME KernelInv, NEW c \in Callers, Record(c) PROVE KernelInv' /\ UNCHANGED policyVars
  <1>1. /\ at[c] = "record" /\ AfterRecord(c)
        /\ log' = [log EXCEPT ![call[c].sink] = @ \cup {CurrentEvent(c)}]
        /\ UNCHANGED <<policyVars, clock, packs, namespaces, calls, effects, eventSeq>>
    BY DEF Record
  <1>2. /\ call[c] \in Call /\ call[c].n \in CallIds /\ call[c].sink \in Sinks
        /\ call[c].kind = "issue" => call[c].token \in tokens
        /\ log' \in [Sinks -> SUBSET Event]
    BY <1>1, RecordFacts
  <1>3. tokens' = tokens
    BY <1>1 DEF policyVars
  <1>4. /\ at' \in [Callers -> KernelStep] /\ call' \in [Callers -> Call]
        /\ made' \in [CallIds -> Made] /\ task' \in [Tasks -> TaskStates]
        /\ held' \subseteq tokens
        /\ Alone(c) /\ CallOK(c)' /\ CallerOK(c)'
    <2>1. CASE /\ call[c].sink < NumSinks
               /\ call' = [call EXCEPT ![c].sink = call[c].sink + 1]
               /\ UNCHANGED <<at, made, held, task>>
      <3> DEFINE k == [call[c] EXCEPT !.sink = call[c].sink + 1]
      <3>1. call' = [call EXCEPT ![c] = k]
        BY <2>1 DEF KernelInv, KernelTypeOK
      <3>2. call[c].sink + 1 \in Sinks /\ call[c].sink + 1 \in 0..NumSinks
        BY <1>2, <2>1, NumSinksAssumption DEF Sinks
      <3>3. /\ k \in Call /\ k.n = call[c].n /\ k.kind = call[c].kind
            /\ k.token = call[c].token /\ k.sink \in Sinks
        BY <1>2, <3>2 DEF Call
      <3> HIDE DEF k
      <3>4. /\ at' \in [Callers -> KernelStep] /\ call' \in [Callers -> Call] /\ Alone(c)
            /\ at'[c] = "record" /\ call'[c] = k
        BY <1>1, <2>1, <3>1, <3>3 DEF KernelInv, KernelTypeOK, Alone
      <3>5. CallOK(c)' /\ CallerOK(c)'
        BY <1>2, <1>3, <3>3, <3>4 DEF CallOK, CallerOK, Governed
      <3> QED BY <2>1, <3>4, <3>5 DEF KernelInv, KernelTypeOK
    <2>2. CASE /\ FollowingEvent(call[c].event) # "none"
               /\ call' = [call EXCEPT ![c].event = FollowingEvent(call[c].event)]
               /\ at' = [at EXCEPT ![c] = "event"]
               /\ UNCHANGED <<made, held, task>>
      <3> DEFINE k == [call[c] EXCEPT !.event = "PlaneInvoked"]
      <3>1. call' = [call EXCEPT ![c] = k]
        BY <2>2 DEF KernelInv, KernelTypeOK, FollowingEvent
      <3>2. /\ k \in Call /\ k.n = call[c].n /\ k.kind = call[c].kind
            /\ k.token = call[c].token
        BY <1>2 DEF Call, EventKinds
      <3> HIDE DEF k
      <3>3. /\ at' \in [Callers -> KernelStep] /\ call' \in [Callers -> Call] /\ Alone(c)
            /\ at'[c] = "event" /\ call'[c] = k
        BY <2>2, <3>1, <3>2 DEF KernelInv, KernelTypeOK, KernelStep, Alone
      <3>4. CallOK(c)' /\ CallerOK(c)'
        BY <1>2, <1>3, <3>2, <3>3 DEF CallOK, CallerOK, Governed
      <3> QED BY <2>2, <3>3, <3>4 DEF KernelInv, KernelTypeOK
    <2>3. CASE Return(c, ResultOf(call[c].event))
      <3>1. ResultOf(call[c].event) \in Results
        BY DEF ResultOf, Results
      <3> QED BY <1>2, <2>3, <3>1, ReturnFacts
    <2> QED BY <1>1, <2>1, <2>2, <2>3 DEF AfterRecord
  <1>5. KernelTypeOK'
    BY <1>1, <1>2, <1>3, <1>4 DEF KernelInv, KernelTypeOK
  <1> QED BY <1>1, <1>3, <1>4, <1>5, StepInv

LEMMA RecordFailsInv ==
  ASSUME KernelInv, NEW c \in Callers, NEW written \in BOOLEAN, RecordFails(c, written)
  PROVE  KernelInv' /\ UNCHANGED policyVars
  <1>1. /\ at[c] = "record" /\ Return(c, "audit_error")
        /\ UNCHANGED <<policyVars, clock, packs, namespaces, calls, effects, eventSeq>>
    BY DEF RecordFails
  <1>2. /\ call[c].n \in CallIds /\ log' \in [Sinks -> SUBSET Event]
    BY <1>1, RecordFacts DEF RecordFails, KernelInv, KernelTypeOK
  <1>3. tokens' = tokens
    BY <1>1 DEF policyVars
  <1>4. /\ at' \in [Callers -> KernelStep] /\ call' \in [Callers -> Call]
        /\ made' \in [CallIds -> Made] /\ task' \in [Tasks -> TaskStates]
        /\ held' \subseteq tokens
        /\ Alone(c) /\ CallOK(c)' /\ CallerOK(c)'
    BY <1>1, <1>2, ReturnFacts DEF Results
  <1>5. KernelTypeOK'
    BY <1>1, <1>2, <1>3, <1>4 DEF KernelInv, KernelTypeOK
  <1> QED BY <1>1, <1>3, <1>4, <1>5, StepInv

-----------------------------------------------------------------------------
(* The invariant                                                           *)

LEMMA KernelInvInit == Init => KernelInv
  <1> SUFFICES ASSUME Init PROVE KernelInv
    OBVIOUS
  <1>1. PolicyTypeOK /\ tokens = {}
    BY PolicyInvInit DEF Init, PolicyInv, PolicyInit
  <1>2. NotMade \in Made
    BY DEF NotMade, Made, Kinds, Results
  <1>3. 0 \in Time /\ 0 \in 0..MaxCalls /\ NoManifest.grants = {}
    BY MaxTimeAssumption, MaxCallsAssumption DEF Time, NoManifest
  <1>4. KernelTypeOK
    BY <1>1, <1>2, <1>3, NoCallType DEF Init, KernelTypeOK, KernelStep, TaskStates
  <1>5. \A c \in Callers : CallOK(c) /\ CallerOK(c)
    BY DEF Init, CallOK, CallerOK, Governed
  <1>6. TokensOfPacks /\ GrantsAgree
    BY <1>1, <1>3 DEF Init, TokensOfPacks, GrantsAgree
  <1> QED BY <1>1, <1>4, <1>5, <1>6 DEF KernelInv

\* Every step of the kernel keeps the invariant, and to the policy engine it
\* is a step of the engine or nothing at all.
LEMMA KernelInvStep ==
  ASSUME KernelInv, [Next]_vars
  PROVE  KernelInv' /\ [PolicyNext]_policyVars
  <1>1. CASE UNCHANGED vars
    <2>1. UNCHANGED <<policyVars, clock, packs, namespaces, at, call, calls, made, held,
                      effects, eventSeq, log, task>>
      BY <1>1 DEF vars, kernelVars
    <2>2. PolicyTypeOK' /\ KernelTypeOK' /\ TokensOfPacks' /\ GrantsAgree'
      BY <2>1 DEF KernelInv, KernelTypeOK, PolicyTypeOK, policyVars, TokensOfPacks,
                  GrantsAgree, Registered
    <2>3. \A c \in Callers : CallOK(c)' /\ CallerOK(c)'
      BY <2>1 DEF KernelInv, CallOK, CallerOK, policyVars, Registered, WithinPack, Revoked,
                  GenerationRevoked
    <2> QED BY <2>1, <2>2, <2>3 DEF KernelInv
  <1>2. CASE Tick
    BY <1>2, TickInv
  <1>3. ASSUME NEW p \in Packs, NEW m \in Manifests, RegisterPack(p, m)
        PROVE  KernelInv' /\ [PolicyNext]_policyVars
    BY <1>3, RegisterPackInv
  <1>4. ASSUME NEW c \in Callers, TokenStep(c)
        PROVE  KernelInv' /\ [PolicyNext]_policyVars
    <2>1. ASSUME NEW p \in Packs, NEW ttl \in Time, BeginIssue(c, p, ttl)
          PROVE  KernelInv' /\ UNCHANGED policyVars
      BY <2>1, BeginIssueInv DEF BeginIssue
    <2>2. KernelInv' /\ (PolicyStep(c) \/ UNCHANGED policyVars)
      BY <1>4, <2>1, TakeGenerationInv, TakeIdInv, BeginRevokeInv, RevokeGenerationInv
         DEF TokenStep
    <2> QED BY <2>2 DEF PolicyNext
  <1>5. ASSUME NEW c \in Callers, ExecuteStep(c)
        PROVE  KernelInv' /\ [PolicyNext]_policyVars
    <2>1. KernelInv' /\ (PolicyStep(c) \/ UNCHANGED policyVars)
      BY <1>5, BeginExecuteInv, RejectExecuteInv, LookupInv, CheckTokenInv, ExtendInv, AdapterInv
         DEF ExecuteStep
    <2> QED BY <2>1 DEF PolicyNext
  <1>6. ASSUME NEW c \in Callers, AuditStep(c)
        PROVE  KernelInv' /\ [PolicyNext]_policyVars
    BY <1>6, BeginNoteInv, NewEventInv, RecordInv, RecordFailsInv DEF AuditStep
  <1> QED BY <1>1, <1>2, <1>3, <1>4, <1>5, <1>6 DEF Next

LEMMA KernelInvariant == Spec => []KernelInv
  <1>1. KernelInv /\ [Next]_vars => KernelInv'
    BY KernelInvStep
  <1> QED BY KernelInvInit, <1>1, PTL DEF Spec

-----------------------------------------------------------------------------
(* Theorems                                                                *)

\* The kernel's state keeps its types: every event in a sink belongs to a
\* numbered call, every token that was handed out was built by the engine.
THEOREM KernelTypeCorrect == Spec => []KernelTypeOK
  BY KernelInvariant, PTL DEF KernelInv

\* No adapter runs for a call whose token was dead when the call began, is of
\* another pack, had expired, or does not cover the call; nor outside the
\* manifest as it is registered while the adapter runs.
THEOREM ExecutionFailsClosed == Spec => []FailClosed
  <1>1. KernelInv => FailClosed
    <2> SUFFICES ASSUME KernelInv, NEW c \in Callers, at[c] = "running"
                 PROVE  /\ ~call[c].revoked /\ call[c].token \in tokens
                        /\ call[c].token.pack = call[c].pack
                        /\ call[c].now <= call[c].token.expires
                        /\ call[c].need \subseteq call[c].token.caps
                                               \cap packs[call[c].pack].grants
                        /\ call[c].kind = "connector" =>
                              call[c].connector \in packs[call[c].pack].connectors
      BY DEF FailClosed
    <2>1. CallOK(c) /\ CallerOK(c)
      BY DEF KernelInv
    <2> QED BY <2>1 DEF CallOK, CallerOK, Governed, WithinPack
  <1> QED BY <1>1, KernelInvariant, PTL

\* What a token carries and what a namespace reports is what the pack grants.
THEOREM GrantsAlwaysAgree == Spec => []GrantsAgree
  BY KernelInvariant, PTL DEF KernelInv

\* The kernel implements the policy engine: whatever the kernel's callers do
\* together, the engine sees a behaviour of its own specification, so every
\* theorem of PolicyEngineProofs holds inside the kernel.
THEOREM KernelRunsTheEngine == Spec => PolicySpec
  <1>1. Init => PolicyInit
    BY DEF Init
  <1>2. KernelInv /\ [Next]_vars => [PolicyNext]_policyVars
    BY KernelInvStep
  <1> QED BY <1>1, <1>2, KernelInvariant, PTL DEF Spec, PolicySpec

\* Inside the kernel too, authorize never allows a token that was revoked, by
\* id or by generation, before it was asked.
THEOREM KernelNeverAllowsRevoked == Spec => []RevokedNeverAllowed
  BY KernelRunsTheEngine, RevokedIsNeverAllowed, PTL

-----------------------------------------------------------------------------
(* The journal                                                             *)

\* Ids are taken from eventSeq, and a caller inside the fan-out owns its id.
IdsIssued ==
    /\ \A s \in Sinks : \A e \in log[s] : e.eid <= eventSeq
    /\ \A c \in Callers : at[c] = "record" => call[c].eid <= eventSeq

IdsOwned ==
    \A c \in Callers : at[c] = "record" =>
        /\ \A d \in Callers : at[d] = "record" /\ call[d].eid = call[c].eid => d = c
        /\ \A s \in Sinks : \A e \in log[s] : e.eid = call[c].eid => e = CurrentEvent(c)

\* The children before the one it is in have its event.
EarlierSinks ==
    \A c \in Callers : at[c] = "record" =>
        \A s \in Sinks : s < call[c].sink => CurrentEvent(c) \in log[s]

AuditInv == IdsIssued /\ IdsOwned /\ EarlierSinks /\ JournalFirst /\ EventIdsUnique

LEMMA SinkTypes ==
  ASSUME KernelInv
  PROVE  /\ eventSeq \in Nat
         /\ \A s \in Sinks : \A e \in log[s] : e \in Event /\ e.eid \in Nat
         /\ \A c \in Callers : call[c].eid \in Nat
         /\ \A c \in Callers : at[c] = "record" => call[c].sink \in Sinks
         /\ Sinks \subseteq Nat
  <1>1. /\ eventSeq \in Nat /\ log \in [Sinks -> SUBSET Event]
        /\ \A c \in Callers : call[c] \in Call /\ CallOK(c)
    BY DEF KernelInv, KernelTypeOK
  <1>2. \A s \in Sinks : \A e \in log[s] : e \in Event /\ e.eid \in Nat
    BY <1>1 DEF Event
  <1>3. \A c \in Callers : call[c].eid \in Nat
    BY <1>1 DEF Call
  <1>4. \A c \in Callers : at[c] = "record" => call[c].sink \in Sinks
    BY <1>1 DEF CallOK
  <1>5. Sinks \subseteq Nat
    BY NumSinksAssumption DEF Sinks
  <1> QED BY <1>1, <1>2, <1>3, <1>4, <1>5

\* Every step outside the audit path leaves the sinks and their users alone.
AuditFrame ==
    /\ log' = log /\ eventSeq' = eventSeq
    /\ \A c \in Callers : at'[c] = "record" => at[c] = "record" /\ call'[c] = call[c]

LEMMA AuditFrameInv == ASSUME AuditInv, AuditFrame PROVE AuditInv'
  <1>1. IdsIssued' /\ IdsOwned' /\ EarlierSinks'
    BY DEF AuditInv, AuditFrame, IdsIssued, IdsOwned, EarlierSinks, CurrentEvent
  <1>2. JournalFirst' /\ EventIdsUnique'
    BY DEF AuditInv, AuditFrame, JournalFirst, EventIdsUnique
  <1> QED BY <1>1, <1>2 DEF AuditInv

LEMMA AuditFrameSteps ==
  ASSUME KernelInv, NEW c \in Callers, TokenStep(c) \/ ExecuteStep(c) \/ BeginNote(c)
  PROVE  AuditFrame
  <1> USE DEF KernelInv, KernelTypeOK, AuditFrame
  <1>1. CASE TokenStep(c)
    BY <1>1 DEF TokenStep, BeginIssue, TakeGeneration, TakeId, BeginRevoke,
                BeginRevokeGeneration, EndRevokeGeneration, Begin
  <1>2. CASE ExecuteStep(c)
    <2>1. /\ log' = log /\ eventSeq' = eventSeq
          /\ at'[c] = "record" => at[c] = "record" /\ call'[c] = call[c]
          /\ \A d \in Callers \ {c} : at'[d] = at[d] /\ call'[d] = call[d]
      <3>1. CASE \E kind \in ExecuteKinds, t \in Tasks \cup {NoTask}, token \in held, p \in Packs,
                    need \in SUBSET Capabilities, connector \in Connectors :
                    \/ BeginExecute(c, kind, t, token, p, need, connector)
                    \/ RejectExecute(c, kind, t, token, p, need, connector)
        BY <3>1 DEF BeginExecute, RejectExecute, Begin
      <3>2. CASE Lookup(c)
        BY <3>2 DEF Lookup, Owe
      <3>3. CASE CheckToken(c)
        BY <3>3 DEF CheckToken, AfterVerdict
      <3>4. CASE \E allow \in BOOLEAN : Extend(c, allow)
        BY <3>4 DEF Extend, Owe
      <3>5. CASE AdapterOk(c)
        BY <3>5 DEF AdapterOk, Owe
      <3>6. CASE \E acted \in BOOLEAN : AdapterErr(c, acted) \/ Drop(c, acted)
        BY <3>6 DEF AdapterErr, Drop, Return
      <3> QED BY <1>2, <3>1, <3>2, <3>3, <3>4, <3>5, <3>6 DEF ExecuteStep
    <2> QED BY <2>1
  <1>3. CASE BeginNote(c)
    BY <1>3 DEF BeginNote, Begin
  <1> QED BY <1>1, <1>2, <1>3

LEMMA NewEventAudit ==
  ASSUME KernelInv, AuditInv, NEW c \in Callers, NewEvent(c) PROVE AuditInv'
  <1>1. /\ eventSeq' = eventSeq + 1 /\ log' = log
        /\ \A d \in Callers \ {c} : at'[d] = at[d] /\ call'[d] = call[d]
        /\ at'[c] = "record" /\ call'[c].eid = eventSeq + 1 /\ call'[c].sink = 1
    <2>1. call[c] \in Call
      BY DEF KernelInv, KernelTypeOK
    <2> QED BY <2>1 DEF NewEvent, NextEventId, KernelInv, KernelTypeOK, Call
  <1>2. IdsIssued'
    BY <1>1, SinkTypes DEF AuditInv, IdsIssued
  <1>3. \A s \in Sinks : \A e \in log[s] : e.eid # eventSeq + 1
    BY SinkTypes DEF AuditInv, IdsIssued
  <1>4. \A d \in Callers : at[d] = "record" => call[d].eid # eventSeq + 1
    BY SinkTypes DEF AuditInv, IdsIssued
  <1>5. \A d \in Callers \ {c} : CurrentEvent(d)' = CurrentEvent(d)
    BY <1>1 DEF CurrentEvent
  <1>6. IdsOwned'
    BY <1>1, <1>3, <1>4, <1>5 DEF AuditInv, IdsOwned
  <1>7. \A s \in Sinks : ~(s < 1)
    BY NumSinksAssumption DEF Sinks
  <1>8. EarlierSinks'
    BY <1>1, <1>5, <1>7 DEF AuditInv, EarlierSinks
  <1>9. JournalFirst' /\ EventIdsUnique'
    BY <1>1 DEF AuditInv, JournalFirst, EventIdsUnique
  <1> QED BY <1>2, <1>6, <1>8, <1>9 DEF AuditInv

\* One child took the event, or failed with or without having taken it.
LEMMA AppendAudit ==
  ASSUME KernelInv, AuditInv, NEW c \in Callers, at[c] = "record",
         Alone(c), eventSeq' = eventSeq,
         \/ log' = [log EXCEPT ![call[c].sink] = @ \cup {CurrentEvent(c)}]
         \/ log' = log /\ at'[c] # "record",
         at'[c] = "record" =>
            /\ CurrentEvent(c)' = CurrentEvent(c) /\ call'[c].eid = call[c].eid
            /\ call'[c].sink = call[c].sink + 1
  PROVE  AuditInv'
  <1> DEFINE e == CurrentEvent(c)
             n == call[c].sink
  <1>1. /\ e.eid = call[c].eid /\ n \in Sinks /\ n \in Nat /\ eventSeq \in Nat /\ e.eid \in Nat
        /\ \A s \in Sinks : s \in Nat
    BY SinkTypes DEF CurrentEvent
  <1>2. /\ \A s \in Sinks : /\ log[s] \subseteq log'[s]
                            /\ log'[s] \subseteq log[s] \cup {e}
                            /\ s # n => log'[s] = log[s]
        /\ at'[c] = "record" => e \in log'[n]
    BY <1>1 DEF KernelInv, KernelTypeOK
  <1>3. \A d \in Callers \ {c} : /\ at'[d] = at[d] /\ call'[d] = call[d]
                                /\ CurrentEvent(d)' = CurrentEvent(d)
    BY DEF Alone, CurrentEvent
  <1>4. \A s \in Sinks : \A f \in log[s] : f.eid = e.eid => f = e
    BY <1>1 DEF AuditInv, IdsOwned
  <1>5. \A d \in Callers \ {c} : at[d] = "record" => call[d].eid # e.eid
    BY <1>1 DEF AuditInv, IdsOwned
  <1>6. \A s \in Sinks : s < n => e \in log[s]
    BY DEF AuditInv, EarlierSinks
  <1>7. call[c].eid <= eventSeq
    BY DEF AuditInv, IdsIssued
  <1> HIDE DEF e, n
  <1>8. IdsIssued'
    BY <1>1, <1>2, <1>3, <1>7 DEF AuditInv, IdsIssued, n
  <1>9. IdsOwned'
    <2>1. ASSUME NEW d \in Callers \ {c}, at'[d] = "record"
          PROVE  /\ \A x \in Callers : at'[x] = "record" /\ call'[x].eid = call'[d].eid => x = d
                 /\ \A s \in Sinks : \A f \in log'[s] :
                       f.eid = call'[d].eid => f = CurrentEvent(d)'
      BY <1>1, <1>2, <1>3, <1>5, <2>1 DEF AuditInv, IdsOwned
    <2>2. ASSUME at'[c] = "record"
          PROVE  /\ \A x \in Callers : at'[x] = "record" /\ call'[x].eid = call'[c].eid => x = c
                 /\ \A s \in Sinks : \A f \in log'[s] :
                       f.eid = call'[c].eid => f = CurrentEvent(c)'
      BY <1>1, <1>2, <1>3, <1>4, <1>5, <2>2 DEF e
    <2> QED BY <2>1, <2>2 DEF IdsOwned
  <1>10. EarlierSinks'
    <2>1. ASSUME NEW d \in Callers \ {c}, at'[d] = "record", NEW s \in Sinks, s < call'[d].sink
          PROVE  CurrentEvent(d)' \in log'[s]
      BY <1>2, <1>3, <2>1 DEF AuditInv, EarlierSinks
    <2>2. ASSUME at'[c] = "record", NEW s \in Sinks, s < call'[c].sink
          PROVE  CurrentEvent(c)' \in log'[s]
      <3>1. s < n + 1 /\ CurrentEvent(c)' = e
        BY <2>2 DEF e, n
      <3>2. s < n \/ s = n
        BY <1>1, <3>1
      <3> QED BY <1>2, <1>6, <2>2, <3>1, <3>2
    <2> QED BY <2>1, <2>2 DEF EarlierSinks
  <1>11. JournalFirst'
    <2> SUFFICES ASSUME NEW s \in Sinks, NEW t \in Sinks, s < t, NEW f \in log'[t]
                 PROVE  f \in log'[s]
      BY DEF JournalFirst
    <2>1. CASE f \in log[t]
      BY <1>2, <2>1 DEF AuditInv, JournalFirst
    <2>2. CASE f \notin log[t]
      BY <1>2, <1>6, <2>2
    <2> QED BY <2>1, <2>2
  <1>12. EventIdsUnique'
    BY <1>2, <1>4 DEF AuditInv, EventIdsUnique
  <1> QED BY <1>8, <1>9, <1>10, <1>11, <1>12 DEF AuditInv

LEMMA RecordAudit ==
  ASSUME KernelInv, AuditInv, NEW c \in Callers,
         Record(c) \/ \E written \in BOOLEAN : RecordFails(c, written)
  PROVE  AuditInv'
  <1>1. /\ at[c] = "record" /\ eventSeq' = eventSeq
        /\ \/ Return(c, "audit_error")
           \/ AfterRecord(c)
    BY DEF Record, RecordFails
  <1>2. call[c] \in Call
    BY DEF KernelInv, KernelTypeOK
  <1>3. Alone(c)
    BY <1>1 DEF Return, AfterRecord, Alone, KernelInv, KernelTypeOK
  <1>4. at'[c] = "record" =>
            /\ CurrentEvent(c)' = CurrentEvent(c) /\ call'[c].eid = call[c].eid
            /\ call'[c].sink = call[c].sink + 1
    <2>1. ASSUME at'[c] = "record"
          PROVE  call'[c] = [call[c] EXCEPT !.sink = call[c].sink + 1]
      BY <1>1, <2>1 DEF AfterRecord, Return, KernelInv, KernelTypeOK
    <2> QED BY <1>2, <2>1 DEF Call, CurrentEvent
  <1>5. \/ log' = [log EXCEPT ![call[c].sink] = @ \cup {CurrentEvent(c)}]
        \/ log' = log /\ at'[c] # "record"
    BY DEF Record, RecordFails, Return, KernelInv, KernelTypeOK
  <1> QED BY <1>1, <1>3, <1>4, <1>5, AppendAudit

LEMMA AuditInvariant == Spec => []AuditInv
  <1>1. Init => AuditInv
    BY DEF Init, AuditInv, IdsIssued, IdsOwned, EarlierSinks, JournalFirst, EventIdsUnique
  <1>2. KernelInv /\ AuditInv /\ [Next]_vars => AuditInv'
    <2> SUFFICES ASSUME KernelInv, AuditInv, [Next]_vars PROVE AuditInv'
      OBVIOUS
    <2>1. CASE UNCHANGED vars \/ Tick \/ \E p \in Packs, m \in Manifests : RegisterPack(p, m)
      <3>1. log' = log /\ eventSeq' = eventSeq /\ at' = at /\ call' = call
        BY <2>1 DEF vars, kernelVars, Tick, RegisterPack
      <3> QED BY <3>1, AuditFrameInv DEF AuditFrame
    <2>2. CASE \E c \in Callers : TokenStep(c) \/ ExecuteStep(c) \/ AuditStep(c)
      BY <2>2, AuditFrameSteps, AuditFrameInv, NewEventAudit, RecordAudit DEF AuditStep
    <2> QED BY <2>1, <2>2 DEF Next
  <1> QED BY <1>1, <1>2, KernelInvariant, PTL DEF Spec

-----------------------------------------------------------------------------
(* Supervised tasks                                                        *)

\* A call that names a task has taken it out of Runnable, for good.
TaskInv ==
    /\ \A n \in CallIds : made[n].task # NoTask => task[made[n].task] # "Runnable"
    /\ \A m, n \in CallIds : made[m].task = made[n].task /\ made[m].task # NoTask => m = n

\* A step that names no new task and makes none Runnable.
LEMMA TaskFrame ==
  ASSUME TaskInv,
         \A n \in CallIds : made'[n].task \in {made[n].task, NoTask},
         \A t \in Tasks : task[t] # "Runnable" => task'[t] # "Runnable",
         KernelInv
  PROVE  TaskInv'
  <1>1. \A n \in CallIds : made[n].task # NoTask => made[n].task \in Tasks
    BY DEF KernelInv, KernelTypeOK, Made
  <1> QED BY <1>1 DEF TaskInv

\* A step that numbers a call of task t.
LEMMA TaskTaken ==
  ASSUME KernelInv, TaskInv, NEW t \in Tasks, Dispatchable(t),
         NEW kind, NEW res, NEW s, s # "Runnable",
         made' = [made EXCEPT ![calls + 1] = [kind |-> kind, task |-> t, res |-> res]],
         task' = [task EXCEPT ![t] = s]
  PROVE  TaskInv'
  <1>1. \A n \in CallIds : made[n].task # NoTask => made[n].task \in Tasks
    BY DEF KernelInv, KernelTypeOK, Made
  <1>2. \A n \in CallIds : made[n].task = t => t = NoTask
    BY DEF TaskInv, Dispatchable
  <1>3. \A n \in CallIds : made'[n] = IF n = calls + 1
                                     THEN [kind |-> kind, task |-> t, res |-> res] ELSE made[n]
    BY DEF KernelInv, KernelTypeOK
  <1>4. \A u \in Tasks : task'[u] = IF u = t THEN s ELSE task[u]
    BY DEF KernelInv, KernelTypeOK
  <1> QED BY <1>1, <1>2, <1>3, <1>4 DEF TaskInv

\* A call without a task begins.
LEMMA TasklessBegin ==
  ASSUME KernelInv, TaskInv, NEW c \in Callers, NEW step, NEW k \in Call, k.task = NoTask,
         Begin(c, step, k), task' = task
  PROVE  TaskInv'
  <1>1. \A n \in CallIds : made'[n] = made[n] \/ made'[n].task = NoTask
    BY DEF Begin, KernelInv, KernelTypeOK
  <1> QED BY <1>1, TaskFrame

LEMMA TaskReturn ==
  ASSUME KernelInv, TaskInv, NEW c \in Callers, NEW res, Return(c, res), call[c].n \in CallIds
  PROVE  TaskInv'
  <1>1. \A n \in CallIds : made[n] \in Made /\ call[c] \in Call
    BY DEF KernelInv, KernelTypeOK
  <1>2. \A n \in CallIds : made'[n].task = made[n].task
    BY <1>1 DEF Return, KernelInv, KernelTypeOK, Made
  <1>3. \A t \in Tasks : task[t] # "Runnable" => task'[t] # "Runnable"
    BY <1>1 DEF Return, TaskAfter, KernelInv, KernelTypeOK, Call
  <1> QED BY <1>2, <1>3, TaskFrame

LEMMA TaskTokenStep ==
  ASSUME KernelInv, TaskInv, NEW c \in Callers, TokenStep(c) \/ BeginNote(c)
  PROVE  TaskInv'
  <1>1. ASSUME NEW p \in Packs, NEW ttl \in Time, BeginIssue(c, p, ttl)
        PROVE  TaskInv'
    <2> DEFINE k == [NoCall EXCEPT !.kind = "issue", !.pack = p, !.ttl = ttl, !.now = clock]
    <2>1. k \in Call /\ k.task = NoTask
      BY NoCallType DEF NoCall, Call, Kinds, KernelInv, KernelTypeOK
    <2>2. Begin(c, "issue", k) /\ task' = task
      BY <1>1 DEF BeginIssue
    <2> HIDE DEF k
    <2> QED BY <2>1, <2>2, TasklessBegin
  <1>2. ASSUME NEW kind \in {"revoke", "note"}, NEW e \in EventKinds, task' = task,
               Begin(c, "event", [NoCall EXCEPT !.kind = kind, !.now = clock, !.event = e])
        PROVE  TaskInv'
    <2> DEFINE k == [NoCall EXCEPT !.kind = kind, !.now = clock, !.event = e]
    <2>1. k \in Call /\ k.task = NoTask
      BY NoCallType DEF NoCall, Call, Kinds, KernelInv, KernelTypeOK
    <2> HIDE DEF k
    <2> QED BY <1>2, <2>1, TasklessBegin DEF k
  <1>3. CASE BeginNote(c) \/ \E id \in 1..MaxGeneration : BeginRevoke(c, id)
    <2>1. /\ task' = task
          /\ \/ Begin(c, "event", [NoCall EXCEPT !.kind = "note", !.now = clock,
                                                 !.event = "Noted"])
             \/ Begin(c, "event", [NoCall EXCEPT !.kind = "revoke", !.now = clock,
                                                 !.event = "TokenRevoked"])
      BY <1>3 DEF BeginNote, BeginRevoke
    <2>2. {"Noted", "TokenRevoked"} \subseteq EventKinds
      BY DEF EventKinds
    <2> QED BY <1>2, <2>1, <2>2
  <1>4. CASE \/ TakeGeneration(c) \/ TakeId(c) \/ EndRevokeGeneration(c)
             \/ \E b \in 1..MaxGeneration : BeginRevokeGeneration(c, b)
    <2>1. made' = made /\ task' = task
      BY <1>4 DEF TakeGeneration, TakeId, EndRevokeGeneration, BeginRevokeGeneration
    <2> QED BY <2>1, TaskFrame
  <1> QED BY <1>1, <1>3, <1>4 DEF TokenStep

LEMMA TaskExecuteStep ==
  ASSUME KernelInv, TaskInv, NEW c \in Callers, ExecuteStep(c)
  PROVE  TaskInv'
  <1>1. ASSUME NEW kind \in ExecuteKinds, NEW t \in Tasks \cup {NoTask}, NEW token \in held,
               NEW p \in Packs, NEW need \in SUBSET Capabilities, NEW connector \in Connectors,
               \/ BeginExecute(c, kind, t, token, p, need, connector)
               \/ RejectExecute(c, kind, t, token, p, need, connector)
        PROVE  TaskInv'
    <2> t # NoTask => Dispatchable(t)
      BY <1>1 DEF BeginExecute, RejectExecute
    <2>1. \E res, s :
                     /\ made' = [made EXCEPT ![calls + 1] =
                                  [kind |-> kind, task |-> t, res |-> res]]
                     /\ task' = IF t = NoTask THEN task ELSE [task EXCEPT ![t] = s]
                     /\ s # "Runnable"
      <3>1. CASE BeginExecute(c, kind, t, token, p, need, connector)
        <4> DEFINE k == [NoCall EXCEPT !.kind = kind, !.task = t, !.token = token,
                                       !.pack = p, !.need = need, !.connector = connector,
                                       !.now = clock, !.revoked = Revoked(token)]
        <4>1. k.kind = kind /\ k.task = t
          BY NoCallType DEF Call
        <4>2. /\ Begin(c, "authorize", k)
              /\ task' = IF t = NoTask THEN task ELSE [task EXCEPT ![t] = "InReply"]
          BY <3>1 DEF BeginExecute
        <4> HIDE DEF k
        <4>3. made' = [made EXCEPT ![calls + 1] =
                         [kind |-> k.kind, task |-> k.task, res |-> "open"]]
          BY <4>2 DEF Begin
        <4>4. made' = [made EXCEPT ![calls + 1] = [kind |-> kind, task |-> t, res |-> "open"]]
          BY <4>1, <4>3
        <4> WITNESS "open", "InReply"
        <4> QED BY <4>2, <4>4
      <3>2. CASE RejectExecute(c, kind, t, token, p, need, connector)
        BY <3>2 DEF RejectExecute
      <3> QED BY <1>1, <3>1, <3>2
    <2>2. CASE t = NoTask
      <3>1. \A n \in CallIds : made'[n] = made[n] \/ made'[n].task = NoTask
        BY <2>1, <2>2 DEF KernelInv, KernelTypeOK
      <3> QED BY <2>1, <2>2, <3>1, TaskFrame
    <2>3. CASE t # NoTask
      BY <2>1, <2>3, TaskTaken
    <2> QED BY <2>2, <2>3
  <1>2. CASE \/ Lookup(c) \/ CheckToken(c) \/ AdapterOk(c)
             \/ \E allow \in BOOLEAN : Extend(c, allow)
    <2>1. made' = made /\ task' = task
      BY <1>2 DEF Lookup, CheckToken, AdapterOk, Extend
    <2> QED BY <2>1, TaskFrame
  <1>3. CASE \E acted \in BOOLEAN : AdapterErr(c, acted) \/ Drop(c, acted)
    <2>1. at[c] = "running" /\ CallOK(c)
      BY <1>3 DEF AdapterErr, Drop, KernelInv
    <2>2. call[c].n \in CallIds
      BY <2>1 DEF CallOK
    <2>3. CASE \E acted \in BOOLEAN : AdapterErr(c, acted)
      BY <2>2, <2>3, TaskReturn DEF AdapterErr
    <2>4. CASE \E acted \in BOOLEAN : Drop(c, acted)
      <3>1. /\ made' = [made EXCEPT ![call[c].n].res = "dropped"] /\ task' = task
            /\ \A n \in CallIds : made[n] \in Made
        BY <2>4 DEF Drop, KernelInv, KernelTypeOK
      <3>2. \A n \in CallIds : made'[n].task = made[n].task
        BY <3>1 DEF KernelInv, KernelTypeOK, Made
      <3> QED BY <3>1, <3>2, TaskFrame
    <2> QED BY <1>3, <2>3, <2>4
  <1> QED BY <1>1, <1>2, <1>3 DEF ExecuteStep

LEMMA TaskAuditStep ==
  ASSUME KernelInv, TaskInv, NEW c \in Callers,
         NewEvent(c) \/ Record(c) \/ \E written \in BOOLEAN : RecordFails(c, written)
  PROVE  TaskInv'
  <1>1. CASE UNCHANGED <<made, task>>
    BY <1>1, TaskFrame
  <1>2. ASSUME at[c] = "record", NEW res, Return(c, res)
        PROVE  TaskInv'
    BY <1>2, RecordFacts, TaskReturn
  <1> QED BY <1>1, <1>2 DEF NewEvent, Record, RecordFails, AfterRecord

LEMMA TaskInvariant == Spec => []TaskInv
  <1>1. Init => TaskInv
    BY DEF Init, TaskInv, NotMade
  <1>2. KernelInv /\ TaskInv /\ [Next]_vars => TaskInv'
    <2> SUFFICES ASSUME KernelInv, TaskInv, [Next]_vars PROVE TaskInv'
      OBVIOUS
    <2>1. CASE UNCHANGED vars \/ Tick \/ \E p \in Packs, m \in Manifests : RegisterPack(p, m)
      <3>1. made' = made /\ task' = task
        BY <2>1 DEF vars, kernelVars, Tick, RegisterPack
      <3> QED BY <3>1, TaskFrame
    <2>2. CASE \E c \in Callers : TokenStep(c) \/ ExecuteStep(c) \/ AuditStep(c)
      BY <2>2, TaskTokenStep, TaskExecuteStep, TaskAuditStep DEF AuditStep
    <2> QED BY <2>1, <2>2 DEF Next
  <1> QED BY <1>1, <1>2, KernelInvariant, PTL DEF Spec

-----------------------------------------------------------------------------
(* Evidence                                                                *)

Inside(c) == at[c] \notin {"idle", "forward"}

\* What a call that is about to record event k.event has done and recorded.
Owed(k) ==
    \/ k.event = "AuthorizationDenied" /\ k.n \notin effects
    \/ /\ k.event # "AuthorizationDenied"
       /\ k.event \in Evidence(k.kind)
       /\ k.kind \in ExecuteKinds => k.n \in effects
       /\ k.kind = "connector" /\ k.event = "PlaneInvoked" =>
              RecordedEverywhere(k.n, "ConnectorInvoked")

OwnEvidence(c) ==
    LET k == call[c] IN
    /\ Inside(c) => /\ k.n \in CallIds /\ k.n <= calls
                    /\ k.kind \in Kinds \ {"none"}
                    /\ made[k.n].kind = k.kind /\ made[k.n].res = "open"
    /\ at[c] \in Governed => k.n \notin effects
    /\ at[c] \in {"event", "record"} => Owed(k)

NumbersDistinct ==
    \A c, d \in Callers : Inside(c) /\ Inside(d) /\ call[c].n = call[d].n => c = d

\* EvidenceBeforeOk, of one call.
EvidenceFor(n) ==
    /\ made[n].res = "ok" =>
          /\ \A kind \in Evidence(made[n].kind) : RecordedEverywhere(n, kind)
          /\ made[n].kind \in ExecuteKinds => n \in effects
    /\ made[n].res = "denied" =>
          /\ RecordedEverywhere(n, "AuthorizationDenied")
          /\ n \notin effects

EvidenceInv ==
    /\ \A c \in Callers : OwnEvidence(c)
    /\ NumbersDistinct
    /\ \A n \in effects : n <= calls
    /\ \A n \in CallIds : EvidenceFor(n)

\* Sinks only grow.
Grown == \A s \in Sinks : log[s] \subseteq log'[s]

LEMMA RecordedStays ==
  ASSUME Grown, NEW n, NEW kind, RecordedEverywhere(n, kind)
  PROVE  RecordedEverywhere(n, kind)'
  BY DEF Grown, RecordedEverywhere

\* Only the call that returns or begins has to be looked at.
LEMMA EvidenceFrame ==
  ASSUME KernelInv, EvidenceInv, NEW c \in Callers, Alone(c), Grown,
         calls' = calls \/ calls' = calls + 1,
         \/ effects' = effects
         \/ at[c] = "running" /\ effects' = effects \cup {call[c].n},
         \A n \in CallIds : \/ made'[n] = made[n]
                            \/ Inside(c) /\ n = call[c].n
                            \/ ~(n <= calls),
         \A n \in CallIds : made'[n] = made[n] \/ EvidenceFor(n)',
         Inside(c)' => \/ Inside(c) /\ call'[c].n = call[c].n
                       \/ ~(call'[c].n <= calls),
         OwnEvidence(c)'
  PROVE  EvidenceInv'
  <1>1. /\ effects \subseteq CallIds /\ OwnEvidence(c)
        /\ \A n \in CallIds : n <= calls => n <= calls'
    BY MaxCallsAssumption DEF KernelInv, KernelTypeOK, CallIds, EvidenceInv
  <1>2. \A d \in Callers \ {c} : at'[d] = at[d] /\ call'[d] = call[d]
    BY DEF Alone
  <1>3. at[c] = "running" => /\ Inside(c) /\ call[c].n \in CallIds /\ call[c].n <= calls
                             /\ made[call[c].n].res = "open"
    BY <1>1 DEF OwnEvidence, Inside
  <1>4. ASSUME NEW d \in Callers \ {c}
        PROVE  OwnEvidence(d)'
    <2>1. OwnEvidence(d) /\ at'[d] = at[d] /\ call'[d] = call[d]
      BY <1>2 DEF EvidenceInv
    <2>2. CASE ~Inside(d)
      BY <2>1, <2>2 DEF OwnEvidence, Inside, Governed
    <2>3. CASE Inside(d)
      <3>1. call[d].n \in CallIds /\ call[d].n <= calls
        BY <2>1, <2>3 DEF OwnEvidence
      <3>2. Inside(c) => call[d].n # call[c].n
        BY <2>3 DEF EvidenceInv, NumbersDistinct
      <3>3. made'[call[d].n] = made[call[d].n]
        BY <1>1, <3>1, <3>2
      <3>4. call[d].n \in effects' <=> call[d].n \in effects
        BY <1>3, <3>2
      <3>5. Owed(call[d]) => Owed(call[d])'
        BY <2>1, <3>4, RecordedStays DEF Owed
      <3>6. call[d].n <= calls'
        BY <1>1, <3>1
      <3>7. /\ call'[d].kind \in Kinds \ {"none"}
            /\ made'[call'[d].n].kind = call'[d].kind /\ made'[call'[d].n].res = "open"
        BY <2>1, <2>3, <3>3 DEF OwnEvidence
      <3>8. at'[d] \in {"event", "record"} => Owed(call[d])'
        BY <2>1, <3>5 DEF OwnEvidence
      <3>9. at'[d] \in Governed => call'[d].n \notin effects'
        BY <2>1, <3>4 DEF OwnEvidence
      <3> QED BY <2>1, <3>1, <3>6, <3>7, <3>8, <3>9 DEF OwnEvidence
    <2> QED BY <2>2, <2>3
  <1>5. NumbersDistinct'
    <2>1. \A d \in Callers \ {c} : Inside(d)' => /\ Inside(d) /\ call'[d].n = call[d].n
                                                /\ call[d].n \in CallIds /\ call[d].n <= calls
      BY <1>2 DEF Inside, EvidenceInv, OwnEvidence
    <2>2. ASSUME NEW d \in Callers \ {c}, Inside(c)', Inside(d)' PROVE call'[c].n # call'[d].n
      <3>1. CASE Inside(c) /\ call'[c].n = call[c].n
        BY <2>1, <2>2, <3>1 DEF EvidenceInv, NumbersDistinct
      <3>2. CASE ~(call'[c].n <= calls)
        BY <2>1, <2>2, <3>2
      <3> QED BY <2>2, <3>1, <3>2
    <2> QED BY <2>1, <2>2 DEF NumbersDistinct, EvidenceInv
  <1>6. \A n \in effects' : n <= calls'
    <2>1. \A n \in effects' : n \in CallIds /\ n <= calls
      BY <1>1, <1>3 DEF EvidenceInv
    <2> QED BY <1>1, <2>1
  <1>7. ASSUME NEW n \in CallIds, made'[n] = made[n]
        PROVE  EvidenceFor(n)'
    <2>1. EvidenceFor(n)
      BY DEF EvidenceInv
    <2>2. made[n].res = "denied" => (n \in effects' => n \in effects)
      BY <1>3
    <2> QED BY <1>7, <2>1, <2>2, RecordedStays DEF EvidenceFor
  <1> QED BY <1>4, <1>5, <1>6, <1>7 DEF EvidenceInv

\* A call goes on: same number, same kind, nothing returned.
LEMMA EvidenceMove ==
  ASSUME KernelInv, EvidenceInv, NEW c \in Callers, Inside(c), Alone(c), Grown,
         calls' = calls, made' = made,
         \/ effects' = effects
         \/ at[c] = "running" /\ effects' = effects \cup {call[c].n},
         Inside(c)', call'[c].n = call[c].n, call'[c].kind = call[c].kind,
         at'[c] \in Governed => at[c] \in Governed /\ effects' = effects,
         at'[c] \in {"event", "record"} => Owed(call[c])'
  PROVE  EvidenceInv'
  <1>1. OwnEvidence(c)
    BY DEF EvidenceInv
  <1>2. /\ call'[c].n \in CallIds /\ call'[c].n <= calls'
        /\ call'[c].kind \in Kinds \ {"none"}
        /\ made'[call'[c].n].kind = call'[c].kind /\ made'[call'[c].n].res = "open"
    BY <1>1 DEF OwnEvidence
  <1>3. at'[c] \in Governed => call'[c].n \notin effects'
    BY <1>1 DEF OwnEvidence
  <1>4. OwnEvidence(c)'
    BY <1>2, <1>3 DEF OwnEvidence
  <1> QED BY <1>4, EvidenceFrame

\* A call begins; it owes an event at once only if nothing is executed.
LEMMA EvidenceBegin ==
  ASSUME KernelInv, EvidenceInv, NEW c \in Callers, NEW k \in Call,
         NEW step \in {"issue", "authorize", "event"}, Begin(c, step, k),
         effects' = effects, log' = log, k.kind \in Kinds \ {"none"},
         step = "event" => /\ k.event # "AuthorizationDenied" /\ k.event \in Evidence(k.kind)
                           /\ k.kind \notin ExecuteKinds
  PROVE  EvidenceInv'
  <1>1. /\ Alone(c) /\ at'[c] = step /\ call'[c] = [k EXCEPT !.n = calls + 1]
        /\ call'[c].n \in CallIds
    BY BeginFacts DEF KernelStep
  <1>2. /\ call'[c].n = calls + 1 /\ call'[c].kind = k.kind /\ call'[c].event = k.event
    BY <1>1 DEF Call
  <1>3. /\ calls' = calls + 1
        /\ made' = [made EXCEPT ![calls + 1] =
                       [kind |-> k.kind, task |-> k.task, res |-> "open"]]
    BY DEF Begin
  <1>4. /\ ~(calls + 1 <= calls) /\ calls + 1 <= calls' /\ calls + 1 \notin effects
    BY <1>3, MaxCallsAssumption DEF KernelInv, KernelTypeOK, EvidenceInv
  <1>5. /\ \A n \in CallIds : n # calls + 1 => made'[n] = made[n]
        /\ made'[calls + 1].kind = k.kind /\ made'[calls + 1].res = "open"
    BY <1>1, <1>2, <1>3 DEF KernelInv, KernelTypeOK
  <1>6. \A n \in CallIds : \/ made'[n] = made[n]
                           \/ EvidenceFor(n)' /\ ~(n <= calls)
    <2> TAKE n \in CallIds
    <2>1. CASE n # calls + 1
      BY <1>5, <2>1
    <2>2. CASE n = calls + 1
      <3>1. EvidenceFor(n)'
        BY <1>5, <2>2 DEF EvidenceFor
      <3> QED BY <1>4, <2>2, <3>1
    <2> QED BY <2>1, <2>2
  <1>7. step = "event" => Owed(call[c])'
    <2>1. call'[c].kind \notin ExecuteKinds => call'[c].kind # "connector"
      BY DEF ExecuteKinds
    <2> QED BY <1>2, <2>1 DEF Owed, Evidence
  <1>8. OwnEvidence(c)'
    <2>1. at'[c] \in {"event", "record"} => Owed(call[c])'
      BY <1>1, <1>7
    <2>2. call'[c].n \notin effects' /\ call'[c].n <= calls' /\ ~(call'[c].n <= calls)
      BY <1>2, <1>4
    <2>3. made'[call'[c].n].kind = call'[c].kind /\ made'[call'[c].n].res = "open"
      BY <1>2, <1>5
    <2> QED BY <1>1, <1>2, <2>1, <2>2, <2>3 DEF OwnEvidence
  <1>9. ~(call'[c].n <= calls) /\ Grown
    BY <1>2, <1>4 DEF Grown
  <1> QED BY <1>1, <1>3, <1>6, <1>8, <1>9, EvidenceFrame

\* A call returns or is dropped: what it reports is what it has shown.
LEMMA EvidenceEnd ==
  ASSUME KernelInv, EvidenceInv, NEW c \in Callers, Inside(c), Alone(c), Grown,
         NEW n, n = call[c].n, NEW res, calls' = calls, at'[c] = "idle",
         made' = [made EXCEPT ![n].res = res],
         effects' = effects \/ (at[c] = "running" /\ effects' = effects \cup {n}),
         res = "ok" =>
            /\ \A kind \in Evidence(call[c].kind) : RecordedEverywhere(n, kind)'
            /\ call[c].kind \in ExecuteKinds => n \in effects',
         res = "denied" => RecordedEverywhere(n, "AuthorizationDenied")' /\ n \notin effects'
  PROVE  EvidenceInv'
  <1>1. OwnEvidence(c)
    BY DEF EvidenceInv
  <1>2. n \in CallIds /\ made[n].kind = call[c].kind /\ made[n] \in Made
    BY <1>1 DEF OwnEvidence, KernelInv, KernelTypeOK
  <1>3. /\ \A m \in CallIds : m # n => made'[m] = made[m]
        /\ made'[n].kind = call[c].kind /\ made'[n].res = res
    BY <1>2 DEF KernelInv, KernelTypeOK, Made
  <1>4. EvidenceFor(n)'
    BY <1>3 DEF EvidenceFor
  <1>5. \A m \in CallIds : made'[m] = made[m] \/ (m = n /\ EvidenceFor(m)')
    BY <1>3, <1>4
  <1>6. OwnEvidence(c)' /\ ~Inside(c)'
    BY DEF OwnEvidence, Inside, Governed
  <1> QED BY <1>5, <1>6, EvidenceFrame

LEMMA EvidenceTokenStep ==
  ASSUME KernelInv, EvidenceInv, NEW c \in Callers, TokenStep(c) \/ BeginNote(c)
  PROVE  EvidenceInv'
  <1>1. effects' = effects /\ log' = log /\ Grown
    BY DEF TokenStep, BeginNote, BeginIssue, TakeGeneration, TakeId, BeginRevoke,
           BeginRevokeGeneration, EndRevokeGeneration, Grown
  <1>2. ASSUME NEW p \in Packs, NEW ttl \in Time, BeginIssue(c, p, ttl)
        PROVE  EvidenceInv'
    <2> DEFINE k == [NoCall EXCEPT !.kind = "issue", !.pack = p, !.ttl = ttl, !.now = clock]
    <2>1. k \in Call /\ k.kind = "issue" /\ k.kind \in Kinds \ {"none"}
      BY NoCallType DEF Call, Kinds, KernelInv, KernelTypeOK
    <2>2. Begin(c, "issue", k)
      BY <1>2 DEF BeginIssue
    <2> HIDE DEF k
    <2> QED BY <1>1, <2>1, <2>2, EvidenceBegin
  <1>3. ASSUME NEW kind \in {"revoke", "note"}, NEW e \in {"TokenRevoked", "Noted"},
               e \in Evidence(kind),
               Begin(c, "event", [NoCall EXCEPT !.kind = kind, !.now = clock, !.event = e])
        PROVE  EvidenceInv'
    <2> DEFINE k == [NoCall EXCEPT !.kind = kind, !.now = clock, !.event = e]
    <2>1. /\ k \in Call /\ k.kind = kind /\ k.event = e /\ kind \in Kinds \ {"none"}
          /\ kind \notin ExecuteKinds
      BY NoCallType DEF Call, Kinds, EventKinds, ExecuteKinds, KernelInv, KernelTypeOK
    <2>2. Begin(c, "event", k)
      BY <1>3
    <2> HIDE DEF k
    <2> QED BY <1>1, <1>3, <2>1, <2>2, EvidenceBegin
  <1>4. CASE BeginNote(c)
    <2>1. "Noted" \in Evidence("note")
      BY DEF Evidence
    <2> QED BY <1>3, <1>4, <2>1 DEF BeginNote
  <1>5. CASE \E id \in 1..MaxGeneration : BeginRevoke(c, id)
    <2>1. "TokenRevoked" \in Evidence("revoke")
      BY DEF Evidence
    <2> QED BY <1>3, <1>5, <2>1 DEF BeginRevoke
  <1>6. CASE TakeGeneration(c)
    <2>1. /\ Inside(c) /\ Inside(c)' /\ Alone(c) /\ UNCHANGED <<call, calls, made>>
          /\ at'[c] = "issuing"
      BY <1>6 DEF TakeGeneration, Inside, Alone, KernelInv, KernelTypeOK
    <2>2. at'[c] \notin Governed \cup {"event", "record"}
      BY <2>1 DEF Governed
    <2> QED BY <1>1, <2>1, <2>2, EvidenceMove
  <1>7. CASE TakeId(c)
    <2> DEFINE o == Owing(c, "TokenIssued")
               k == [o EXCEPT !.token = NextToken(c)]
    <2>1. /\ o \in Call /\ o.n = call[c].n /\ o.kind = call[c].kind /\ o.event = "TokenIssued"
      BY OwingType DEF KernelInv, EventKinds
    <2> HIDE DEF o
    <2>2. k.n = call[c].n /\ k.kind = call[c].kind /\ k.event = "TokenIssued"
      BY <2>1 DEF Call
    <2>3. /\ at[c] = "issuing" /\ at' = [at EXCEPT ![c] = "event"]
          /\ call' = [call EXCEPT ![c] = k] /\ UNCHANGED <<calls, made>>
      BY <1>7 DEF TakeId, o
    <2> HIDE DEF k
    <2>4. /\ Inside(c) /\ Inside(c)' /\ Alone(c) /\ call'[c] = k /\ at'[c] = "event"
      BY <2>3 DEF Inside, Alone, KernelInv, KernelTypeOK
    <2>5. call[c].kind = "issue"
      BY <2>3 DEF KernelInv, CallOK
    <2>6. Owed(call[c])'
      BY <2>2, <2>4, <2>5 DEF Owed, Evidence, ExecuteKinds
    <2> QED BY <1>1, <2>2, <2>3, <2>4, <2>6, EvidenceMove DEF Governed
  <1>8. CASE \/ EndRevokeGeneration(c)
             \/ \E b \in 1..MaxGeneration : BeginRevokeGeneration(c, b)
    <2>1. /\ ~Inside(c)' /\ Alone(c) /\ UNCHANGED <<call, calls, made>>
          /\ at'[c] \in {"idle", "forward"}
      BY <1>8 DEF EndRevokeGeneration, BeginRevokeGeneration, Inside, Alone, KernelInv, KernelTypeOK
    <2>2. OwnEvidence(c)'
      BY <2>1 DEF OwnEvidence, Governed
    <2> QED BY <1>1, <2>1, <2>2, EvidenceFrame
  <1> QED BY <1>2, <1>4, <1>5, <1>6, <1>7, <1>8 DEF TokenStep

\* A governed call is denied, or its adapter has acted: it owes an event.
LEMMA EvidenceOwe ==
  ASSUME KernelInv, EvidenceInv, NEW c \in Callers, at[c] \in Governed, NEW e,
         at' = [at EXCEPT ![c] = "event"], call' = [call EXCEPT ![c] = Owing(c, e)],
         log' = log, calls' = calls, made' = made,
         \/ e = "AuthorizationDenied" /\ effects' = effects
         \/ /\ at[c] = "running" /\ e = DispatchEvent(call[c].kind)
            /\ effects' = effects \cup {call[c].n}
  PROVE  EvidenceInv'
  <1>1. OwnEvidence(c) /\ CallOK(c) /\ call[c].kind \in ExecuteKinds
    BY DEF EvidenceInv, KernelInv, CallOK
  <1>2. /\ e \in EventKinds
        /\ e = DispatchEvent(call[c].kind) =>
              /\ e # "AuthorizationDenied" /\ e \in Evidence(call[c].kind)
              /\ ~(call[c].kind = "connector" /\ e = "PlaneInvoked")
    BY <1>1 DEF DispatchEvent, Evidence, ExecuteKinds, EventKinds
  <1>3. /\ Owing(c, e).n = call[c].n /\ Owing(c, e).kind = call[c].kind /\ Owing(c, e).event = e
    BY <1>2, OwingType DEF KernelInv
  <1>4. /\ call'[c].n = call[c].n /\ call'[c].kind = call[c].kind /\ call'[c].event = e
        /\ at'[c] = "event" /\ Alone(c) /\ Grown
    BY <1>3 DEF KernelInv, KernelTypeOK, Alone, Grown
  <1>5. call[c].n \notin effects
    BY <1>1 DEF OwnEvidence
  <1>6. Owed(call[c])'
    BY <1>2, <1>4, <1>5 DEF Owed
  <1>7. Inside(c) /\ Inside(c)' /\ at'[c] \notin Governed
    BY <1>4 DEF Inside, Governed
  <1> QED BY <1>4, <1>6, <1>7, EvidenceMove

LEMMA EvidenceExecuteStep ==
  ASSUME KernelInv, EvidenceInv, NEW c \in Callers, ExecuteStep(c)
  PROVE  EvidenceInv'
  <1>1. ASSUME NEW kind \in ExecuteKinds, NEW t \in Tasks \cup {NoTask}, NEW token \in held,
               NEW p \in Packs, NEW need \in SUBSET Capabilities, NEW connector \in Connectors,
               BeginExecute(c, kind, t, token, p, need, connector)
        PROVE  EvidenceInv'
    <2> DEFINE k == [NoCall EXCEPT !.kind = kind, !.task = t, !.token = token,
                                   !.pack = p, !.need = need, !.connector = connector,
                                   !.now = clock, !.revoked = Revoked(token)]
    <2>1. token \in CapabilityToken /\ Revoked(token) \in BOOLEAN
      BY DEF KernelInv, KernelTypeOK, PolicyTypeOK, Revoked, GenerationRevoked
    <2>2. k \in Call /\ k.kind = kind
      BY <2>1, NoCallType DEF Call, Kinds, KernelInv, KernelTypeOK
    <2>3. Begin(c, "authorize", k) /\ effects' = effects /\ log' = log
      BY <1>1 DEF BeginExecute
    <2> HIDE DEF k
    <2>4. kind \in Kinds \ {"none"}
      BY DEF Kinds, ExecuteKinds
    <2> QED BY <2>2, <2>3, <2>4, EvidenceBegin
  <1>2. ASSUME NEW kind \in ExecuteKinds, NEW t \in Tasks \cup {NoTask}, NEW token \in held,
               NEW p \in Packs, NEW need \in SUBSET Capabilities, NEW connector \in Connectors,
               RejectExecute(c, kind, t, token, p, need, connector)
        PROVE  EvidenceInv'
    <2>1. /\ at[c] = "idle" /\ calls' = calls + 1 /\ UNCHANGED <<at, call, effects, log>>
          /\ made' = [made EXCEPT ![calls + 1] =
                         [kind |-> kind, task |-> t, res |-> "rejected"]]
      BY <1>2 DEF RejectExecute
    <2>2. ~(calls + 1 <= calls)
      BY MaxCallsAssumption DEF KernelInv, KernelTypeOK
    <2>3. \A n \in CallIds : made'[n] = made[n] \/ (n = calls + 1 /\ made'[n].res = "rejected")
      BY <2>1 DEF KernelInv, KernelTypeOK
    <2>4. \A n \in CallIds : made'[n] = made[n] \/ (~(n <= calls) /\ EvidenceFor(n)')
      BY <2>2, <2>3 DEF EvidenceFor
    <2>5. OwnEvidence(c)' /\ ~Inside(c)' /\ Alone(c) /\ Grown
      BY <2>1 DEF OwnEvidence, Inside, Governed, Alone, Grown
    <2> QED BY <2>1, <2>4, <2>5, EvidenceFrame
  <1>3. ASSUME at[c] \in Governed, NEW step \in Governed, at' = [at EXCEPT ![c] = step],
               UNCHANGED <<call, calls, made, effects, log>>
        PROVE  EvidenceInv'
    <2>1. /\ Inside(c) /\ Inside(c)' /\ Alone(c) /\ Grown
          /\ at'[c] \notin {"event", "record"}
      BY <1>3 DEF Inside, Alone, Grown, Governed, KernelInv, KernelTypeOK
    <2> QED BY <1>3, <2>1, EvidenceMove
  <1>4. ASSUME at[c] \in Governed, at' = [at EXCEPT ![c] = "event"],
               call' = [call EXCEPT ![c] = Owing(c, "AuthorizationDenied")],
               UNCHANGED <<calls, made, effects, log>>
        PROVE  EvidenceInv'
    BY <1>4, EvidenceOwe
  <1>5. CASE Lookup(c)
    <2>1. at[c] \in Governed /\ "authorizing" \in Governed
      BY <1>5 DEF Lookup, Governed
    <2> QED BY <1>3, <1>4, <1>5, <2>1 DEF Lookup, Owe
  <1>6. CASE CheckToken(c)
    <2>1. at[c] \in Governed /\ "extend" \in Governed
      BY <1>6 DEF CheckToken, Governed
    <2>2. CASE verdict'[c] = "allowed"
      BY <1>3, <1>6, <2>1, <2>2 DEF CheckToken, AfterVerdict
    <2>3. CASE verdict'[c] # "allowed"
      BY <1>4, <1>6, <2>1, <2>3 DEF CheckToken, AfterVerdict
    <2> QED BY <2>2, <2>3
  <1>7. ASSUME NEW allow \in BOOLEAN, Extend(c, allow) PROVE EvidenceInv'
    <2>1. at[c] \in Governed /\ "running" \in Governed
      BY <1>7 DEF Extend, Governed
    <2> QED BY <1>3, <1>4, <1>7, <2>1 DEF Extend, Owe
  <1>8. CASE AdapterOk(c)
    <2>1. at[c] \in Governed
      BY <1>8 DEF AdapterOk, Governed
    <2> QED BY <1>8, <2>1, EvidenceOwe DEF AdapterOk, Owe
  <1>9. ASSUME NEW acted \in BOOLEAN, AdapterErr(c, acted) \/ Drop(c, acted)
        PROVE  EvidenceInv'
    <2>1. /\ at[c] = "running" /\ calls' = calls /\ log' = log
          /\ effects' = effects \/ effects' = effects \cup {call[c].n}
          /\ at' = [at EXCEPT ![c] = "idle"] /\ call' = [call EXCEPT ![c] = NoCall]
          /\ \/ made' = [made EXCEPT ![call[c].n].res = "adapter_error"]
             \/ made' = [made EXCEPT ![call[c].n].res = "dropped"]
      BY <1>9 DEF AdapterErr, Drop, Return
    <2>2. Inside(c) /\ Alone(c) /\ Grown /\ at'[c] = "idle"
      BY <2>1 DEF Inside, Alone, Grown, KernelInv, KernelTypeOK
    <2> QED BY <2>1, <2>2, EvidenceEnd
  <1> QED BY <1>1, <1>2, <1>5, <1>6, <1>7, <1>8, <1>9 DEF ExecuteStep

\* The last child has the event too: it is in every sink.
LEMMA LastSink ==
  ASSUME KernelInv, AuditInv, NEW c \in Callers, at[c] = "record", call[c].sink = NumSinks,
         log' = [log EXCEPT ![call[c].sink] = @ \cup {CurrentEvent(c)}],
         NEW n, n = call[c].n, NEW e, e = call[c].event
  PROVE  RecordedEverywhere(n, e)'
  <1>1. CurrentEvent(c).call = n /\ CurrentEvent(c).kind = e
    BY DEF CurrentEvent
  <1>2. \A s \in Sinks : s < NumSinks \/ s = NumSinks
    BY NumSinksAssumption DEF Sinks
  <1>3. \A s \in Sinks : CurrentEvent(c) \in log'[s]
    BY <1>2 DEF AuditInv, EarlierSinks, KernelInv, KernelTypeOK
  <1> QED BY <1>1, <1>3 DEF RecordedEverywhere

LEMMA EvidenceAuditStep ==
  ASSUME KernelInv, AuditInv, EvidenceInv, NEW c \in Callers,
         NewEvent(c) \/ Record(c) \/ \E written \in BOOLEAN : RecordFails(c, written)
  PROVE  EvidenceInv'
  <1>1. at[c] \in {"event", "record"} /\ Inside(c) /\ at[c] \notin Governed
    BY DEF NewEvent, Record, RecordFails, Inside, Governed
  <1>2. OwnEvidence(c) /\ Owed(call[c]) /\ call[c] \in Call
    BY <1>1 DEF EvidenceInv, OwnEvidence, KernelInv, KernelTypeOK
  <1>3. effects' = effects /\ calls' = calls /\ Grown
    BY <1>1, RecordFacts DEF NewEvent, Record, RecordFails, Grown, KernelInv, KernelTypeOK
  \* The call stays where it owes the event it owed.
  <1>4. ASSUME Alone(c), made' = made, at'[c] \in {"event", "record"},
               call'[c].n = call[c].n, call'[c].kind = call[c].kind,
               call'[c].event = call[c].event
        PROVE  EvidenceInv'
    <2>1. Owed(call[c])'
      BY <1>2, <1>3, <1>4, RecordedStays DEF Owed
    <2>2. Inside(c)' /\ at'[c] \notin Governed
      BY <1>4 DEF Inside, Governed
    <2> QED BY <1>1, <1>3, <1>4, <2>1, <2>2, EvidenceMove
  <1>5. CASE NewEvent(c)
    <2>1. /\ Alone(c) /\ made' = made /\ at'[c] = "record"
          /\ call'[c] = [call[c] EXCEPT !.eid = NextEventId, !.sink = 1]
      BY <1>5 DEF NewEvent, Alone, KernelInv, KernelTypeOK
    <2>2. /\ call'[c].n = call[c].n /\ call'[c].kind = call[c].kind
          /\ call'[c].event = call[c].event
      BY <1>2, <2>1 DEF Call
    <2> QED BY <1>4, <2>1, <2>2
  <1>6. ASSUME NEW written \in BOOLEAN, RecordFails(c, written) PROVE EvidenceInv'
    <2>1. /\ made' = [made EXCEPT ![call[c].n].res = "audit_error"]
          /\ at'[c] = "idle" /\ Alone(c)
      BY <1>6 DEF RecordFails, Return, Alone, KernelInv, KernelTypeOK
    <2> QED BY <1>1, <1>3, <2>1, EvidenceEnd
  <1>7. CASE Record(c)
    <2>1. at[c] = "record" /\ log' = [log EXCEPT ![call[c].sink] = @ \cup {CurrentEvent(c)}]
      BY <1>7 DEF Record
    <2>2. CASE /\ call' = [call EXCEPT ![c].sink = call[c].sink + 1]
               /\ UNCHANGED <<at, made, held, task>>
      <3>1. /\ Alone(c) /\ made' = made /\ at'[c] = "record"
            /\ call'[c] = [call[c] EXCEPT !.sink = call[c].sink + 1]
        BY <2>1, <2>2 DEF Alone, KernelInv, KernelTypeOK
      <3>2. /\ call'[c].n = call[c].n /\ call'[c].kind = call[c].kind
            /\ call'[c].event = call[c].event
        BY <1>2, <3>1 DEF Call
      <3> QED BY <1>4, <3>1, <3>2
    <2>3. CASE /\ call[c].sink = NumSinks /\ FollowingEvent(call[c].event) # "none"
               /\ call' = [call EXCEPT ![c].event = FollowingEvent(call[c].event)]
               /\ at' = [at EXCEPT ![c] = "event"]
               /\ UNCHANGED <<made, held, task>>
      <3>1. call[c].event = "ConnectorInvoked"
        BY <2>3 DEF FollowingEvent
      <3>2. /\ call'[c] = [call[c] EXCEPT !.event = "PlaneInvoked"]
            /\ Alone(c) /\ at'[c] = "event"
        BY <2>3, <3>1 DEF FollowingEvent, Alone, KernelInv, KernelTypeOK
      <3>3. /\ call'[c].n = call[c].n /\ call'[c].kind = call[c].kind
            /\ call'[c].event = "PlaneInvoked"
        BY <1>2, <3>2 DEF Call
      <3>4. call[c].kind \in Kinds \ {"none"}
        BY <1>1, <1>2 DEF OwnEvidence
      <3>5. call[c].kind = "connector" /\ call[c].n \in effects
        BY <1>2, <3>1, <3>4 DEF Owed, Evidence, Kinds, ExecuteKinds
      <3>6. \A n : n = call[c].n => RecordedEverywhere(n, "ConnectorInvoked")'
        BY <2>1, <2>3, <3>1, LastSink
      <3>7. Owed(call[c])'
        BY <1>3, <3>3, <3>5, <3>6 DEF Owed, Evidence
      <3>8. Inside(c)' /\ at'[c] \notin Governed
        BY <3>2 DEF Inside, Governed
      <3> QED BY <1>1, <1>3, <2>3, <3>2, <3>3, <3>7, <3>8, EvidenceMove
    <2>4. CASE call[c].sink = NumSinks /\ FollowingEvent(call[c].event) = "none"
               /\ Return(c, ResultOf(call[c].event))
      <3>1. /\ made' = [made EXCEPT ![call[c].n].res = ResultOf(call[c].event)]
            /\ at'[c] = "idle" /\ Alone(c)
        BY <2>4 DEF Return, Alone, KernelInv, KernelTypeOK
      <3> DEFINE n == call[c].n
                 e == call[c].event
      <3>2. PICK m, f : m = n /\ f = e
        OBVIOUS
      <3>3. RecordedEverywhere(m, f)'
        BY <2>1, <2>4, <3>2, LastSink
      <3>4. call[c].kind \in Kinds \ {"none"}
        BY <1>1, <1>2 DEF OwnEvidence
      <3>5. CASE e = "AuthorizationDenied"
        <4>1. ResultOf(e) = "denied" /\ m \notin effects'
          BY <1>2, <1>3, <3>2, <3>5 DEF ResultOf, Owed, Evidence, Kinds, ExecuteKinds
        <4>2. RecordedEverywhere(m, "AuthorizationDenied")'
          BY <3>2, <3>3, <3>5
        <4> QED BY <1>1, <1>3, <3>1, <3>2, <4>1, <4>2, EvidenceEnd
      <3>6. CASE e # "AuthorizationDenied"
        <4>1. ResultOf(e) = "ok"
          BY <3>6 DEF ResultOf
        <4>2. call[c].kind \in ExecuteKinds => m \in effects'
          BY <1>2, <1>3, <3>2, <3>6 DEF Owed
        <4>3. \A kind \in Evidence(call[c].kind) :
                 kind = f \/ (kind = "ConnectorInvoked" /\ RecordedEverywhere(m, kind))
          BY <1>2, <2>4, <3>2, <3>4, <3>6
             DEF Owed, Evidence, Kinds, ExecuteKinds, FollowingEvent
        <4>4. \A kind \in Evidence(call[c].kind) : RecordedEverywhere(m, kind)'
          BY <1>3, <3>3, <4>3, RecordedStays
        <4> QED BY <1>1, <1>3, <3>1, <3>2, <4>1, <4>2, <4>4, EvidenceEnd
      <3> QED BY <3>5, <3>6
    <2> QED BY <1>7, <2>2, <2>3, <2>4 DEF Record, AfterRecord
  <1> QED BY <1>5, <1>6, <1>7

LEMMA EvidenceInvariant == Spec => []EvidenceInv
  <1>1. Init => EvidenceInv
    BY DEF Init, EvidenceInv, OwnEvidence, NumbersDistinct, EvidenceFor, Inside, Governed, NotMade
  <1>2. KernelInv /\ AuditInv /\ EvidenceInv /\ [Next]_vars => EvidenceInv'
    <2> SUFFICES ASSUME KernelInv, AuditInv, EvidenceInv, [Next]_vars PROVE EvidenceInv'
      OBVIOUS
    <2>1. CASE UNCHANGED vars \/ Tick \/ \E p \in Packs, m \in Manifests : RegisterPack(p, m)
      <3>1. UNCHANGED <<log, effects, at, call, calls, made>>
        BY <2>1 DEF vars, kernelVars, Tick, RegisterPack
      <3>2. \A c \in Callers : OwnEvidence(c)'
        BY <3>1 DEF EvidenceInv, OwnEvidence, Inside, Owed, RecordedEverywhere
      <3>3. NumbersDistinct' /\ \A n \in effects' : n <= calls'
        BY <3>1 DEF EvidenceInv, NumbersDistinct, Inside
      <3>4. \A n \in CallIds : EvidenceFor(n)'
        BY <3>1 DEF EvidenceInv, EvidenceFor, RecordedEverywhere
      <3> QED BY <3>2, <3>3, <3>4 DEF EvidenceInv
    <2>2. CASE \E c \in Callers : TokenStep(c) \/ ExecuteStep(c) \/ AuditStep(c)
      BY <2>2, EvidenceTokenStep, EvidenceExecuteStep, EvidenceAuditStep DEF AuditStep
    <2> QED BY <2>1, <2>2 DEF Next
  <1> QED BY <1>1, <1>2, KernelInvariant, AuditInvariant, PTL DEF Spec

-----------------------------------------------------------------------------
(* Theorems                                                                *)

\* The fan-out never lets a later sink run ahead of the journal, whatever
\* sinks fail and however the calls interleave.
THEOREM JournalIsFirst == Spec => []JournalFirst
  BY AuditInvariant, PTL DEF AuditInv

\* Concurrent calls never share an event id, within a sink or across sinks.
THEOREM EventIdsAreUnique == Spec => []EventIdsUnique
  BY AuditInvariant, PTL DEF AuditInv

\* No two calls of one supervised task take effect: neither a drop nor a
\* failing audit record makes a task Runnable again.
THEOREM TasksActOnce == Spec => []TaskActsOnce
  <1>1. KernelInv /\ TaskInv => TaskActsOnce
    BY DEF KernelInv, KernelTypeOK, TaskInv, TaskActsOnce
  <1> QED BY <1>1, KernelInvariant, TaskInvariant, PTL

\* A call that reports success has left every event it owes in every sink and
\* its adapter has acted; a call reported as denied has left its denial there
\* and its adapter has not.
THEOREM SuccessHasEvidence == Spec => []EvidenceBeforeOk
  <1>1. EvidenceInv => EvidenceBeforeOk
    BY DEF EvidenceInv, EvidenceFor, EvidenceBeforeOk
  <1> QED BY <1>1, EvidenceInvariant, PTL

=============================================================================
