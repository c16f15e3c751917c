---------------------------- MODULE PolicyEngine ----------------------------
(***************************************************************************)
(* The capability-token authority of the kernel: StaticPolicyEngine of     *)
(* crates/kernel/src/policy.rs.  The engine is shared by every caller of   *)
(* the kernel (&self, no lock around a whole method), so one action here   *)
(* is one atomic access: a fetch_add, a fetch_max, a load, or one critical *)
(* section of the revoked_tokens mutex.  issue_token, revoke_generation    *)
(* and authorize each make two of them, and a step of another caller can   *)
(* fall in between.                                                        *)
(***************************************************************************)
EXTENDS Integers, FiniteSets

CONSTANTS
    Callers,        \* threads or tasks inside a method of the engine
    Packs,          \* pack identifiers
    Capabilities,   \* the Capability enumeration
    MaxGeneration,  \* bound on the thresholds and ids that are revoked
    MaxTime         \* the largest epoch second (u64::MAX in the code)

ASSUME MaxGenerationAssumption == MaxGeneration \in Nat
ASSUME MaxTimeAssumption == MaxTime \in Nat
ASSUME PacksAssumption == Packs # {}

VARIABLES
    tokenSeq,       \* token_seq
    generation,     \* generation
    revokedBelow,   \* revoked_below_generation
    revokedTokens,  \* revoked_tokens
    tokens,         \* every token issue_token has built (history)
    pc,             \* where each caller is inside the engine
    tok,            \* the token a caller is building or presenting
    request,        \* the arguments of a caller's last authorize
    below,          \* the argument of a caller's revoke_generation
    verdict,        \* what a caller's last authorize returned
    doomed          \* was tok[c] already revoked when authorize was called?

engineVars == <<tokenSeq, generation, revokedBelow, revokedTokens, tokens>>
callVars   == <<pc, tok, request, below, verdict, doomed>>
policyVars == <<tokenSeq, generation, revokedBelow, revokedTokens, tokens,
                pc, tok, request, below, verdict, doomed>>

-----------------------------------------------------------------------------
(* Types                                                                   *)

Time == 0..MaxTime

CapabilityToken ==
    [id : Nat, pack : Packs, caps : SUBSET Capabilities,
     expires : Time, gen : Nat]

Request == [pack : Packs, now : Time, need : SUBSET Capabilities]

EngineStep == {"idle", "next_id", "raise", "check"}

Verdicts ==
    {"none", "allowed", "RevokedToken", "PackMismatch", "ExpiredToken",
     "MissingCapability"}

\* The null token and request a caller starts with; no token has id 0.
NoToken ==
    [id |-> 0, pack |-> CHOOSE p \in Packs : TRUE, caps |-> {},
     expires |-> 0, gen |-> 0]
NoRequest == [pack |-> CHOOSE p \in Packs : TRUE, now |-> 0, need |-> {}]

-----------------------------------------------------------------------------
(* Helpers                                                                 *)

Larger(m, n) == IF m >= n THEN m ELSE n

\* u64::saturating_add, and the bug of a plain addition.
WrongAdd(now, ttl) == now + ttl
SaturatingAdd(now, ttl) == IF now + ttl > MaxTime THEN MaxTime ELSE now + ttl

\* The two ways a token is dead: by id, or by the generation threshold (from
\* which generation 0 is exempt).
GenerationRevoked(t) == t.gen > 0 /\ t.gen <= revokedBelow
Revoked(t) == t.id \in revokedTokens \/ GenerationRevoked(t)

\* The caller enters another method than authorize: the locals of its last
\* authorize are gone.
NewCall(c) ==
    /\ request' = [request EXCEPT ![c] = NoRequest]
    /\ verdict' = [verdict EXCEPT ![c] = "none"]
    /\ doomed' = [doomed EXCEPT ![c] = FALSE]

-----------------------------------------------------------------------------
(* Operations                                                              *)

\* issue_token, first half: generation.fetch_add(1), and the fields of the
\* token that need no counter.
IssueGeneration(c, p, caps, now, ttl) ==
    /\ pc[c] = "idle"
    /\ generation' = generation + 1
    /\ tok' = [tok EXCEPT ![c] =
                 [id |-> 0, pack |-> p, caps |-> caps,
                  expires |-> SaturatingAdd(now, ttl), gen |-> generation + 1]]
    /\ pc' = [pc EXCEPT ![c] = "next_id"]
    /\ NewCall(c)
    /\ UNCHANGED <<tokenSeq, revokedBelow, revokedTokens, tokens, below>>

\* The token next_token_id completes (and the bug of loading the generation
\* again when it does).
ReloadedToken(c) == [tok[c] EXCEPT !.id = tokenSeq + 1, !.gen = generation]
NextToken(c) == [tok[c] EXCEPT !.id = tokenSeq + 1]

\* issue_token, second half: token_seq.fetch_add(1) in next_token_id.
IssueId(c) ==
    /\ pc[c] = "next_id"
    /\ tokenSeq' = tokenSeq + 1
    /\ tok' = [tok EXCEPT ![c] = NoToken]
    /\ tokens' = tokens \cup {NextToken(c)}
    /\ pc' = [pc EXCEPT ![c] = "idle"]
    /\ UNCHANGED <<generation, revokedBelow, revokedTokens,
                   request, below, verdict, doomed>>

\* revoke_token: one insertion under the mutex, for whatever id it is given.
RevokeToken(c, id) ==
    /\ pc[c] = "idle"
    /\ revokedTokens' = revokedTokens \cup {id}
    /\ tok' = [tok EXCEPT ![c] = NoToken]
    /\ NewCall(c)
    /\ UNCHANGED <<tokenSeq, generation, revokedBelow, tokens, pc, below>>

\* revoke_generation, first half: revoked_below_generation.fetch_max(below).
\* (StoredThreshold: a plain store.)
StoredThreshold(b) == b
RaisedThreshold(b) == Larger(revokedBelow, b)

RevokeGeneration(c, b) ==
    /\ pc[c] = "idle"
    /\ revokedBelow' = RaisedThreshold(b)
    /\ below' = [below EXCEPT ![c] = b]
    /\ pc' = [pc EXCEPT ![c] = "raise"]
    /\ tok' = [tok EXCEPT ![c] = NoToken]
    /\ NewCall(c)
    /\ UNCHANGED <<tokenSeq, generation, revokedTokens, tokens>>

\* revoke_generation, second half: generation.fetch_max(below).
\* (NotForwarded: left out.  ForwardStored: a plain store.)
NotForwarded(c) == generation
ForwardStored(c) == below[c]
FastForwarded(c) == Larger(generation, below[c])

RaiseGeneration(c) ==
    /\ pc[c] = "raise"
    /\ generation' = FastForwarded(c)
    /\ below' = [below EXCEPT ![c] = 0]
    /\ pc' = [pc EXCEPT ![c] = "idle"]
    /\ UNCHANGED <<tokenSeq, revokedBelow, revokedTokens, tokens,
                   tok, request, verdict, doomed>>

\* authorize, first half: the lookup in revoked_tokens, which answers at once
\* for a token revoked by id.
AuthorizeLookup(c, t, p, now, need) ==
    /\ pc[c] = "idle"
    /\ doomed' = [doomed EXCEPT ![c] = Revoked(t)]
    /\ \/ /\ t.id \in revokedTokens
          /\ verdict' = [verdict EXCEPT ![c] = "RevokedToken"]
          /\ tok' = [tok EXCEPT ![c] = NoToken]
          /\ request' = [request EXCEPT ![c] = NoRequest]
          /\ pc' = pc
       \/ /\ t.id \notin revokedTokens
          /\ verdict' = [verdict EXCEPT ![c] = "none"]
          /\ tok' = [tok EXCEPT ![c] = t]
          /\ request' = [request EXCEPT ![c] =
                            [pack |-> p, now |-> now, need |-> need]]
          /\ pc' = [pc EXCEPT ![c] = "check"]
    /\ UNCHANGED <<tokenSeq, generation, revokedBelow, revokedTokens, tokens, below>>

\* What authorize answers once the threshold has been loaded, in the order
\* in which the code tests.
Decision(t, r) ==
    CASE GenerationRevoked(t)     -> "RevokedToken"
      [] ~GenerationRevoked(t) /\ t.pack # r.pack -> "PackMismatch"
      [] ~GenerationRevoked(t) /\ t.pack = r.pack /\ r.now > t.expires
            -> "ExpiredToken"
      [] ~GenerationRevoked(t) /\ t.pack = r.pack /\ r.now <= t.expires
            /\ ~(r.need \subseteq t.caps) -> "MissingCapability"
      [] OTHER -> "allowed"

\* authorize, second half: the load of the threshold and the tests that only
\* read the token and the arguments.
AuthorizeCheck(c) ==
    /\ pc[c] = "check"
    /\ verdict' = [verdict EXCEPT ![c] = Decision(tok[c], request[c])]
    /\ pc' = [pc EXCEPT ![c] = "idle"]
    /\ tok' = [tok EXCEPT ![c] = NoToken]
    /\ request' = [request EXCEPT ![c] = NoRequest]
    /\ UNCHANGED <<tokenSeq, generation, revokedBelow, revokedTokens, tokens,
                   below, doomed>>

-----------------------------------------------------------------------------
(* Specification                                                           *)

PolicyInit ==
    /\ tokenSeq = 0
    /\ generation = 0
    /\ revokedBelow = 0
    /\ revokedTokens = {}
    /\ tokens = {}
    /\ pc = [c \in Callers |-> "idle"]
    /\ tok = [c \in Callers |-> NoToken]
    /\ request = [c \in Callers |-> NoRequest]
    /\ below = [c \in Callers |-> 0]
    /\ verdict = [c \in Callers |-> "none"]
    /\ doomed = [c \in Callers |-> FALSE]

\* Any id may be revoked: the string comes from the caller.  MaxGeneration
\* also bounds the ids worth trying, one token per generation.
PolicyStep(c) ==
    \/ \E p \in Packs, caps \in SUBSET Capabilities, now, ttl \in Time :
          IssueGeneration(c, p, caps, now, ttl)
    \/ IssueId(c)
    \/ \E id \in 1..MaxGeneration : RevokeToken(c, id)
    \/ \E b \in 0..MaxGeneration : RevokeGeneration(c, b)
    \/ RaiseGeneration(c)
    \/ \E t \in tokens, p \in Packs, now \in Time, need \in SUBSET Capabilities :
          AuthorizeLookup(c, t, p, now, need)
    \/ AuthorizeCheck(c)

PolicyNext == \E c \in Callers : PolicyStep(c)

PolicySpec == PolicyInit /\ [][PolicyNext]_policyVars

-----------------------------------------------------------------------------
(* Properties                                                              *)

\* Type invariant: every expiry is a representable second (saturating_add),
\* every counter a natural, every caller at a known step.
PolicyTypeOK ==
    /\ tokenSeq \in Nat
    /\ generation \in Nat
    /\ revokedBelow \in Nat
    /\ revokedTokens \subseteq Nat
    /\ tokens \subseteq CapabilityToken
    /\ pc \in [Callers -> EngineStep]
    /\ tok \in [Callers -> CapabilityToken]
    /\ request \in [Callers -> Request]
    /\ below \in [Callers -> Nat]
    /\ verdict \in [Callers -> Verdicts]
    /\ doomed \in [Callers -> BOOLEAN]

\* Revocation is never undone under a caller's feet: an authorize called with
\* a token that is already revoked, by id or by generation, does not allow it,
\* whatever the other callers revoke between its lookup and its load.
RevokedNeverAllowed ==
    \A c \in Callers : doomed[c] => verdict[c] # "allowed"

\* Concurrent calls of issue_token never hand out two tokens with the same id
\* or the same generation, although the two counters are bumped separately.
TokensDistinct ==
    \A s, t \in tokens : s.id = t.id \/ s.gen = t.gen => s = t

\* The threshold only grows, a revoked id stays revoked, and the generation
\* counter never runs backwards (docs/RELIABILITY.md, kernel invariant 4).
RevocationMonotonic ==
    [][ /\ revokedBelow' >= revokedBelow
        /\ generation' >= generation
        /\ revokedTokens \subseteq revokedTokens' ]_policyVars

\* "Fast-forward generation so newly issued tokens won't be immediately
\* revoked": unless some revoke_generation is between its two steps, a call
\* of issue_token takes a generation above the threshold.
FreshTokenIsLive ==
    [][ \A c \in Callers :
          /\ pc[c] = "idle" /\ pc'[c] = "next_id"
          /\ \A d \in Callers : pc[d] # "raise"
          => tok'[c].gen > revokedBelow ]_policyVars
=============================================================================
