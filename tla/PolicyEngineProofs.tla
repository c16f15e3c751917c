------------------------- MODULE PolicyEngineProofs -------------------------
(***************************************************************************)
(* What StaticPolicyEngine guarantees for any number of callers, packs,    *)
(* capabilities and generations.  PolicyInv is the inductive invariant; it *)
(* adds to the properties what a step between the two halves of a method   *)
(* relies on:                                                              *)
(*   - the threshold overtakes the generation counter only while a caller  *)
(*     still has to raise the counter (ThresholdCovered);                  *)
(*   - the generations being issued are taken from the counter and belong  *)
(*     to nobody else (CountersBound, DraftsDistinct);                     *)
(*   - a token that was dead when authorize was entered is dead by         *)
(*     generation if the lookup let it through (DoomedByGeneration).       *)
(***************************************************************************)
EXTENDS PolicyEngine, TLAPS

ThresholdCovered ==
    \/ revokedBelow <= generation
    \/ \E c \in Callers : pc[c] = "raise" /\ below[c] >= revokedBelow

CountersBound ==
    /\ \A t \in tokens : t.id <= tokenSeq /\ t.gen <= generation
    /\ \A c \in Callers : pc[c] = "next_id" => tok[c].gen <= generation

DraftsDistinct ==
    \A c \in Callers : pc[c] = "next_id" =>
        /\ \A t \in tokens : t.gen # tok[c].gen
        /\ \A d \in Callers : pc[d] = "next_id" /\ tok[d].gen = tok[c].gen => c = d

DoomedByGeneration ==
    \A c \in Callers : pc[c] = "check" =>
        /\ verdict[c] = "none"
        /\ doomed[c] => GenerationRevoked(tok[c])

PolicyInv ==
    /\ PolicyTypeOK
    /\ ThresholdCovered
    /\ CountersBound
    /\ DraftsDistinct
    /\ TokensDistinct
    /\ DoomedByGeneration
    /\ RevokedNeverAllowed

-----------------------------------------------------------------------------
(* Lemmas on the operators                                                 *)

\* u64::saturating_add stays within the representable times.
LEMMA SaturatingAddType ==
    ASSUME NEW now \in Time, NEW ttl \in Time
    PROVE  SaturatingAdd(now, ttl) \in Time
  BY MaxTimeAssumption DEF SaturatingAdd, Time

\* authorize answers with one of its verdicts, and never allows a token whose
\* generation is at or below the threshold.
LEMMA DecisionSound ==
    ASSUME NEW t \in CapabilityToken, NEW r \in Request
    PROVE  /\ Decision(t, r) \in Verdicts
           /\ GenerationRevoked(t) => Decision(t, r) # "allowed"
  <1>1. CASE GenerationRevoked(t)
    BY <1>1 DEF Decision, Verdicts
  <1>2. CASE ~GenerationRevoked(t)
    BY <1>2 DEF Decision, Verdicts
  <1> QED BY <1>1, <1>2

\* The null values a caller starts with have the types of real ones.
LEMMA NullTypes == NoToken \in CapabilityToken /\ NoRequest \in Request
  <1>1. (CHOOSE p \in Packs : TRUE) \in Packs
    BY PacksAssumption
  <1> QED BY <1>1, MaxTimeAssumption
      DEF NoToken, NoRequest, CapabilityToken, Request, Time

-----------------------------------------------------------------------------
(* Type correctness                                                        *)

\* Every action keeps every variable of the engine in its type.
LEMMA TypeStep ==
    ASSUME PolicyTypeOK, [PolicyNext]_policyVars
    PROVE  PolicyTypeOK'
  <1> USE NullTypes, MaxGenerationAssumption DEF PolicyTypeOK, EngineStep
  <1>1. ASSUME NEW c \in Callers, NEW p \in Packs, NEW caps \in SUBSET Capabilities,
               NEW now \in Time, NEW ttl \in Time,
               IssueGeneration(c, p, caps, now, ttl)
        PROVE  PolicyTypeOK'
    <2>1. SaturatingAdd(now, ttl) \in Time
      BY SaturatingAddType
    <2>2. [id |-> 0, pack |-> p, caps |-> caps,
           expires |-> SaturatingAdd(now, ttl), gen |-> generation + 1] \in CapabilityToken
      BY <2>1 DEF CapabilityToken
    <2> QED BY <1>1, <2>2 DEF IssueGeneration, NewCall, Verdicts
  <1>2. ASSUME NEW c \in Callers, IssueId(c) PROVE PolicyTypeOK'
    <2>1. NextToken(c) \in CapabilityToken
      BY DEF NextToken, CapabilityToken
    <2> QED BY <1>2, <2>1 DEF IssueId
  <1>3. ASSUME NEW c \in Callers, NEW id \in 1..MaxGeneration, RevokeToken(c, id)
        PROVE  PolicyTypeOK'
    BY <1>3 DEF RevokeToken, NewCall, Verdicts
  <1>4. ASSUME NEW c \in Callers, NEW b \in 0..MaxGeneration, RevokeGeneration(c, b)
        PROVE  PolicyTypeOK'
    BY <1>4 DEF RevokeGeneration, RaisedThreshold, Larger, NewCall, Verdicts
  <1>5. ASSUME NEW c \in Callers, RaiseGeneration(c) PROVE PolicyTypeOK'
    BY <1>5 DEF RaiseGeneration, FastForwarded, Larger
  <1>6. ASSUME NEW c \in Callers, NEW t \in tokens, NEW p \in Packs, NEW now \in Time,
               NEW need \in SUBSET Capabilities, AuthorizeLookup(c, t, p, now, need)
        PROVE  PolicyTypeOK'
    <2>1. Revoked(t) \in BOOLEAN
      BY DEF Revoked, GenerationRevoked
    <2>2. doomed' \in [Callers -> BOOLEAN]
      BY <1>6, <2>1 DEF AuthorizeLookup
    <2>3. [pack |-> p, now |-> now, need |-> need] \in Request /\ t \in CapabilityToken
      BY DEF Request
    <2> QED BY <1>6, <2>2, <2>3 DEF AuthorizeLookup, Verdicts
  <1>7. ASSUME NEW c \in Callers, AuthorizeCheck(c) PROVE PolicyTypeOK'
    <2>1. Decision(tok[c], request[c]) \in Verdicts
      BY DecisionSound
    <2> QED BY <1>7, <2>1 DEF AuthorizeCheck
  <1>8. CASE UNCHANGED policyVars
    BY <1>8 DEF policyVars
  <1> QED
    BY <1>1, <1>2, <1>3, <1>4, <1>5, <1>6, <1>7, <1>8 DEF PolicyNext, PolicyStep

\* The engine's variables keep their types in every behaviour.
THEOREM PolicyTypeCorrect == PolicySpec => []PolicyTypeOK
  <1>1. PolicyInit => PolicyTypeOK
    BY NullTypes DEF PolicyInit, PolicyTypeOK, EngineStep, Verdicts
  <1>2. PolicyTypeOK /\ [PolicyNext]_policyVars => PolicyTypeOK'
    BY TypeStep
  <1> QED BY <1>1, <1>2, PTL DEF PolicySpec

-----------------------------------------------------------------------------
(* The inductive invariant                                                 *)

\* Revocation and the generation counter only move forward, in any step.
LEMMA MonotoneStep ==
    ASSUME PolicyTypeOK, [PolicyNext]_policyVars
    PROVE  /\ revokedBelow' >= revokedBelow
           /\ generation' >= generation
           /\ revokedTokens \subseteq revokedTokens'
  <1> USE MaxGenerationAssumption DEF PolicyTypeOK
  <1>1. ASSUME NEW c \in Callers, NEW p \in Packs, NEW caps \in SUBSET Capabilities,
               NEW now \in Time, NEW ttl \in Time,
               IssueGeneration(c, p, caps, now, ttl)
        PROVE  /\ revokedBelow' >= revokedBelow
               /\ generation' >= generation
               /\ revokedTokens \subseteq revokedTokens'
    BY <1>1 DEF IssueGeneration
  <1>2. ASSUME NEW c \in Callers, IssueId(c)
        PROVE  /\ revokedBelow' >= revokedBelow
               /\ generation' >= generation
               /\ revokedTokens \subseteq revokedTokens'
    BY <1>2 DEF IssueId
  <1>3. ASSUME NEW c \in Callers, NEW id \in 1..MaxGeneration, RevokeToken(c, id)
        PROVE  /\ revokedBelow' >= revokedBelow
               /\ generation' >= generation
               /\ revokedTokens \subseteq revokedTokens'
    BY <1>3 DEF RevokeToken
  <1>4. ASSUME NEW c \in Callers, NEW b \in 0..MaxGeneration, RevokeGeneration(c, b)
        PROVE  /\ revokedBelow' >= revokedBelow
               /\ generation' >= generation
               /\ revokedTokens \subseteq revokedTokens'
    BY <1>4 DEF RevokeGeneration, RaisedThreshold, Larger
  <1>5. ASSUME NEW c \in Callers, RaiseGeneration(c)
        PROVE  /\ revokedBelow' >= revokedBelow
               /\ generation' >= generation
               /\ revokedTokens \subseteq revokedTokens'
    BY <1>5 DEF RaiseGeneration, FastForwarded, Larger
  <1>6. ASSUME NEW c \in Callers, NEW t \in tokens, NEW p \in Packs, NEW now \in Time,
               NEW need \in SUBSET Capabilities, AuthorizeLookup(c, t, p, now, need)
        PROVE  /\ revokedBelow' >= revokedBelow
               /\ generation' >= generation
               /\ revokedTokens \subseteq revokedTokens'
    BY <1>6 DEF AuthorizeLookup
  <1>7. ASSUME NEW c \in Callers, AuthorizeCheck(c)
        PROVE  /\ revokedBelow' >= revokedBelow
               /\ generation' >= generation
               /\ revokedTokens \subseteq revokedTokens'
    BY <1>7 DEF AuthorizeCheck
  <1>8. CASE UNCHANGED policyVars
    BY <1>8 DEF policyVars
  <1> QED
    BY <1>1, <1>2, <1>3, <1>4, <1>5, <1>6, <1>7, <1>8 DEF PolicyNext, PolicyStep

\* The parts of the invariant that speak of the counters: who holds which
\* generation, and how far the threshold may be ahead of the counter.
CounterInv == ThresholdCovered /\ CountersBound /\ DraftsDistinct /\ TokensDistinct

\* Every action keeps the generations in use distinct and the threshold covered.
LEMMA CounterStep ==
    ASSUME PolicyTypeOK, CounterInv, [PolicyNext]_policyVars
    PROVE  CounterInv'
  <1> USE NullTypes, MaxGenerationAssumption
      DEF PolicyTypeOK, EngineStep, CapabilityToken
  <1> USE DEF CounterInv, ThresholdCovered, CountersBound, DraftsDistinct,
              TokensDistinct
  <1>f. ASSUME tokens' = tokens, generation' = generation, tokenSeq' = tokenSeq,
               revokedBelow' = revokedBelow, below' = below,
               \A d \in Callers : pc[d] = "raise" => pc'[d] = "raise",
               \A d \in Callers : pc'[d] = "next_id" =>
                                   pc[d] = "next_id" /\ tok'[d] = tok[d]
        PROVE  CounterInv'
    <2>1. ThresholdCovered'
      BY <1>f DEF ThresholdCovered
    <2>2. CountersBound'
      BY <1>f DEF CountersBound
    <2>3. DraftsDistinct'
      <3> SUFFICES ASSUME NEW c \in Callers, pc'[c] = "next_id"
                   PROVE  /\ \A t \in tokens' : t.gen # tok'[c].gen
                          /\ \A d \in Callers : pc'[d] = "next_id" /\ tok'[d].gen = tok'[c].gen
                                                => c = d
        BY DEF DraftsDistinct
      <3>1. pc[c] = "next_id" /\ tok'[c] = tok[c]
        BY <1>f
      <3> QED BY <1>f, <3>1 DEF DraftsDistinct
    <2>4. TokensDistinct'
      BY <1>f DEF TokensDistinct
    <2> QED BY <2>1, <2>2, <2>3, <2>4
  <1>1. ASSUME NEW c \in Callers, NEW p \in Packs, NEW caps \in SUBSET Capabilities,
               NEW now \in Time, NEW ttl \in Time,
               IssueGeneration(c, p, caps, now, ttl)
        PROVE  CounterInv'
    <2>1. tok'[c].gen = generation + 1 /\ generation' = generation + 1
      BY <1>1 DEF IssueGeneration
    <2>2. \A d \in Callers : d # c => tok'[d] = tok[d] /\ pc'[d] = pc[d]
      BY <1>1 DEF IssueGeneration
    <2>3. tokens' = tokens /\ revokedBelow' = revokedBelow /\ below' = below
             /\ tokenSeq' = tokenSeq /\ pc[c] = "idle" /\ pc'[c] = "next_id"
      BY <1>1 DEF IssueGeneration
    <2>4. ThresholdCovered'
      BY <2>1, <2>2, <2>3
    <2>5. CountersBound'
      BY <2>1, <2>2, <2>3
    <2>6. DraftsDistinct'
      BY <2>1, <2>2, <2>3
    <2> QED BY <2>3, <2>4, <2>5, <2>6
  <1>2. ASSUME NEW c \in Callers, IssueId(c) PROVE CounterInv'
    <2> DEFINE n == NextToken(c)
    <2>1. n.id = tokenSeq + 1 /\ n.gen = tok[c].gen
      BY DEF NextToken
    <2>2. tokens' = tokens \cup {n} /\ generation' = generation
             /\ revokedBelow' = revokedBelow /\ below' = below
             /\ tokenSeq' = tokenSeq + 1 /\ pc[c] = "next_id" /\ pc'[c] = "idle"
      BY <1>2 DEF IssueId
    <2>3. \A d \in Callers : d # c => tok'[d] = tok[d] /\ pc'[d] = pc[d]
      BY <1>2 DEF IssueId
    <2> HIDE DEF n
    <2>4. ThresholdCovered'
      BY <2>2, <2>3
    <2>5. CountersBound'
      BY <2>1, <2>2, <2>3
    <2>6. DraftsDistinct'
      BY <2>1, <2>2, <2>3
    <2>7. TokensDistinct'
      <3>1. \A t \in tokens : t.id # n.id /\ t.gen # n.gen
        BY <2>1, <2>2
      <3> QED BY <2>2, <3>1
    <2> QED BY <2>4, <2>5, <2>6, <2>7
  <1>3. ASSUME NEW c \in Callers, NEW id \in 1..MaxGeneration, RevokeToken(c, id)
        PROVE  CounterInv'
    <2>1. pc' = pc /\ below' = below /\ tokens' = tokens /\ generation' = generation
             /\ tokenSeq' = tokenSeq /\ revokedBelow' = revokedBelow
             /\ pc[c] = "idle" /\ \A d \in Callers : d # c => tok'[d] = tok[d]
      BY <1>3 DEF RevokeToken
    <2> QED BY <2>1, <1>f
  <1>4. ASSUME NEW c \in Callers, NEW b \in 0..MaxGeneration, RevokeGeneration(c, b)
        PROVE  CounterInv'
    <2>1. tokens' = tokens /\ generation' = generation /\ tokenSeq' = tokenSeq
             /\ pc[c] = "idle" /\ pc'[c] = "raise" /\ below'[c] = b
             /\ revokedBelow' = RaisedThreshold(b)
      BY <1>4 DEF RevokeGeneration
    <2>2. \A d \in Callers : d # c =>
             tok'[d] = tok[d] /\ pc'[d] = pc[d] /\ below'[d] = below[d]
      BY <1>4 DEF RevokeGeneration
    <2>3. ThresholdCovered'
      <3>1. CASE b >= revokedBelow
        BY <2>1, <3>1 DEF RaisedThreshold, Larger
      <3>2. CASE b < revokedBelow
        <4>1. revokedBelow' = revokedBelow
          BY <2>1, <3>2 DEF RaisedThreshold, Larger
        <4> QED BY <2>1, <2>2, <4>1
      <3> QED BY <3>1, <3>2
    <2>4. CountersBound' /\ DraftsDistinct' /\ TokensDistinct'
      BY <2>1, <2>2
    <2> QED BY <2>3, <2>4
  <1>5. ASSUME NEW c \in Callers, RaiseGeneration(c) PROVE CounterInv'
    <2>1. tokens' = tokens /\ tokenSeq' = tokenSeq /\ revokedBelow' = revokedBelow
             /\ tok' = tok /\ pc[c] = "raise" /\ pc'[c] = "idle"
             /\ generation' >= generation /\ generation' >= below[c]
             /\ generation' \in Nat
      BY <1>5 DEF RaiseGeneration, FastForwarded, Larger
    <2>2. \A d \in Callers : d # c => pc'[d] = pc[d] /\ below'[d] = below[d]
      BY <1>5 DEF RaiseGeneration
    <2>3. ThresholdCovered'
      BY <2>1, <2>2
    <2>4. CountersBound' /\ DraftsDistinct' /\ TokensDistinct'
      BY <2>1, <2>2
    <2> QED BY <2>3, <2>4
  <1>6. ASSUME NEW c \in Callers, NEW t \in tokens, NEW p \in Packs, NEW now \in Time,
               NEW need \in SUBSET Capabilities, AuthorizeLookup(c, t, p, now, need)
        PROVE  CounterInv'
    <2>1. tokens' = tokens /\ generation' = generation /\ tokenSeq' = tokenSeq
             /\ revokedBelow' = revokedBelow /\ below' = below
             /\ pc[c] = "idle" /\ pc'[c] \in {"idle", "check"}
      BY <1>6 DEF AuthorizeLookup
    <2>2. \A d \in Callers : d # c => tok'[d] = tok[d] /\ pc'[d] = pc[d]
      BY <1>6 DEF AuthorizeLookup
    <2> QED BY <2>1, <2>2, <1>f
  <1>7. ASSUME NEW c \in Callers, AuthorizeCheck(c) PROVE CounterInv'
    <2>1. tokens' = tokens /\ generation' = generation /\ tokenSeq' = tokenSeq
             /\ revokedBelow' = revokedBelow /\ below' = below
             /\ pc[c] = "check" /\ pc'[c] = "idle"
      BY <1>7 DEF AuthorizeCheck
    <2>2. \A d \in Callers : d # c => tok'[d] = tok[d] /\ pc'[d] = pc[d]
      BY <1>7 DEF AuthorizeCheck
    <2> QED BY <2>1, <2>2, <1>f
  <1>8. CASE UNCHANGED policyVars
    BY <1>8, <1>f DEF policyVars
  <1> QED
    BY <1>1, <1>2, <1>3, <1>4, <1>5, <1>6, <1>7, <1>8 DEF PolicyNext, PolicyStep

\* The part of the invariant that speaks of authorize.
AuthorizeInv == DoomedByGeneration /\ RevokedNeverAllowed

\* Every action leaves a call of authorize with a dead token on its way to a
\* refusal: the others because revocation only grows, AuthorizeCheck because
\* Decision refuses.
LEMMA AuthorizeStep ==
    ASSUME PolicyTypeOK, AuthorizeInv, [PolicyNext]_policyVars
    PROVE  AuthorizeInv'
  <1> USE NullTypes, MaxGenerationAssumption DEF PolicyTypeOK, EngineStep
  <1> USE DEF AuthorizeInv, DoomedByGeneration, RevokedNeverAllowed
  <1>m. revokedBelow' >= revokedBelow /\ revokedBelow' \in Nat
    BY MonotoneStep, TypeStep
  <1>g. ASSUME NEW t \in CapabilityToken, GenerationRevoked(t)
        PROVE  t.gen > 0 /\ t.gen <= revokedBelow'
    BY <1>g, <1>m DEF GenerationRevoked, CapabilityToken
  <1> DEFINE Same(c) == pc'[c] = pc[c] /\ tok'[c] = tok[c]
                        /\ verdict'[c] = verdict[c] /\ doomed'[c] = doomed[c]
             Good(c) == /\ pc'[c] = "check" =>
                             /\ verdict'[c] = "none"
                             /\ doomed'[c] => /\ tok'[c].gen > 0
                                              /\ tok'[c].gen <= revokedBelow'
                        /\ doomed'[c] => verdict'[c] # "allowed"
  <1>s. ASSUME NEW d \in Callers, Same(d) PROVE Good(d)
    <2>1. tok[d] \in CapabilityToken
      OBVIOUS
    <2>2. pc[d] = "check" /\ doomed[d] => GenerationRevoked(tok[d])
      OBVIOUS
    <2> QED BY <1>s, <1>g, <2>1, <2>2
  <1>n. ASSUME NEW c \in Callers, NewCall(c), pc'[c] # "check",
               \A d \in Callers : d # c => pc'[d] = pc[d] /\ tok'[d] = tok[d]
        PROVE  \A d \in Callers : Good(d)
    <2>1. \A d \in Callers : d # c => Same(d)
      BY <1>n DEF NewCall
    <2>2. Good(c)
      BY <1>n DEF NewCall
    <2> QED BY <1>s, <2>1, <2>2
  <1>1. ASSUME NEW c \in Callers, NEW p \in Packs, NEW caps \in SUBSET Capabilities,
               NEW now \in Time, NEW ttl \in Time,
               IssueGeneration(c, p, caps, now, ttl)
        PROVE  \A d \in Callers : Good(d)
    BY <1>1, <1>n DEF IssueGeneration
  <1>2. ASSUME NEW c \in Callers, IssueId(c) PROVE \A d \in Callers : Good(d)
    <2>1. \A d \in Callers : d # c => Same(d)
      BY <1>2 DEF IssueId
    <2>2. Good(c)
      BY <1>2 DEF IssueId
    <2> QED BY <1>s, <2>1, <2>2
  <1>3. ASSUME NEW c \in Callers, NEW id \in 1..MaxGeneration, RevokeToken(c, id)
        PROVE  \A d \in Callers : Good(d)
    BY <1>3, <1>n DEF RevokeToken
  <1>4. ASSUME NEW c \in Callers, NEW b \in 0..MaxGeneration, RevokeGeneration(c, b)
        PROVE  \A d \in Callers : Good(d)
    BY <1>4, <1>n DEF RevokeGeneration
  <1>5. ASSUME NEW c \in Callers, RaiseGeneration(c) PROVE \A d \in Callers : Good(d)
    <2>1. \A d \in Callers : d # c => Same(d)
      BY <1>5 DEF RaiseGeneration
    <2>2. Good(c)
      BY <1>5 DEF RaiseGeneration
    <2> QED BY <1>s, <2>1, <2>2
  <1>6. ASSUME NEW c \in Callers, NEW t \in tokens, NEW p \in Packs, NEW now \in Time,
               NEW need \in SUBSET Capabilities, AuthorizeLookup(c, t, p, now, need)
        PROVE  \A d \in Callers : Good(d)
    <2>1. \A d \in Callers : d # c => Same(d)
      BY <1>6 DEF AuthorizeLookup
    <2>2. Good(c)
      <3>1. CASE t.id \in revokedTokens
        BY <1>6, <3>1 DEF AuthorizeLookup
      <3>2. CASE t.id \notin revokedTokens
        <4>1. tok'[c] = t /\ verdict'[c] = "none" /\ doomed'[c] = Revoked(t)
          BY <1>6, <3>2 DEF AuthorizeLookup
        <4>2. Revoked(t) => GenerationRevoked(t)
          BY <3>2 DEF Revoked
        <4>3. t \in CapabilityToken
          OBVIOUS
        <4> QED BY <4>1, <4>2, <4>3, <1>g
      <3> QED BY <3>1, <3>2
    <2> QED BY <1>s, <2>1, <2>2
  <1>7. ASSUME NEW c \in Callers, AuthorizeCheck(c) PROVE \A d \in Callers : Good(d)
    <2>1. \A d \in Callers : d # c => Same(d)
      BY <1>7 DEF AuthorizeCheck
    <2>2. Good(c)
      <3>1. pc[c] = "check" /\ pc'[c] = "idle" /\ doomed'[c] = doomed[c]
              /\ verdict'[c] = Decision(tok[c], request[c])
        BY <1>7 DEF AuthorizeCheck
      <3>2. doomed[c] => Decision(tok[c], request[c]) # "allowed"
        BY <3>1, DecisionSound
      <3> QED BY <3>1, <3>2
    <2> QED BY <1>s, <2>1, <2>2
  <1>8. ASSUME UNCHANGED policyVars PROVE \A d \in Callers : Good(d)
    BY <1>8, <1>s DEF policyVars
  <1>9. \A d \in Callers : Good(d)
    BY <1>1, <1>2, <1>3, <1>4, <1>5, <1>6, <1>7, <1>8 DEF PolicyNext, PolicyStep
  <1> QED BY <1>9 DEF GenerationRevoked

-----------------------------------------------------------------------------
(* The theorems                                                            *)

LEMMA PolicyInvInit == PolicyInit => PolicyInv
  <1> SUFFICES ASSUME PolicyInit PROVE PolicyInv
    OBVIOUS
  <1>1. PolicyTypeOK
    BY NullTypes DEF PolicyInit, PolicyTypeOK, EngineStep, Verdicts
  <1>2. ThresholdCovered /\ CountersBound /\ DraftsDistinct /\ TokensDistinct
    BY DEF PolicyInit, ThresholdCovered, CountersBound, DraftsDistinct, TokensDistinct
  <1>3. DoomedByGeneration /\ RevokedNeverAllowed
    BY DEF PolicyInit, DoomedByGeneration, RevokedNeverAllowed
  <1> QED BY <1>1, <1>2, <1>3 DEF PolicyInv

LEMMA PolicyInvStep == PolicyInv /\ [PolicyNext]_policyVars => PolicyInv'
  BY TypeStep, CounterStep, AuthorizeStep DEF PolicyInv, CounterInv, AuthorizeInv

\* PolicyInv holds in every reachable state of the engine.
THEOREM PolicyInvariant == PolicySpec => []PolicyInv
  BY PolicyInvInit, PolicyInvStep, PTL DEF PolicySpec

\* authorize never allows a token that was revoked before it was called, for
\* any interleaving with issue_token, revoke_token and revoke_generation.
THEOREM RevokedIsNeverAllowed == PolicySpec => []RevokedNeverAllowed
  BY PolicyInvariant, PTL DEF PolicyInv

\* Tokens issued concurrently differ in id and in generation.
THEOREM TokensAreDistinct == PolicySpec => []TokensDistinct
  BY PolicyInvariant, PTL DEF PolicyInv

\* The threshold, the generation counter and the revoked ids only grow.
THEOREM RevocationIsMonotonic == PolicySpec => RevocationMonotonic
  <1>1. PolicyTypeOK /\ [PolicyNext]_policyVars =>
          [ /\ revokedBelow' >= revokedBelow
            /\ generation' >= generation
            /\ revokedTokens \subseteq revokedTokens' ]_policyVars
    BY MonotoneStep
  <1> QED BY <1>1, PolicyTypeCorrect, PTL DEF PolicySpec, RevocationMonotonic

\* A token issued while no revoke_generation is half done is above the
\* threshold, hence not born revoked.
THEOREM FreshTokensLive == PolicySpec => FreshTokenIsLive
  <1> DEFINE Fresh == \A c \in Callers :
                        /\ pc[c] = "idle" /\ pc'[c] = "next_id"
                        /\ \A d \in Callers : pc[d] # "raise"
                        => tok'[c].gen > revokedBelow
  <1>1. PolicyInv /\ [PolicyNext]_policyVars => [Fresh]_policyVars
    <2> SUFFICES ASSUME PolicyInv, PolicyNext, NEW c \in Callers,
                        pc[c] = "idle", pc'[c] = "next_id",
                        \A d \in Callers : pc[d] # "raise"
                 PROVE  tok'[c].gen > revokedBelow
      OBVIOUS
    <2> USE DEF PolicyInv, PolicyTypeOK
    <2>1. revokedBelow <= generation
      BY DEF ThresholdCovered
    <2>2. PICK e \in Callers, p \in Packs, caps \in SUBSET Capabilities,
               now \in Time, ttl \in Time : IssueGeneration(e, p, caps, now, ttl)
      BY DEF PolicyNext, PolicyStep, IssueId, RevokeToken, RevokeGeneration, RaiseGeneration,
             AuthorizeLookup, AuthorizeCheck
    <2>3. e = c
      BY <2>2 DEF IssueGeneration
    <2>4. tok'[c].gen = generation + 1
      BY <2>2, <2>3 DEF IssueGeneration
    <2> QED BY <2>1, <2>4
  <1> QED BY <1>1, PolicyInvariant, PTL DEF PolicySpec, FreshTokenIsLive
=============================================================================
