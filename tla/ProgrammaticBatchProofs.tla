---------------------- MODULE ProgrammaticBatchProofs ----------------------
(***************************************************************************)
(* The guarantees of a batch step, for every batch, every configuration    *)
(* the validators accept and any number of calls.                          *)
(*                                                                         *)
(* The probe bound and the spacing of the calls are inductive once the     *)
(* types are known, which need the attempts that a call has left           *)
(* (Counted).  A complete report rests on what a finished call has left    *)
(* behind (Reported).  That no class starves is not inductive at all: the  *)
(* invariant behind it (InTurn) says how far the cursor still is from the  *)
(* places of a class that waits.                                           *)
(***************************************************************************)
EXTENDS ProgrammaticBatch, FiniteSetTheorems, SequenceTheorems, TLAPS

-----------------------------------------------------------------------------
(* The constants                                                           *)

LEMMA BatchFacts ==
  /\ Len(Batch) \in Nat \ {0}
  /\ Calls \subseteq Nat
  /\ \A c \in Calls : Connector(c) \in Connectors /\ Batch[c].priority \in PriorityClass
  <1>1. Len(Batch) \in Nat \ {0} /\ Calls = DOMAIN Batch
    BY BatchAssumption DEF Calls
  <1>2. \A c \in Calls : Batch[c].priority \in PriorityClass
    <2> DEFINE Item == [connector : {Batch[c].connector : c \in DOMAIN Batch},
                        priority : PriorityClass]
    <2>1. Batch \in Seq(Item)
      BY BatchAssumption
    <2>2. \A i \in Item : i.priority \in PriorityClass
      OBVIOUS
    <2> HIDE DEF Item
    <2>3. \A c \in Calls : Batch[c] \in Item
      BY <2>1 DEF Calls
    <2> QED BY <2>2, <2>3
  <1>3. \A c \in Calls : Connector(c) \in Connectors
    BY DEF Connector, Connectors
  <1> QED BY <1>1, <1>2, <1>3 DEF Calls

\* The first call of a queue exists: < is well-founded.
LEMMA LeastExists ==
  ASSUME NEW S \in SUBSET Nat, S # {}
  PROVE  Least(S) \in S
  <1> DEFINE R == {ss \in Nat \X Nat : ss[1] < ss[2]}
  <1>1. OpToRel(<, Nat) = R
    BY Zenon DEF OpToRel
  <1>2. IsWellFoundedOn(R, Nat)
    BY <1>1, NatLessThanWellFounded, Zenon
  <1>3. PICK m \in S : \A n \in S : ~(<<n, m>> \in R)
    <2> HIDE DEF R
    <2> QED BY <1>2, WFMin, Zenon
  <1>4. \A n \in Nat : n < m => <<n, m>> \in R
    BY DEF R
  <1>5. \A n \in S : ~(n < m)
    BY <1>3, <1>4
  <1>6. \A n \in S : m <= n
    BY <1>5
  <1> QED BY <1>6 DEF Least

-----------------------------------------------------------------------------
(* Types                                                                   *)

\* A call that has not been polled has made no attempt, and one that sleeps
\* between two has not made them all.
Counted ==
    \A c \in Calls :
       /\ call[c].at \in {"queued", "pushed"} => call[c].tries = 0
       /\ call[c].at = "backoff" => call[c].tries < MaxAttempts

TypeInv == BatchTypeOK /\ Counted

\* Updates of a breaker's entry.
LEMMA Rephased ==
  ASSUME NEW e \in CircuitState, NEW ph \in CircuitPhase, NEW n \in Nat
  PROVE  /\ [e EXCEPT !.phase = ph, !.cool = n] \in CircuitState
         /\ [e EXCEPT !.phase = ph, !.cool = n].phase = ph
         /\ [e EXCEPT !.phase = ph, !.cool = n].remaining = e.remaining
  BY DEF CircuitState

LEMMA Recounted ==
  ASSUME NEW e \in CircuitState, NEW ph \in CircuitPhase, NEW n \in Nat,
         NEW r \in 0..HalfOpenMaxCalls
  PROVE  /\ [e EXCEPT !.phase = ph, !.cool = n, !.remaining = r, !.successes = 0] \in CircuitState
         /\ [e EXCEPT !.phase = ph, !.cool = n, !.remaining = r, !.successes = 0].phase = ph
         /\ [e EXCEPT !.phase = ph, !.cool = n, !.remaining = r, !.successes = 0].remaining = r
  <1> DEFINE f == [e EXCEPT !.phase = ph, !.cool = n]
             g == [f EXCEPT !.remaining = r, !.successes = 0]
  <1>0. 0 \in 0..HalfOpenMaxCalls
    BY BreakerAssumption
  <1>1. f \in CircuitState /\ f.phase = ph
    BY DEF CircuitState
  <1> HIDE DEF f
  <1>2. g \in CircuitState /\ g.phase = ph /\ g.remaining = r
    BY <1>0, <1>1 DEF CircuitState
  <1> QED BY <1>2, Zenon DEF g, f

LEMMA ThawedEntry ==
  ASSUME NEW e \in CircuitState
  PROVE  /\ Thawed(e) \in CircuitState
         /\ e.phase = "Open" => Thawed(e).phase = "HalfOpen" /\ Thawed(e).remaining = HalfOpenMaxCalls
         /\ e.phase # "Open" => Thawed(e) = e
  <1>1. HalfOpenMaxCalls \in 0..HalfOpenMaxCalls /\ 0 \in Nat /\ "HalfOpen" \in CircuitPhase
    BY BreakerAssumption DEF CircuitPhase
  <1>2. CASE e.phase = "Open"
    <2> DEFINE f == [e EXCEPT !.phase = "HalfOpen", !.cool = 0,
                              !.remaining = HalfOpenMaxCalls, !.successes = 0]
    <2>1. f \in CircuitState
      BY <1>1, Recounted
    <2>2. f.phase = "HalfOpen" /\ f.remaining = HalfOpenMaxCalls
      BY DEF CircuitState
    <2>3. Thawed(e) = f
      BY <1>2 DEF Thawed
    <2> HIDE DEF f
    <2> QED BY <1>2, <2>1, <2>2, <2>3
  <1>3. CASE e.phase # "Open"
    BY <1>3 DEF Thawed
  <1> QED BY <1>2, <1>3

\* A call is let in: a breaker that is not closed has one probe less.
LEMMA TakenEntry ==
  ASSUME NEW e \in CircuitState, ~Exhausted(e)
  PROVE  /\ Taken(e) \in CircuitState
         /\ Taken(e).phase = Thawed(e).phase
         /\ Thawed(e).phase = "HalfOpen" => Taken(e).remaining = Thawed(e).remaining - 1
  <1> DEFINE t == Thawed(e)
             u == [t EXCEPT !.remaining = IF t.phase = "HalfOpen" THEN @ - 1 ELSE @]
  <1>1. t \in CircuitState /\ (t.phase = "HalfOpen" => t.remaining # 0)
    BY ThawedEntry DEF Exhausted
  <1> HIDE DEF t
  <1>2. /\ u \in CircuitState /\ u.phase = t.phase
        /\ t.phase = "HalfOpen" => u.remaining = t.remaining - 1
    BY <1>1, BreakerAssumption DEF CircuitState
  <1> QED BY <1>2 DEF Taken, t

LEMMA ReopenedEntry ==
  ASSUME NEW e \in CircuitState
  PROVE  Reopened(e) \in CircuitState /\ Reopened(e).phase = "Open"
  BY ThawedEntry, Rephased, BreakerAssumption DEF Reopened, CircuitPhase

\* An outcome never makes a breaker half open.
LEMMA AfterEntry ==
  ASSUME NEW e \in CircuitState, NEW after \in {AfterSuccess(e), AfterFailure(e)}
  PROVE  /\ after \in CircuitState
         /\ after.phase = "HalfOpen" => e.phase = "HalfOpen" /\ after.remaining = e.remaining
  <1>0. /\ HalfOpenMaxCalls \in Nat \ {0} /\ Cooldown \in Nat /\ FailureThreshold \in Nat
        /\ SuccessThreshold \in 1..HalfOpenMaxCalls /\ 0 \in 0..HalfOpenMaxCalls
        /\ FreshCircuit \in CircuitState /\ FreshCircuit.phase = "Closed"
        /\ "Open" \in CircuitPhase
    BY BreakerAssumption DEF FreshCircuit, CircuitState, CircuitPhase
  <1>1. CASE after = AfterSuccess(e)
    <2>1. CASE e.phase \in {"Closed", "Open"}
      BY <1>1, <2>1 DEF AfterSuccess, CircuitState
    <2>2. CASE e.phase = "HalfOpen"
      <3>1. CASE e.successes + 1 >= SuccessThreshold
        BY <1>0, <1>1, <2>2, <3>1 DEF AfterSuccess
      <3>2. CASE ~(e.successes + 1 >= SuccessThreshold) /\ e.remaining = 0
        <4> DEFINE f == [e EXCEPT !.phase = "Open", !.cool = Cooldown]
                   g == [f EXCEPT !.successes = 0]
        <4>1. f \in CircuitState /\ f.phase = "Open"
          BY <1>0, Rephased
        <4> HIDE DEF f
        <4>2. g \in CircuitState /\ g.phase = "Open"
          BY <1>0, <4>1 DEF CircuitState
        <4>3. after = g
          BY <1>1, <2>2, <3>2, Zenon DEF AfterSuccess, g, f
        <4> QED BY <4>2, <4>3
      <3>3. CASE ~(e.successes + 1 >= SuccessThreshold) /\ e.remaining # 0
        <4>1. after = [e EXCEPT !.successes = @ + 1]
          BY <1>1, <2>2, <3>3 DEF AfterSuccess
        <4>2. e.successes + 1 \in 0..HalfOpenMaxCalls
          BY <1>0, <3>3 DEF CircuitState
        <4> QED BY <2>2, <4>1, <4>2 DEF CircuitState
      <3> QED BY <3>1, <3>2, <3>3
    <2> QED BY <2>1, <2>2 DEF CircuitState, CircuitPhase
  <1>2. CASE after = AfterFailure(e)
    <2>1. Opened(e) \in CircuitState /\ Opened(e).phase = "Open"
      BY <1>0, Recounted DEF Opened
    <2>2. [Opened(e) EXCEPT !.failures = @ + 1] \in CircuitState
             /\ [Opened(e) EXCEPT !.failures = @ + 1].phase = "Open"
      BY <2>1 DEF CircuitState
    <2>3. [e EXCEPT !.failures = @ + 1] \in CircuitState
             /\ [e EXCEPT !.failures = @ + 1].phase = e.phase
      BY DEF CircuitState
    <2> QED BY <1>2, <2>1, <2>2, <2>3 DEF AfterFailure
  <1> QED BY <1>1, <1>2

LEMMA AdaptType ==
  ASSUME BatchTypeOK, NEW status, NEW code, Adapt(status, code)
  PROVE  budget' \in MinInFlight..MaxInFlight /\ streak' \in Nat
  BY BudgetAssumption DEF BatchTypeOK, Adapt, adaptive, AtMost, AtLeast

LEMMA SettleType ==
  ASSUME TypeInv, NEW c \in Calls, NEW status \in {"ok", "error"}, NEW code,
         Settle(c, status, code)
  PROVE  /\ call' \in [Calls -> CallState]
         /\ report' \in [Calls -> {"none", "ok", "error"}]
         /\ outcome' \in {"running", "ok", "error"}
         /\ budget' \in MinInFlight..MaxInFlight
         /\ streak' \in Nat
         /\ Counted'
  <1>1. call' = [call EXCEPT ![c] = [call[c] EXCEPT !.at = "done"]]
    BY DEF Settle, TypeInv, BatchTypeOK
  <1>2. [call[c] EXCEPT !.at = "done"] \in CallState
    BY DEF TypeInv, BatchTypeOK, CallState, Stages
  <1>3. call' \in [Calls -> CallState]
    BY <1>1, <1>2 DEF TypeInv, BatchTypeOK
  <1>4. Counted'
    BY <1>1 DEF TypeInv, Counted, BatchTypeOK, CallState
  <1>5. /\ report' \in [Calls -> {"none", "ok", "error"}]
        /\ outcome' \in {"running", "ok", "error"}
    BY DEF Settle, TypeInv, BatchTypeOK
  <1>6. Adapt(status, code)
    BY DEF Settle
  <1> QED BY <1>3, <1>4, <1>5, <1>6, AdaptType DEF TypeInv

\* A call takes a slot of its connector: one attempt more, and a wait.
LEMMA ReserveType ==
  ASSUME TypeInv, NEW c \in Calls, call[c].tries < MaxAttempts, Reserve(c)
  PROVE  call' \in [Calls -> CallState] /\ slot' \in [Connectors -> Nat] /\ Counted'
  <1> DEFINE w == IF Connector(c) \in Limited THEN slot[Connector(c)] ELSE 0
             r == [at |-> "attempt", tries |-> call[c].tries + 1, wait |-> w]
  <1>1. Connector(c) \in Connectors /\ w \in Nat
    BY BatchFacts DEF TypeInv, BatchTypeOK
  <1>2. call' = [call EXCEPT ![c] = r]
    BY DEF Reserve, TypeInv, BatchTypeOK
  <1>3. slot' \in [Connectors -> Nat]
    BY <1>1, RateAssumption DEF Reserve, TypeInv, BatchTypeOK
  <1> HIDE DEF w
  <1>4. r \in CallState /\ r.at = "attempt"
    BY <1>1, RetryAssumption DEF TypeInv, BatchTypeOK, CallState, Stages
  <1> HIDE DEF r
  <1>5. call' \in [Calls -> CallState]
    BY <1>2, <1>4 DEF TypeInv, BatchTypeOK
  <1>6. Counted'
    BY <1>2, <1>4 DEF TypeInv, BatchTypeOK, Counted
  <1> QED BY <1>3, <1>5, <1>6

LEMMA RecordType ==
  ASSUME TypeInv, NEW c \in Calls, NEW after \in CircuitState, Record(c, after)
  PROVE  circuit' \in [Connectors -> CircuitState] /\ admitted' \in [Connectors -> Nat]
  BY BatchFacts DEF Record, TypeInv, BatchTypeOK

\* The cycle has a place for every class.
LEMMA Shares ==
  ASSUME plan \in Plans
  PROVE  /\ \A p \in PriorityClass : Share(p) \in Nat \ {0}
         /\ CycleLength \in Nat \ {0}
  <1>1. \A p \in PriorityClass : Share(p) \in Nat \ {0}
    BY BudgetAssumption DEF Share
  <1> QED BY <1>1 DEF CycleLength, PriorityClass

LEMMA WaitingCall ==
  ASSUME NEW p, Waiting(p) # {}
  PROVE  Least(Waiting(p)) \in Waiting(p)
  BY LeastExists, BatchFacts DEF Waiting, Queued

LEMMA PopNextType ==
  ASSUME TypeInv, NEW c \in Calls, PopNext(c)
  PROVE  cursor' \in 0..CycleLength - 1 /\ call[c].at = "queued"
  <1>1. CycleLength \in Nat \ {0}
    BY Shares DEF TypeInv, BatchTypeOK
  <1>2. PICK offset \in 0..CycleLength - 1 :
           LET index == (cursor + offset) % CycleLength IN
           /\ Waiting(ClassAt(index)) # {}
           /\ c = Least(Waiting(ClassAt(index)))
           /\ cursor' = (index + 1) % CycleLength
    BY DEF PopNext
  <1>3. (cursor + offset) % CycleLength \in Nat
    BY <1>1, <1>2 DEF TypeInv, BatchTypeOK
  <1>4. cursor' \in 0..CycleLength - 1
    BY <1>1, <1>2, <1>3
  <1>5. c \in Queued
    BY <1>2, WaitingCall DEF Waiting
  <1> QED BY <1>4, <1>5 DEF Queued

\* A call is handed to the futures.
LEMMA PushType ==
  ASSUME TypeInv, NEW c \in Calls, call[c].at = "queued",
         call' = [call EXCEPT ![c].at = "pushed"], order' = Append(order, c)
  PROVE  call' \in [Calls -> CallState] /\ order' \in Seq(Calls) /\ Counted'
  <1>1. call' = [call EXCEPT ![c] = [call[c] EXCEPT !.at = "pushed"]]
    BY DEF TypeInv, BatchTypeOK
  <1>2. [call[c] EXCEPT !.at = "pushed"] \in CallState
    BY DEF TypeInv, BatchTypeOK, CallState, Stages
  <1>3. call' \in [Calls -> CallState]
    BY <1>1, <1>2 DEF TypeInv, BatchTypeOK
  <1>4. Counted'
    BY <1>1 DEF TypeInv, Counted, BatchTypeOK, CallState
  <1> QED BY <1>3, <1>4, AppendProperties DEF TypeInv, BatchTypeOK

LEMMA TickType ==
  ASSUME TypeInv, Tick PROVE TypeInv'
  <1>1. \A n \in Nat : Less(n) \in Nat
    BY DEF Less
  <1>2. \A e \in CircuitState : [e EXCEPT !.cool = Less(@)] \in CircuitState
    BY <1>1 DEF CircuitState
  <1>3. \A k \in CallState : /\ [k EXCEPT !.wait = Less(@)] \in CallState
                             /\ [k EXCEPT !.wait = Less(@)].at = k.at
                             /\ [k EXCEPT !.wait = Less(@)].tries = k.tries
    BY <1>1 DEF CallState
  <1>4. circuit' \in [Connectors -> CircuitState] /\ slot' \in [Connectors -> Nat]
    BY <1>1, <1>2 DEF Tick, TypeInv, BatchTypeOK
  <1>5. call' \in [Calls -> CallState] /\ Counted'
    BY <1>3 DEF Tick, TypeInv, BatchTypeOK, Counted
  <1> QED BY <1>4, <1>5 DEF Tick, TypeInv, BatchTypeOK, scheduler, adaptive

LEMMA DispatchType ==
  ASSUME TypeInv, NEW c \in Calls, Dispatch(c) \/ DispatchSerial(c) PROVE TypeInv'
  <1>1. CASE Dispatch(c)
    <2>1. cursor' \in Nat /\ call[c].at = "queued"
      BY <1>1, PopNextType, Shares DEF Dispatch, TypeInv, BatchTypeOK
    <2>2. call' \in [Calls -> CallState] /\ order' \in Seq(Calls) /\ Counted'
      BY <1>1, <2>1, PushType DEF Dispatch
    <2> QED BY <1>1, <2>1, <2>2 DEF Dispatch, TypeInv, BatchTypeOK, adaptive
  <1>2. CASE DispatchSerial(c)
    <2>1. c \in Queued
      BY <1>2, LeastExists, BatchFacts DEF DispatchSerial, Queued
    <2>2. call[c].at = "queued"
      BY <2>1 DEF Queued
    <2>3. call' \in [Calls -> CallState] /\ order' \in Seq(Calls) /\ Counted'
      BY <1>2, <2>2, PushType DEF DispatchSerial
    <2> QED BY <1>2, <2>3 DEF DispatchSerial, TypeInv, BatchTypeOK, adaptive
  <1> QED BY <1>1, <1>2

LEMMA AdmitType ==
  ASSUME TypeInv, NEW c \in Calls, Admit(c) PROVE TypeInv'
  <1>1. call[c].tries < MaxAttempts
    BY RetryAssumption DEF Admit, TypeInv, Counted
  <1>2. call' \in [Calls -> CallState] /\ slot' \in [Connectors -> Nat] /\ Counted'
    BY <1>1, ReserveType DEF Admit
  <1>3. Connector(c) \in Connectors /\ Entry(c) \in CircuitState
    BY BatchFacts DEF Entry, TypeInv, BatchTypeOK
  <1>4. Guarded(c) => Taken(Entry(c)) \in CircuitState
    BY <1>3, TakenEntry DEF Admit
  <1>5. circuit' \in [Connectors -> CircuitState] /\ admitted' \in [Connectors -> Nat]
    BY <1>3, <1>4 DEF Admit, Entry, TypeInv, BatchTypeOK
  <1> QED BY <1>2, <1>5 DEF Admit, TypeInv, BatchTypeOK, scheduler, adaptive

LEMMA RefuseType ==
  ASSUME TypeInv, NEW c \in Calls, RefuseOpen(c) \/ RefuseExhausted(c) PROVE TypeInv'
  <1>1. Settle(c, "error", "circuit_open")
    BY DEF RefuseOpen, RefuseExhausted
  <1>2. Connector(c) \in Connectors /\ Reopened(Entry(c)) \in CircuitState
    BY BatchFacts, ReopenedEntry DEF Entry, TypeInv, BatchTypeOK
  <1>3. circuit' \in [Connectors -> CircuitState] /\ admitted' \in [Connectors -> Nat]
    <2>1. CASE RefuseOpen(c)
      BY <2>1 DEF RefuseOpen, TypeInv, BatchTypeOK
    <2>2. CASE RefuseExhausted(c)
      <3>1. circuit' = [circuit EXCEPT ![Connector(c)] = Reopened(Entry(c))]
        BY <2>2 DEF RefuseExhausted, Entry
      <3>2. admitted' = [admitted EXCEPT ![Connector(c)] = 0]
        BY <2>2 DEF RefuseExhausted
      <3> QED BY <1>2, <3>1, <3>2 DEF TypeInv, BatchTypeOK
    <2> QED BY <2>1, <2>2
  <1>4. UNCHANGED <<plan, scheduler, slot>>
    BY DEF RefuseOpen, RefuseExhausted
  <1> QED BY <1>1, <1>3, <1>4, SettleType DEF TypeInv, BatchTypeOK, scheduler

\* A call that completes at the kernel: Succeed, or Fail.
LEMMA CompleteType ==
  ASSUME TypeInv, NEW c \in Calls, NEW code, Succeed(c) \/ Fail(c, code) PROVE TypeInv'
  <1>1. Entry(c) \in CircuitState
    BY BatchFacts DEF Entry, TypeInv, BatchTypeOK
  <1>2. circuit' \in [Connectors -> CircuitState] /\ admitted' \in [Connectors -> Nat]
    BY <1>1, AfterEntry, RecordType DEF Succeed, Fail
  <1>3. UNCHANGED <<plan, scheduler, slot>>
    BY DEF Succeed, Fail
  <1>4. Settle(c, "ok", "none") \/ Settle(c, "error", code)
    BY DEF Succeed, Fail
  <1> QED BY <1>2, <1>3, <1>4, SettleType DEF TypeInv, BatchTypeOK, scheduler

LEMMA RepeatType ==
  ASSUME TypeInv, NEW c \in Calls, Backoff(c) \/ Retry(c) PROVE TypeInv'
  <1>1. CASE Backoff(c)
    <2>1. call' = [call EXCEPT ![c] = [call[c] EXCEPT !.at = "backoff"]]
      BY <1>1 DEF Backoff, TypeInv, BatchTypeOK
    <2>2. [call[c] EXCEPT !.at = "backoff"] \in CallState
      BY DEF TypeInv, BatchTypeOK, CallState, Stages
    <2>3. call' \in [Calls -> CallState]
      BY <2>1, <2>2 DEF TypeInv, BatchTypeOK
    <2>4. Counted'
      BY <1>1, <2>1 DEF Backoff, TypeInv, Counted, BatchTypeOK, CallState
    <2> QED BY <1>1, <2>3, <2>4 DEF Backoff, TypeInv, BatchTypeOK, scheduler, adaptive
  <1>2. CASE Retry(c)
    <2>1. call[c].tries < MaxAttempts
      BY <1>2 DEF Retry, TypeInv, Counted
    <2>2. call' \in [Calls -> CallState] /\ slot' \in [Connectors -> Nat] /\ Counted'
      BY <1>2, <2>1, ReserveType DEF Retry
    <2> QED BY <1>2, <2>2 DEF Retry, TypeInv, BatchTypeOK, scheduler, adaptive
  <1> QED BY <1>1, <1>2

LEMMA ReturnType ==
  ASSUME TypeInv, Return PROVE TypeInv'
  BY DEF Return, TypeInv, BatchTypeOK, Counted, scheduler, adaptive

LEMMA InitType == Init => TypeInv
  <1> SUFFICES ASSUME Init PROVE TypeInv
    OBVIOUS
  <1>1. HalfOpenMaxCalls \in Nat /\ FailureThreshold \in Nat /\ Cooldown \in Nat
    BY BreakerAssumption
  <1>2. FreshCircuit \in CircuitState
    BY <1>1 DEF FreshCircuit, CircuitState, CircuitPhase
  <1>3. \A d \in 0..Cooldown : Tripped(d) \in CircuitState
    BY <1>1 DEF Tripped, CircuitState, CircuitPhase
  <1>4. circuit \in [Connectors -> CircuitState]
    BY <1>2, <1>3 DEF Init
  <1>5. call \in [Calls -> CallState] /\ Counted
    BY RetryAssumption DEF Init, CallState, Stages, Counted
  <1>6. budget \in MinInFlight..MaxInFlight
    BY BudgetAssumption DEF Init
  <1>7. order \in Seq(Calls)
    BY EmptySeq DEF Init
  <1> QED BY <1>4, <1>5, <1>6, <1>7 DEF Init, TypeInv, BatchTypeOK

LEMMA NextType == TypeInv /\ [Next]_vars => TypeInv'
  <1> SUFFICES ASSUME TypeInv, [Next]_vars PROVE TypeInv'
    OBVIOUS
  <1>1. CASE UNCHANGED vars
    BY <1>1 DEF vars, TypeInv, BatchTypeOK, Counted
  <1> QED BY <1>1, DispatchType, AdmitType, RefuseType, CompleteType, RepeatType,
             ReturnType, TickType DEF Next

\* Type correctness: the counters of a breaker stay within the calls it allows,
\* no call makes more than max_attempts attempts, and the adaptive budget stays
\* between min_in_flight and max_in_flight.
THEOREM BatchTypeCorrect == Spec => []BatchTypeOK
  <1>1. TypeInv => BatchTypeOK
    BY DEF TypeInv
  <1> QED BY <1>1, InitType, NextType, PTL DEF Spec

-----------------------------------------------------------------------------
(* The probes of a breaker                                                 *)

\* What ProbesBounded says of one breaker with entry e, n calls since it opened.
Bounded(e, n) ==
    /\ e.phase = "Open" => n = 0
    /\ e.phase = "HalfOpen" => n + e.remaining <= HalfOpenMaxCalls

LEMMA OneBreaker ==
  ASSUME TypeInv, ProbesBounded, NEW k \in Connectors, NEW e, NEW n,
         circuit' = [circuit EXCEPT ![k] = e], admitted' = [admitted EXCEPT ![k] = n],
         k \in Breakers => Bounded(e, n)
  PROVE  ProbesBounded'
  BY DEF TypeInv, BatchTypeOK, ProbesBounded, Bounded

LEMMA AdmitProbes ==
  ASSUME TypeInv, ProbesBounded, NEW c \in Calls, Admit(c) PROVE ProbesBounded'
  <1> DEFINE k == Connector(c)
             e == circuit[k]
             n == admitted[k]
             f == IF Guarded(c) THEN Taken(e) ELSE e
  <1>1. k \in Connectors /\ e \in CircuitState /\ n \in Nat
    BY BatchFacts DEF TypeInv, BatchTypeOK
  <1>2. circuit' = [circuit EXCEPT ![k] = f] /\ admitted' = [admitted EXCEPT ![k] = n + 1]
    BY DEF Admit
  <1>3. k \in Breakers => Bounded(e, n) /\ ~Exhausted(e) /\ f = Taken(e)
    BY <1>1 DEF ProbesBounded, Bounded, Admit, Guarded, Entry
  <1> HIDE DEF e, f, n
  <1>4. k \in Breakers => Bounded(f, n + 1)
    <2> SUFFICES ASSUME k \in Breakers PROVE Bounded(f, n + 1)
      OBVIOUS
    <2> DEFINE t == Thawed(e)
    <2>1. /\ t \in CircuitState
          /\ e.phase = "Open" => t.phase = "HalfOpen" /\ t.remaining = HalfOpenMaxCalls
          /\ e.phase # "Open" => t = e
      BY <1>1, ThawedEntry
    <2>2. f.phase = t.phase /\ (t.phase = "HalfOpen" => f.remaining = t.remaining - 1)
      BY <1>1, <1>3, TakenEntry
    <2>3. t.remaining \in 0..HalfOpenMaxCalls /\ HalfOpenMaxCalls \in Nat
      BY <2>1, BreakerAssumption DEF CircuitState
    <2> HIDE DEF t
    <2>4. t.phase # "Open" /\ (t.phase = "HalfOpen" => n + t.remaining <= HalfOpenMaxCalls)
      BY <1>1, <1>3, <2>1, <2>3 DEF Bounded
    <2> QED BY <1>1, <2>2, <2>3, <2>4 DEF Bounded
  <1> HIDE DEF k
  <1> QED BY <1>1, <1>2, <1>4, OneBreaker

\* A late answer is recorded in whatever phase the breaker is in by now; one
\* that opens it starts the count again.
LEMMA RecordProbes ==
  ASSUME TypeInv, ProbesBounded, NEW c \in Calls,
         NEW after \in {AfterSuccess(Entry(c)), AfterFailure(Entry(c))}, Record(c, after)
  PROVE  ProbesBounded'
  <1> DEFINE k == Connector(c)
             e == circuit[k]
             f == IF Guarded(c) THEN after ELSE e
             n == IF Guarded(c) /\ e.phase # "Open" /\ after.phase = "Open"
                  THEN 0 ELSE admitted[k]
  <1>1. k \in Connectors /\ e \in CircuitState /\ e = Entry(c)
    BY BatchFacts DEF TypeInv, BatchTypeOK, Entry
  <1>2. circuit' = [circuit EXCEPT ![k] = f] /\ admitted' = [admitted EXCEPT ![k] = n]
    BY DEF Record, Entry
  <1>3. after.phase = "HalfOpen" => e.phase = "HalfOpen" /\ after.remaining = e.remaining
    BY <1>1, AfterEntry
  <1>4. k \in Breakers => Bounded(f, n)
    BY <1>1, <1>3 DEF Guarded, ProbesBounded, Bounded
  <1> HIDE DEF k, f, n
  <1> QED BY <1>1, <1>2, <1>4, OneBreaker

LEMMA RefuseProbes ==
  ASSUME TypeInv, ProbesBounded, NEW c \in Calls, RefuseExhausted(c) PROVE ProbesBounded'
  <1>1. Connector(c) \in Connectors /\ Reopened(Entry(c)).phase = "Open"
    BY BatchFacts, ReopenedEntry DEF Entry, TypeInv, BatchTypeOK
  <1>2. /\ circuit' = [circuit EXCEPT ![Connector(c)] = Reopened(Entry(c))]
        /\ admitted' = [admitted EXCEPT ![Connector(c)] = 0]
    BY DEF RefuseExhausted, Entry
  <1>3. Bounded(Reopened(Entry(c)), 0)
    BY <1>1 DEF Bounded
  <1> QED BY <1>1, <1>2, <1>3, OneBreaker

LEMMA TickProbes ==
  ASSUME TypeInv, ProbesBounded, Tick PROVE ProbesBounded'
  <1>1. \A k \in Connectors : /\ circuit'[k].phase = circuit[k].phase
                              /\ circuit'[k].remaining = circuit[k].remaining
                              /\ admitted'[k] = admitted[k]
    BY DEF Tick, TypeInv, BatchTypeOK, CircuitState
  <1> QED BY <1>1 DEF ProbesBounded

LEMMA NextProbes == TypeInv /\ ProbesBounded /\ [Next]_vars => ProbesBounded'
  <1> SUFFICES ASSUME TypeInv, ProbesBounded, [Next]_vars PROVE ProbesBounded'
    OBVIOUS
  <1>1. CASE UNCHANGED <<circuit, admitted>>
    BY <1>1 DEF ProbesBounded
  <1>2. ASSUME NEW c \in Calls, \/ Succeed(c)
                                \/ \E code \in ErrorCodes : Fail(c, code)
        PROVE  ProbesBounded'
    BY <1>2, RecordProbes DEF Succeed, Fail
  <1>3. ASSUME NEW c \in Calls, \/ Dispatch(c) \/ DispatchSerial(c) \/ RefuseOpen(c)
                                \/ Backoff(c) \/ Retry(c)
        PROVE  ProbesBounded'
    BY <1>1, <1>3 DEF Dispatch, DispatchSerial, RefuseOpen, Backoff, Retry
  <1>4. CASE Return \/ UNCHANGED vars
    BY <1>1, <1>4 DEF Return, vars
  <1> QED BY <1>2, <1>3, <1>4, AdmitProbes, RefuseProbes, TickProbes DEF Next

\* A breaker that is not closed lets in at most half_open_max_calls calls before
\* it opens again (acquire_programmatic_circuit_slot), although outcomes are
\* recorded in another phase than the one the call was admitted in.
THEOREM ProbesAreBounded == Spec => []ProbesBounded
  <1>1. Init => ProbesBounded
    <2> SUFFICES ASSUME Init PROVE ProbesBounded
      OBVIOUS
    <2>1. \A k \in Connectors : circuit[k].phase # "HalfOpen" /\ admitted[k] = 0
      BY DEF Init, FreshCircuit, Tripped
    <2> QED BY <2>1 DEF ProbesBounded
  <1> QED BY <1>1, InitType, NextType, NextProbes, PTL DEF Spec

-----------------------------------------------------------------------------
(* The rate limit                                                          *)

\* The new wait is the next free slot: everybody who sleeps wakes up
\* min_interval_ms before it.
LEMMA ReserveSpacing ==
  ASSUME TypeInv, RateSpacing, NEW c \in Calls, Reserve(c) PROVE RateSpacing'
  <1> DEFINE k == Connector(c)
  <1>1. k \in Connectors /\ slot \in [Connectors -> Nat] /\ MinInterval \in Nat \ {0}
    BY BatchFacts, RateAssumption DEF TypeInv, BatchTypeOK
  <1>2. \A d \in Calls : call[d].wait \in Nat /\ Connector(d) \in Connectors
    BY BatchFacts DEF TypeInv, BatchTypeOK, CallState
  <1>3. /\ call'[c].wait = IF k \in Limited THEN slot[k] ELSE 0
        /\ \A d \in Calls \ {c} : call'[d] = call[d]
    BY DEF Reserve, TypeInv, BatchTypeOK
  <1>4. /\ slot'[k] = IF k \in Limited THEN slot[k] + MinInterval ELSE slot[k]
        /\ \A j \in Connectors \ {k} : slot'[j] = slot[j]
    BY <1>1 DEF Reserve
  <1>5. \A d \in Calls \ {c} : call[d].wait > 0 /\ Connector(d) = k =>
           call[d].wait + MinInterval <= slot[k]
    BY DEF RateSpacing
  <1>6. \A d \in Calls : call'[d].wait > 0 => call'[d].wait + MinInterval <= slot'[Connector(d)]
    <2> SUFFICES ASSUME NEW d \in Calls, call'[d].wait > 0
                 PROVE  call'[d].wait + MinInterval <= slot'[Connector(d)]
      OBVIOUS
    <2>1. CASE d = c
      BY <1>1, <1>3, <1>4, <2>1
    <2>2. CASE d # c
      <3>1. call[d].wait + MinInterval <= slot[Connector(d)]
        BY <1>3, <2>2 DEF RateSpacing
      <3>2. slot[Connector(d)] <= slot'[Connector(d)] /\ slot'[Connector(d)] \in Nat
        BY <1>1, <1>2, <1>4
      <3> QED BY <1>1, <1>2, <1>3, <2>2, <3>1, <3>2
    <2> QED BY <2>1, <2>2
  <1>7. ASSUME NEW d \in Calls, NEW b \in Calls \ {d}, call'[d].wait > 0, call'[b].wait > 0,
               Connector(b) = Connector(d)
        PROVE  \/ call'[b].wait + MinInterval <= call'[d].wait
               \/ call'[d].wait + MinInterval <= call'[b].wait
    <2>1. CASE d = c
      BY <1>3, <1>5, <1>7, <2>1
    <2>2. CASE b = c
      BY <1>3, <1>5, <1>7, <2>2
    <2>3. CASE d # c /\ b # c
      BY <1>3, <1>7, <2>3 DEF RateSpacing
    <2> QED BY <2>1, <2>2, <2>3
  <1>8. \A d \in Calls : Connector(d)' = Connector(d)
    BY DEF Connector
  <1> HIDE DEF k
  <1> QED BY <1>6, <1>7, <1>8 DEF RateSpacing

\* Time passes for all of them alike.
LEMMA TickSpacing ==
  ASSUME TypeInv, RateSpacing, Tick PROVE RateSpacing'
  <1>1. \A d \in Calls : /\ call[d].wait \in Nat /\ Connector(d) \in Connectors
                         /\ call'[d].wait = Less(call[d].wait)
    BY BatchFacts DEF Tick, TypeInv, BatchTypeOK, CallState
  <1>2. \A k \in Connectors : slot[k] \in Nat /\ slot'[k] = Less(slot[k])
    BY DEF Tick, TypeInv, BatchTypeOK
  <1>3. MinInterval \in Nat \ {0}
    BY RateAssumption
  <1>4. \A d \in Calls : Connector(d)' = Connector(d)
    BY DEF Connector
  <1>5. ASSUME NEW d \in Calls, call'[d].wait > 0
        PROVE  call'[d].wait + MinInterval <= slot'[Connector(d)]
    <2>1. call[d].wait > 0 /\ call'[d].wait = call[d].wait - 1
      BY <1>1, <1>5 DEF Less
    <2>2. call[d].wait + MinInterval <= slot[Connector(d)]
      BY <2>1 DEF RateSpacing
    <2> QED BY <1>1, <1>2, <1>3, <2>1, <2>2 DEF Less
  <1>6. ASSUME NEW d \in Calls, NEW b \in Calls \ {d}, call'[d].wait > 0, call'[b].wait > 0,
               Connector(b) = Connector(d)
        PROVE  \/ call'[b].wait + MinInterval <= call'[d].wait
               \/ call'[d].wait + MinInterval <= call'[b].wait
    <2>1. /\ call[d].wait > 0 /\ call'[d].wait = call[d].wait - 1
          /\ call[b].wait > 0 /\ call'[b].wait = call[b].wait - 1
      BY <1>1, <1>6 DEF Less
    <2>2. \/ call[b].wait + MinInterval <= call[d].wait
          \/ call[d].wait + MinInterval <= call[b].wait
      BY <1>6, <2>1 DEF RateSpacing
    <2> QED BY <1>1, <1>3, <2>1, <2>2
  <1> QED BY <1>4, <1>5, <1>6 DEF RateSpacing

LEMMA SameWaits ==
  ASSUME RateSpacing, slot' = slot, \A d \in Calls : call'[d].wait = call[d].wait
  PROVE  RateSpacing'
  BY DEF RateSpacing, Connector

LEMMA NextSpacing == TypeInv /\ RateSpacing /\ [Next]_vars => RateSpacing'
  <1> SUFFICES ASSUME TypeInv, RateSpacing, [Next]_vars PROVE RateSpacing'
    OBVIOUS
  <1>1. CASE Return \/ UNCHANGED vars
    BY <1>1, SameWaits DEF Return, vars
  <1>2. ASSUME NEW c \in Calls, Admit(c) \/ Retry(c) PROVE RateSpacing'
    BY <1>2, ReserveSpacing DEF Admit, Retry
  <1>3. ASSUME NEW c \in Calls, NEW code,
               \/ Dispatch(c) \/ DispatchSerial(c) \/ RefuseOpen(c) \/ RefuseExhausted(c)
               \/ Succeed(c) \/ Backoff(c) \/ Fail(c, code)
        PROVE  RateSpacing'
    <2>1. \E stage \in Stages : call' = [call EXCEPT ![c].at = stage]
      BY <1>3 DEF Dispatch, DispatchSerial, RefuseOpen, RefuseExhausted, Succeed, Backoff,
                  Fail, Settle, Stages
    <2>2. \A d \in Calls : call'[d].wait = call[d].wait
      BY <2>1 DEF TypeInv, BatchTypeOK, CallState
    <2>3. slot' = slot
      BY <1>3 DEF Dispatch, DispatchSerial, RefuseOpen, RefuseExhausted, Succeed, Backoff, Fail
    <2> QED BY <2>2, <2>3, SameWaits
  <1> QED BY <1>1, <1>2, <1>3, TickSpacing DEF Next

\* apply_programmatic_rate_limit spaces the calls of a connector, first attempts
\* and retries alike, by min_interval_ms.
THEOREM CallsAreSpaced == Spec => []RateSpacing
  <1>1. Init => RateSpacing
    BY DEF Init, RateSpacing
  <1> QED BY <1>1, InitType, NextType, NextSpacing, PTL DEF Spec

-----------------------------------------------------------------------------
(* The reports                                                             *)

\* Until the batch fails, a call that is done has a report.
Reported ==
    outcome # "error" => \A c \in Calls : call[c].at = "done" => report[c] \in {"ok", "error"}

LEMMA SettleReported ==
  ASSUME TypeInv, Reported, NEW c \in Calls, NEW status \in {"ok", "error"}, NEW code,
         outcome = "running", Settle(c, status, code)
  PROVE  Reported' /\ outcome' # "ok"
  <1>1. \A d \in Calls \ {c} : call'[d] = call[d]
    BY DEF Settle, TypeInv, BatchTypeOK
  <1>2. CASE outcome' = "error"
    BY <1>2 DEF Reported
  <1>3. CASE report' = [report EXCEPT ![c] = status] /\ outcome' = outcome
    <2>1. report'[c] = status /\ \A d \in Calls \ {c} : report'[d] = report[d]
      BY <1>3 DEF TypeInv, BatchTypeOK
    <2> QED BY <1>1, <1>3, <2>1 DEF Reported
  <1> QED BY <1>2, <1>3 DEF Settle

\* A batch returns only when every call is done: with nothing in flight the
\* budget is not used up, so the queue is empty too.
LEMMA ReturnReported ==
  ASSUME TypeInv, Reported, Return PROVE Reported' /\ ReportsComplete'
  <1>1. Queued = {} /\ InFlight = {}
    <2>1. InFlight = {}
      BY DEF Return
    <2>2. Cardinality(InFlight) = 0
      BY <2>1, FS_EmptySet
    <2>3. budget >= 1
      BY BudgetAssumption DEF TypeInv, BatchTypeOK
    <2>4. budget \in Nat
      BY BudgetAssumption DEF TypeInv, BatchTypeOK
    <2> QED BY <2>1, <2>2, <2>3, <2>4 DEF Return
  <1>2. \A c \in Calls : call[c].at = "done"
    BY <1>1 DEF Queued, InFlight, TypeInv, BatchTypeOK, CallState, Stages
  <1>3. \A c \in Calls : report[c] \in {"ok", "error"}
    BY <1>2 DEF Reported, Return
  <1>4. UNCHANGED <<plan, call, report>>
    BY DEF Return
  <1>5. outcome' = "ok" => plan.continue \/ \A c \in Calls : report[c] # "error"
    BY DEF Return
  <1> QED BY <1>3, <1>4, <1>5 DEF Reported, ReportsComplete

LEMMA NextReported ==
  TypeInv /\ Reported /\ ReportsComplete /\ [Next]_vars => Reported' /\ ReportsComplete'
  <1> SUFFICES ASSUME TypeInv, Reported, ReportsComplete, [Next]_vars
               PROVE  Reported' /\ ReportsComplete'
    OBVIOUS
  <1>1. CASE UNCHANGED vars
    BY <1>1 DEF vars, Reported, ReportsComplete
  <1>2. ASSUME NEW c \in Calls, NEW code,
               RefuseOpen(c) \/ RefuseExhausted(c) \/ Succeed(c) \/ Fail(c, code)
        PROVE  Reported' /\ ReportsComplete'
    <2>1. outcome = "running"
      BY <1>2 DEF RefuseOpen, RefuseExhausted, Succeed, Fail, AtKernel, Awaiting
    <2>2. \E status \in {"ok", "error"}, any \in {"circuit_open", "none", code} :
             Settle(c, status, any)
      BY <1>2 DEF RefuseOpen, RefuseExhausted, Succeed, Fail
    <2> QED BY <2>1, <2>2, SettleReported DEF ReportsComplete
  <1>3. ASSUME NEW c \in Calls, NEW stage \in Stages \ {"done"},
               call' = [call EXCEPT ![c] = [call[c] EXCEPT !.at = stage]],
               outcome = "running", UNCHANGED <<report, outcome>>
        PROVE  Reported' /\ ReportsComplete'
    <2>1. \A d \in Calls : call'[d].at = "done" => call[d].at = "done"
      BY <1>3 DEF TypeInv, BatchTypeOK, CallState
    <2> QED BY <1>3, <2>1 DEF Reported, ReportsComplete
  <1>4. ASSUME NEW c \in Calls, Dispatch(c) \/ DispatchSerial(c) \/ Backoff(c)
        PROVE  Reported' /\ ReportsComplete'
    <2>1. outcome = "running" /\ UNCHANGED <<report, outcome>>
      BY <1>4 DEF Dispatch, DispatchSerial, Backoff, AtKernel, Awaiting
    <2>2. \E stage \in {"pushed", "backoff"} :
             call' = [call EXCEPT ![c] = [call[c] EXCEPT !.at = stage]]
      BY <1>4 DEF Dispatch, DispatchSerial, Backoff, TypeInv, BatchTypeOK
    <2> QED BY <1>3, <2>1, <2>2 DEF Stages
  <1>5. ASSUME NEW c \in Calls, Admit(c) \/ Retry(c)
        PROVE  Reported' /\ ReportsComplete'
    <2>1. outcome = "running" /\ UNCHANGED <<report, outcome>> /\ Reserve(c)
      BY <1>5 DEF Admit, Retry, Awaiting
    <2>2. call'[c].at = "attempt" /\ \A d \in Calls \ {c} : call'[d] = call[d]
      BY <2>1 DEF Reserve, TypeInv, BatchTypeOK
    <2> QED BY <2>1, <2>2 DEF Reported, ReportsComplete
  <1>6. CASE Tick
    <2>1. outcome = "running" /\ UNCHANGED <<report, outcome>>
      BY <1>6 DEF Tick, Awaiting
    <2>2. \A d \in Calls : call'[d].at = call[d].at
      BY <1>6 DEF Tick, TypeInv, BatchTypeOK, CallState
    <2> QED BY <2>1, <2>2 DEF Reported, ReportsComplete
  <1> QED BY <1>1, <1>2, <1>4, <1>5, <1>6, ReturnReported DEF Next

\* execute_programmatic_batch_calls returns Ok only with a report of every call,
\* and with no error among them unless the step continues on errors.
THEOREM ReportsAreComplete == Spec => []ReportsComplete
  <1>1. Init => Reported /\ ReportsComplete
    BY DEF Init, Reported, ReportsComplete
  <1> QED BY <1>1, InitType, NextType, NextReported, PTL DEF Spec

-----------------------------------------------------------------------------
(* The fairness of the scheduler                                           *)

\* The first place of a class in the cycle, and how many places the cursor at i
\* passes before it is at one of the class.
Start(p) ==
    IF p = "High" THEN 0
    ELSE IF p = "Normal" THEN Share("High") ELSE Share("High") + Share("Normal")
Dist(first, share, n, i) ==
    IF i < first THEN first - i
    ELSE IF i < first + share THEN 0 ELSE first + n - i
Ahead(p) == Dist(Start(p), Share(p), CycleLength, cursor)
Behind(p) == CycleLength - Share(p) - Ahead(p)

\* The dispatches since a waiting class was last served are at most the places
\* the cursor has passed since.
InTurn ==
    IsParallel =>
       /\ cursor \in 0..CycleLength - 1
       /\ \A p \in PriorityClass :
             Waiting(p) # {} /\ Len(order) > Behind(p) =>
                \E i \in Len(order) - Behind(p)..Len(order) : Batch[order[i]].priority = p

LEMMA ModStep ==
  ASSUME NEW n \in Nat \ {0}, NEW a \in Nat, a < n + n
  PROVE  a % n = IF a < n THEN a ELSE a - n
  OBVIOUS

LEMMA DistBound ==
  ASSUME NEW n \in Nat \ {0}, NEW first \in Nat, NEW share \in Nat \ {0}, first + share <= n,
         NEW i \in 0..n - 1
  PROVE  Dist(first, share, n, i) \in 0..n - share
  BY DEF Dist

LEMMA DistReaches ==
  ASSUME NEW n \in Nat \ {0}, NEW first \in Nat, NEW share \in Nat \ {0}, first + share <= n,
         NEW i \in 0..n - 1
  PROVE  LET j == (i + Dist(first, share, n, i)) % n
         IN  first <= j /\ j < first + share
  <1>1. Dist(first, share, n, i) \in 0..n - share
    BY DistBound
  <1> DEFINE a == i + Dist(first, share, n, i)
  <1>2. a \in Nat /\ a < n + n
    BY <1>1
  <1>3. a = IF i < first THEN first ELSE IF i < first + share THEN i ELSE first + n
    BY DEF Dist
  <1> HIDE DEF a
  <1>4. a % n = IF a < n THEN a ELSE a - n
    BY <1>2, ModStep, Zenon
  <1>5. first <= a % n /\ a % n < first + share
    BY <1>3, <1>4
  <1> QED BY <1>5 DEF a

LEMMA DistShrinks ==
  ASSUME NEW n \in Nat \ {0}, NEW first \in Nat, NEW share \in Nat \ {0}, first + share <= n,
         NEW i \in 0..n - 1, NEW o \in 0..n - 1, o < Dist(first, share, n, i)
  PROVE  Dist(first, share, n, (((i + o) % n) + 1) % n) = Dist(first, share, n, i) - o - 1
  <1> DEFINE a == i + o
             b == (a % n) + 1
  <1>1. a \in Nat /\ a < n + n
    OBVIOUS
  <1>2. a = i + o
    OBVIOUS
  <1> HIDE DEF a
  <1>3. a % n = IF a < n THEN a ELSE a - n
    BY <1>1, ModStep, Zenon
  <1>4. b \in Nat /\ b < n + n /\ b = IF a < n THEN a + 1 ELSE a - n + 1
    BY <1>1, <1>3
  <1> HIDE DEF b
  <1>5. b % n = IF b < n THEN b ELSE b - n
    BY <1>4, ModStep, Zenon
  <1>6. Dist(first, share, n, b % n) = Dist(first, share, n, i) - o - 1
    BY <1>1, <1>2, <1>4, <1>5 DEF Dist
  <1> QED BY <1>6 DEF a, b

\* The places of a class in the cycle.
LEMMA Places ==
  ASSUME plan \in Plans, NEW p \in PriorityClass
  PROVE  /\ Start(p) \in Nat /\ Share(p) \in Nat \ {0} /\ CycleLength \in Nat \ {0}
         /\ Start(p) + Share(p) <= CycleLength
         /\ \A i \in Nat : Start(p) <= i /\ i < Start(p) + Share(p) => ClassAt(i) = p
         /\ \A i \in Nat : i < CycleLength => ClassAt(i) \in PriorityClass
  <1>1. Share("High") \in Nat \ {0} /\ Share("Normal") \in Nat \ {0} /\ Share("Low") \in Nat \ {0}
    BY Shares DEF PriorityClass
  <1>2. p \in {"High", "Normal", "Low"}
    BY DEF PriorityClass
  <1> QED BY <1>1, <1>2 DEF Start, CycleLength, ClassAt, PriorityClass

\* The scheduler takes a call of another class only before the cursor has come
\* to the places of p.
LEMMA DispatchInTurn ==
  ASSUME TypeInv, InTurn, NEW c \in Calls, Dispatch(c) PROVE InTurn'
  <1> USE DEF TypeInv, BatchTypeOK
  <1>0. plan' = plan /\ IsParallel /\ IsParallel' /\ CycleLength' = CycleLength
           /\ \A p \in PriorityClass : Share(p)' = Share(p) /\ Start(p)' = Start(p)
    BY DEF Dispatch, IsParallel, CycleLength, Share, Start
  <1>1. cursor' \in 0..CycleLength - 1 /\ call[c].at = "queued"
    BY PopNextType DEF Dispatch
  <1>2. CycleLength \in Nat \ {0}
    BY Shares
  <1>3. PICK o \in 0..CycleLength - 1 :
           LET index == (cursor + o) % CycleLength IN
           /\ Waiting(ClassAt(index)) # {}
           /\ \A a \in 0..o - 1 : Waiting(ClassAt((cursor + a) % CycleLength)) = {}
           /\ c = Least(Waiting(ClassAt(index)))
           /\ cursor' = (index + 1) % CycleLength
    BY DEF Dispatch, PopNext
  <1>4. Batch[c].priority = ClassAt((cursor + o) % CycleLength)
    BY <1>3, WaitingCall DEF Waiting
  <1>5. /\ Len(order) \in Nat /\ Len(order') = Len(order) + 1
        /\ order'[Len(order) + 1] = c
        /\ \A i \in 1..Len(order) : order'[i] = order[i]
    BY AppendProperties DEF Dispatch
  <1>6. \A p : Waiting(p)' \subseteq Waiting(p)
    <2>1. call' = [call EXCEPT ![c] = [call[c] EXCEPT !.at = "pushed"]]
      BY DEF Dispatch
    <2>2. \A d \in Calls : call'[d].at = "queued" => call[d].at = "queued"
      BY <2>1 DEF CallState
    <2> QED BY <2>2 DEF Waiting, Queued
  <1>7. ASSUME NEW p \in PriorityClass, Waiting(p)' # {}, Len(order') > Behind(p)'
        PROVE  \E i \in Len(order') - Behind(p)'..Len(order') : Batch[order'[i]].priority = p
    <2>0. cursor \in 0..CycleLength - 1 /\ Waiting(p) # {}
      BY <1>0, <1>6, <1>7 DEF InTurn
    <2>1. /\ Start(p) \in Nat /\ Share(p) \in Nat \ {0} /\ Start(p) + Share(p) <= CycleLength
          /\ \A i \in Nat : Start(p) <= i /\ i < Start(p) + Share(p) => ClassAt(i) = p
      BY Places
    <2>2. Ahead(p) \in 0..CycleLength - Share(p)
      BY <1>2, <2>0, <2>1, DistBound DEF Ahead
    <2>3. Ahead(p)' = Dist(Start(p), Share(p), CycleLength, cursor')
      BY <1>0 DEF Ahead
    <2>4. Behind(p)' = CycleLength - Share(p) - Ahead(p)'
      BY <1>0 DEF Behind
    <2>5. Ahead(p)' \in 0..CycleLength - Share(p)
      <3>1. Dist(Start(p), Share(p), CycleLength, cursor') \in 0..CycleLength - Share(p)
        BY <1>1, <1>2, <2>1, DistBound
      <3> QED BY <2>3, <3>1
    <2>6. CASE Batch[c].priority = p
      <3>1. Behind(p)' \in Nat
        BY <1>2, <2>1, <2>4, <2>5
      <3>2. Len(order') \in Len(order') - Behind(p)'..Len(order')
        BY <1>5, <3>1
      <3> QED BY <1>5, <2>6, <3>2
    <2>7. CASE Batch[c].priority # p
      <3>1. ClassAt((cursor + Ahead(p)) % CycleLength) = p
        <4> DEFINE j == (cursor + Ahead(p)) % CycleLength
        <4>1. Start(p) <= j /\ j < Start(p) + Share(p)
          BY <1>2, <2>0, <2>1, DistReaches, Zenon DEF Ahead
        <4>2. j \in Nat
          BY <1>2, <2>0, <2>2
        <4> QED BY <2>1, <4>1, <4>2
      <3>2. Ahead(p) # o
        BY <1>4, <2>7, <3>1
      <3>3. ~(Ahead(p) \in 0..o - 1)
        BY <1>3, <2>0, <3>1
      <3>4. o < Ahead(p)
        BY <1>2, <2>1, <2>2, <3>2, <3>3
      <3>5. Ahead(p)' = Ahead(p) - o - 1
        <4> DEFINE n == CycleLength
                   first == Start(p)
                   share == Share(p)
        <4>1. n \in Nat \ {0} /\ first \in Nat /\ share \in Nat \ {0} /\ first + share <= n
          BY <1>2, <2>1, Zenon
        <4>2. cursor' = (((cursor + o) % n) + 1) % n
          BY <1>3, Zenon
        <4>3. Ahead(p) = Dist(first, share, n, cursor) /\ Ahead(p)' = Dist(first, share, n, cursor')
          BY <2>3, Zenon DEF Ahead
        <4>4. o < Dist(first, share, n, cursor)
          BY <3>4, <4>3, Zenon
        <4>5. cursor \in 0..n - 1 /\ o \in 0..n - 1
          BY <2>0, Zenon
        <4> HIDE DEF n, first, share
        <4>6. \A i, k \in 0..n - 1 :
                 k < Dist(first, share, n, i) =>
                    Dist(first, share, n, (((i + k) % n) + 1) % n) = Dist(first, share, n, i) - k - 1
          BY <4>1, DistShrinks, Zenon
        <4>7. Dist(first, share, n, (((cursor + o) % n) + 1) % n) = Dist(first, share, n, cursor) - o - 1
          BY <4>4, <4>5, <4>6, Zenon
        <4>8. Ahead(p)' = Dist(first, share, n, cursor) - o - 1
          BY <4>2, <4>3, <4>7, Zenon
        <4> QED BY <4>3, <4>8, Zenon
      <3>6. Behind(p)' = Behind(p) + o + 1 /\ Behind(p) \in Nat
        BY <1>2, <2>1, <2>2, <2>4, <3>5 DEF Behind
      <3>7. Len(order) > Behind(p)
        BY <1>5, <1>7, <3>6
      <3>8. PICK i \in Len(order) - Behind(p)..Len(order) : Batch[order[i]].priority = p
        BY <1>0, <2>0, <3>7 DEF InTurn
      <3>9. i \in 1..Len(order) /\ i \in Len(order') - Behind(p)'..Len(order')
        BY <1>5, <3>6, <3>7
      <3> QED BY <1>5, <3>8, <3>9
    <2> QED BY <2>6, <2>7
  <1> QED BY <1>0, <1>1, <1>7 DEF InTurn

LEMMA NextInTurn == TypeInv /\ InTurn /\ [Next]_vars => InTurn'
  <1> SUFFICES ASSUME TypeInv, InTurn, [Next]_vars PROVE InTurn'
    OBVIOUS
  <1> USE DEF TypeInv, BatchTypeOK
  <1>1. ASSUME UNCHANGED <<plan, order, cursor>>,
               \A d \in Calls : call'[d].at = "queued" => call[d].at = "queued"
        PROVE  InTurn'
    <2>1. \A p : Waiting(p)' \subseteq Waiting(p)
      BY <1>1 DEF Waiting, Queued
    <2>2. IsParallel' = IsParallel /\ CycleLength' = CycleLength /\ \A p : Behind(p)' = Behind(p)
      BY <1>1 DEF IsParallel, CycleLength, Behind, Ahead, Start, Share
    <2> QED BY <1>1, <2>1, <2>2 DEF InTurn
  <1>2. ASSUME NEW c \in Calls, DispatchSerial(c) PROVE InTurn'
    BY <1>2 DEF DispatchSerial, InTurn, IsParallel
  <1>3. CASE Return \/ UNCHANGED vars
    BY <1>1, <1>3 DEF Return, vars, scheduler
  <1>4. CASE Tick
    <2>1. \A d \in Calls : call'[d].at = call[d].at
      BY <1>4 DEF Tick, CallState
    <2> QED BY <1>1, <1>4, <2>1 DEF Tick, scheduler
  <1>5. ASSUME NEW c \in Calls, Admit(c) \/ Retry(c) PROVE InTurn'
    <2>1. UNCHANGED <<plan, order, cursor>> /\ Reserve(c)
      BY <1>5 DEF Admit, Retry, scheduler
    <2>2. call'[c].at = "attempt" /\ \A d \in Calls \ {c} : call'[d] = call[d]
      BY <2>1 DEF Reserve
    <2> QED BY <1>1, <2>1, <2>2
  <1>6. ASSUME NEW c \in Calls, NEW code, \/ RefuseOpen(c) \/ RefuseExhausted(c)
                                          \/ Succeed(c) \/ Backoff(c) \/ Fail(c, code)
        PROVE  InTurn'
    <2>1. UNCHANGED <<plan, order, cursor>>
      BY <1>6 DEF RefuseOpen, RefuseExhausted, Succeed, Backoff, Fail, scheduler
    <2>2. \E stage \in {"done", "backoff"} :
             call' = [call EXCEPT ![c] = [call[c] EXCEPT !.at = stage]]
      BY <1>6 DEF RefuseOpen, RefuseExhausted, Succeed, Backoff, Fail, Settle
    <2>3. \A d \in Calls : call'[d].at = "queued" => call[d].at = "queued"
      BY <2>2 DEF CallState
    <2> QED BY <1>1, <2>1, <2>3
  <1> QED BY <1>2, <1>3, <1>4, <1>5, <1>6, DispatchInTurn DEF Next

\* pop_next_programmatic_call starves no class: one with queued calls is served
\* within as many dispatches as the others have places in the cycle, for any
\* weights, in the weighted cycle and in the strict order.
THEOREM NoClassStarves == Spec => []NoStarvation
  <1>1. Init => InTurn
    <2> SUFFICES ASSUME Init PROVE InTurn
      OBVIOUS
    <2>1. plan \in Plans /\ cursor = 0 /\ Len(order) = 0
      BY DEF Init
    <2>2. CycleLength \in Nat \ {0}
      BY <2>1, Shares
    <2>3. ASSUME NEW p \in PriorityClass PROVE Behind(p) \in Nat
      <3>0. cursor \in 0..CycleLength - 1
        BY <2>1, <2>2
      <3>1. Ahead(p) \in 0..CycleLength - Share(p) /\ Share(p) \in Nat
        BY <2>1, <2>2, <3>0, Places, DistBound DEF Ahead
      <3> QED BY <2>2, <3>1 DEF Behind
    <2> QED BY <2>1, <2>2, <2>3 DEF InTurn
  <1>2. TypeInv /\ InTurn => NoStarvation
    <2> SUFFICES ASSUME TypeInv, InTurn, IsParallel, NEW p \in PriorityClass, Waiting(p) # {},
                        Len(order) > CycleLength - Share(p)
                 PROVE  \E i \in Len(order) - (CycleLength - Share(p))..Len(order) :
                           Batch[order[i]].priority = p
      BY DEF NoStarvation
    <2>1. Len(order) \in Nat /\ plan \in Plans
      BY DEF TypeInv, BatchTypeOK
    <2>2. CycleLength \in Nat \ {0} /\ Share(p) \in Nat
      BY <2>1, Places
    <2>3. Ahead(p) \in 0..CycleLength - Share(p)
      BY <2>1, <2>2, Places, DistBound DEF Ahead, InTurn
    <2>4. Behind(p) <= CycleLength - Share(p) /\ Behind(p) \in Nat
      BY <2>2, <2>3 DEF Behind
    <2>5. Len(order) > Behind(p)
      BY <2>1, <2>2, <2>4
    <2>6. PICK i \in Len(order) - Behind(p)..Len(order) : Batch[order[i]].priority = p
      BY <2>5 DEF InTurn
    <2>7. i \in Len(order) - (CycleLength - Share(p))..Len(order)
      BY <2>1, <2>2, <2>4, <2>6
    <2> QED BY <2>6, <2>7
  <1> QED BY <1>1, <1>2, InitType, NextType, NextInTurn, PTL DEF Spec
=============================================================================
