-------------------------- MODULE AcpManagerProofs --------------------------
(***************************************************************************)
(* The ACP session manager, for any number of callers, sessions and        *)
(* faults.                                                                 *)
(*                                                                         *)
(* Where a caller is says what its locals are (FrameOK); the counts and    *)
(* the queues follow from that.  A caller is in the queue of its mutex     *)
(* from Join to Unlock, and only the first of a queue is past its wait     *)
(* (QueueInv).  On one thread nobody runs while another is between two     *)
(* awaits, so RemoveActor sees the count that CheckActor has read, and all *)
(* calls of a session have the registered mutex (ThreadInv).               *)
(***************************************************************************)
EXTENDS AcpManager, FiniteSetTheorems, SequenceTheorems, TLAPS

-----------------------------------------------------------------------------
(* Where a caller is, and what its locals are                              *)

\* The steps from the join of the queue until the end of the drop.
WithLock == Holding \cup {"wait", "unpend", "unref", "check", "remove"}

FrameOK(p, f) ==
    /\ f \in Frame /\ p \in Awaits \cup Synchronous
    /\ p = "idle" => f = NoFrame
    /\ p # "idle" => f.op \in Ops /\ f.s \in Sessions
    /\ f.lock # 0 <=> f.op \in Guarded /\ p \in WithLock
    /\ p \in {"look", "preempt", "cancelling"} => f.op \in {"cancel", "close"}
    /\ p \in {"ref", "join", "wait", "unlock", "unref", "check", "remove"} => f.op \in Guarded
    /\ p \in {"pend", "busy", "register", "turn", "clear", "result", "unpend"} => f.op = "turn"
    /\ p \in {"resolve", "touch", "create"} => f.op \in {"turn", "ensure"}
    /\ p \in {"control", "backend"} => f.op \in ControlOps
    /\ p = "evict" => f.victim \in Sessions
    /\ p \in {"clear", "result"} => f.st \in {"Ready", "Error"}

AcpInv == AcpTypeOK /\ \A c \in Callers : FrameOK(pc[c], frame[c])

\* A step of caller c, to p and with the locals f.
Moves(c, p, f) == pc' = [pc EXCEPT ![c] = p] /\ frame' = [frame EXCEPT ![c] = f]

\* The calls that count for no session, and those that own a guard.
Outside(p, f) ==
    \/ f.op \notin Guarded
    \/ p \in {"look", "preempt", "cancelling", "ref", "check", "remove"}
Inside(p, f) == f.op \in Guarded /\ p \in Holding

\* A step that takes no part in the protocol of the guard.
Continues(c, p, f) ==
    /\ p = "remove" => refs[f.s] = 0
    /\ \/ Outside(pc[c], frame[c]) /\ Outside(p, f)
       \/ /\ Inside(pc[c], frame[c]) /\ Inside(p, f)
          /\ f.op = op(c) /\ f.s = sess(c) /\ f.lock = frame[c].lock
Inner(c) == \E p, f : Moves(c, p, f) /\ FrameOK(p, f) /\ Continues(c, p, f)

LEMMA IdleFrame == FrameOK("idle", NoFrame) /\ Outside("idle", NoFrame)
  BY NamesAssumption DEF FrameOK, NoFrame, Frame, Awaits, Synchronous, WithLock, Holding, Guarded,
     ControlOps, Outside, States, AcpSessionState

LEMMA FinishMoves ==
  ASSUME AcpInv, NEW c \in Callers, Finish(c), Outside(pc[c], frame[c]) PROVE Inner(c)
  BY IdleFrame DEF Finish, Goto, Moves, Inner, Continues

\* A step at which a call may return.
MayLeave(c) ==
    /\ pc[c] \notin {"idle", "check", "remove"}
    /\ Outside(pc[c], frame[c]) \/ Inside(pc[c], frame[c])

\* The locals that the drop of a guard still needs.
Guard(o, s, l) == [NoFrame EXCEPT !.op = o, !.s = s, !.lock = l]

LEMMA GuardFrame ==
  ASSUME NEW o \in Ops, NEW s \in Sessions, NEW l \in LockIds
  PROVE  /\ Guard(o, s, l) \in Frame
         /\ Guard(o, s, l).op = o /\ Guard(o, s, l).s = s /\ Guard(o, s, l).lock = l
  <1> DEFINE a == [NoFrame EXCEPT !.op = o]
             b == [a EXCEPT !.s = s]
             f == [b EXCEPT !.lock = l]
  <1>1. NoFrame \in Frame
    BY DEF NoFrame, Frame, States, AcpSessionState
  <1>2. a \in Frame /\ a.op = o
    BY <1>1 DEF Frame
  <1> HIDE DEF a
  <1>3. b \in Frame /\ b.op = o /\ b.s = s
    BY <1>2 DEF Frame
  <1> HIDE DEF b
  <1>4. f \in Frame /\ f.op = o /\ f.s = s /\ f.lock = l
    BY <1>3 DEF Frame
  <1>5. Guard(o, s, l) = f
    BY Zenon DEF Guard, a, b, f
  <1> HIDE DEF f
  <1> QED BY <1>4, <1>5

LEMMA LeaveMoves ==
  ASSUME AcpInv, NEW c \in Callers, Leave(c), MayLeave(c) PROVE Inner(c)
  <1>0. FrameOK(pc[c], frame[c])
    BY DEF AcpInv
  <1>1. CASE Inside(pc[c], frame[c])
    <2> DEFINE g == Guard(op(c), sess(c), frame[c].lock)
    <2>1. frame[c].lock # 0
      BY <1>0, <1>1 DEF FrameOK, Inside, WithLock
    <2>2. Moves(c, "unlock", g)
      BY <1>1, <2>1 DEF Leave, Inside, op, Goto, Moves, Guard
    <2>3. op(c) \in Guarded /\ op(c) \in Ops /\ sess(c) \in Sessions /\ frame[c].lock \in LockIds
      BY <1>0, <1>1, <2>1 DEF FrameOK, Inside, op, sess, MayLeave, Frame
    <2>4. g \in Frame /\ g.op = op(c) /\ g.s = sess(c) /\ g.lock = frame[c].lock
      BY <2>3, GuardFrame
    <2> HIDE DEF g
    <2>5. FrameOK("unlock", g)
      BY <2>1, <2>3, <2>4 DEF FrameOK, Awaits, Synchronous, WithLock, Holding
    <2>6. Inside("unlock", g)
      BY <2>3, <2>4 DEF Inside, Holding
    <2>7. Continues(c, "unlock", g)
      BY <1>1, <2>4, <2>6 DEF Continues
    <2> QED BY <2>2, <2>5, <2>7 DEF Inner
  <1>2. CASE Outside(pc[c], frame[c])
    <2>1. op(c) \notin Guarded \/ frame[c].lock = 0
      BY <1>0, <1>2 DEF FrameOK, Outside, op, MayLeave, WithLock, Holding
    <2> QED BY <1>2, <2>1, FinishMoves DEF Leave
  <1> QED BY <1>1, <1>2 DEF MayLeave

-----------------------------------------------------------------------------
(* Finite sets                                                             *)

LEMMA ImageBound ==
  ASSUME NEW S, IsFiniteSet(S), NEW f
  PROVE  /\ IsFiniteSet({f[x] : x \in S})
         /\ Cardinality({f[x] : x \in S}) <= Cardinality(S)
  <1> DEFINE T == {f[x] : x \in S}
             g == [x \in S |-> f[x]]
  <1>1. g \in Surjection(S, T)
    BY DEF Surjection
  <1> HIDE DEF T, g
  <1>2. IsFiniteSet(T) /\ Cardinality(T) <= Cardinality(S)
    BY <1>1, FS_Surjection
  <1> QED BY <1>2 DEF T

\* There are enough mutexes: the caller that needs one has none.
LEMMA FreshLockExists ==
  ASSUME AcpInv, NEW c \in Callers, frame[c].lock = 0
  PROVE  /\ FreshLock \in LockIds
         /\ \A s \in Sessions : actorLock[s] # FreshLock
         /\ \A d \in Callers : frame[d].lock # FreshLock
  <1> DEFINE lockOf == [d \in Callers |-> frame[d].lock]
             D == Callers \ {c}
             A == {actorLock[s] : s \in Sessions}
             B == {lockOf[d] : d \in D}
             n == Cardinality(Callers) + Cardinality(Sessions)
  <1>1. /\ Cardinality(Callers) \in Nat /\ Cardinality(Sessions) \in Nat
        /\ IsFiniteSet(D) /\ Cardinality(D) = Cardinality(Callers) - 1
    BY FiniteAssumption, FS_CardinalityType, FS_RemoveElement
  <1>2. IsFiniteSet(A) /\ Cardinality(A) <= Cardinality(Sessions)
    BY FiniteAssumption, ImageBound
  <1>3. IsFiniteSet(B) /\ Cardinality(B) <= Cardinality(D)
    <2> HIDE DEF lockOf, D
    <2> QED BY <1>1, ImageBound
  <1>4. PICK l \in LockIds : l \notin A \cup B
    <2> SUFFICES ASSUME LockIds \subseteq A \cup B PROVE FALSE
      OBVIOUS
    <2> HIDE DEF A, B, D, lockOf
    <2>1. /\ IsFiniteSet(A \cup B)
          /\ Cardinality(A \cup B) = Cardinality(A) + Cardinality(B) - Cardinality(A \cap B)
      BY <1>2, <1>3, FS_Union
    <2>2. IsFiniteSet(A \cap B)
      BY <1>2, FS_Subset
    <2>3. /\ Cardinality(A) \in Nat /\ Cardinality(B) \in Nat
          /\ Cardinality(A \cap B) \in Nat /\ Cardinality(A \cup B) \in Nat
      BY <1>2, <1>3, <2>1, <2>2, FS_CardinalityType
    <2>4. Cardinality(LockIds) <= Cardinality(A \cup B)
      BY <2>1, FS_Subset
    <2>5. n \in Nat /\ LockIds = 1..n
      BY <1>1 DEF LockIds
    <2>6. Cardinality(LockIds) = n
      <3> HIDE DEF n
      <3>1. Cardinality(1..n) = IF 1 > n THEN 0 ELSE n - 1 + 1
        BY <2>5, FS_Interval
      <3> QED BY <2>5, <3>1
    <2> QED BY <1>1, <1>2, <1>3, <2>1, <2>3, <2>4, <2>5, <2>6
  <1>5. l # 0
    BY <1>1 DEF LockIds
  <1>6. (\A s \in Sessions : actorLock[s] # l) /\ (\A d \in Callers : frame[d].lock # l)
    BY <1>4, <1>5
  <1> QED BY <1>4, <1>6 DEF FreshLock

-----------------------------------------------------------------------------
(* The steps outside the protocol of the guard                             *)

DataType ==
    /\ store \in [Sessions -> States]
    /\ idle \in [Sessions -> BOOLEAN]
    /\ active \in [Sessions -> Callers \cup {Nobody}]
    /\ faults \in 0..MaxFaults
    /\ unowned \subseteq Sessions

QuietStep(c) ==
    /\ MayRun(c) /\ Inner(c)
    /\ UNCHANGED <<runtime, actorVars, lost>>
    /\ DataType'

LEMMA FrameFacts ==
  ASSUME AcpInv, NEW c \in Callers
  PROVE  /\ FrameOK(pc[c], frame[c]) /\ frame[c] \in Frame
         /\ pc \in [Callers -> Awaits \cup Synchronous] /\ frame \in [Callers -> Frame]
         /\ DataType
  BY DEF AcpInv, AcpTypeOK, DataType

LEMMA FaultType == ASSUME DataType, Fault PROVE faults' \in 0..MaxFaults
  BY MaxFaultsAssumption DEF DataType, Fault

\* The caller goes on with the same locals, or with others.
LEMMA GoOn ==
  ASSUME AcpInv, NEW c \in Callers, NEW p, Goto(c, p), frame' = frame,
         FrameOK(p, frame[c]), Continues(c, p, frame[c])
  PROVE  Inner(c)
  <1>1. frame' = [frame EXCEPT ![c] = frame[c]]
    BY FrameFacts
  <1> QED BY <1>1 DEF Inner, Moves, Goto

LEMMA GoOnWith ==
  ASSUME NEW c \in Callers, NEW p, NEW f, Goto(c, p), frame' = [frame EXCEPT ![c] = f],
         FrameOK(p, f), Continues(c, p, f)
  PROVE  Inner(c)
  BY DEF Inner, Moves, Goto

\* The locals of a call that begins.
Called(o, s) == [NoFrame EXCEPT !.op = o, !.s = s]

LEMMA CalledFrame ==
  ASSUME NEW o \in Ops, NEW s \in Sessions
  PROVE  /\ Called(o, s) \in Frame
         /\ Called(o, s).op = o /\ Called(o, s).s = s /\ Called(o, s).lock = 0
  <1> DEFINE a == [NoFrame EXCEPT !.op = o]
             f == [a EXCEPT !.s = s]
  <1>1. NoFrame \in Frame /\ NoFrame.lock = 0
    BY DEF NoFrame, Frame, States, AcpSessionState
  <1>2. a \in Frame /\ a.op = o /\ a.lock = 0
    BY <1>1 DEF Frame
  <1> HIDE DEF a
  <1>3. f \in Frame /\ f.op = o /\ f.s = s /\ f.lock = 0
    BY <1>2 DEF Frame
  <1>4. Called(o, s) = f
    BY Zenon DEF Called, a, f
  <1> HIDE DEF f
  <1> QED BY <1>3, <1>4

LEMMA StartQuiet ==
  ASSUME AcpInv, NEW c \in Callers, NEW o \in Ops, NEW s \in Sessions, Start(c, o, s)
  PROVE  QuietStep(c)
  <1> DEFINE f == Called(o, s)
             p == CASE o \in {"cancel", "close"} -> "look"
                    [] o \in {"turn", "status", "mode"} -> "ref"
                    [] o \in {"ensure", "snapshot"} -> "clean"
  <1>1. Goto(c, p) /\ frame' = [frame EXCEPT ![c] = f] /\ pc[c] = "idle" /\ MayRun(c)
    BY DEF Start, At, Called
  <1>2. \/ o \in {"cancel", "close"} /\ p = "look"
        \/ o \in {"turn", "status", "mode"} /\ p = "ref"
        \/ o \in {"ensure", "snapshot"} /\ p = "clean"
    BY DEF Ops
  <1>3. f \in Frame /\ f.op = o /\ f.s = s /\ f.lock = 0
    BY CalledFrame
  <1> HIDE DEF f, p
  <1>4. FrameOK(p, f) /\ Outside(p, f)
    BY <1>2, <1>3 DEF FrameOK, Outside, Awaits, Synchronous, WithLock, Holding, Guarded, ControlOps
  <1>5. Outside(pc[c], frame[c])
    BY <1>1, FrameFacts, IdleFrame DEF FrameOK
  <1>6. Inner(c)
    BY <1>1, <1>2, <1>4, <1>5, GoOnWith DEF Continues
  <1> QED BY <1>1, <1>6, FrameFacts DEF QuietStep, Start, DataType, storeVars

LEMMA LookForTurnQuiet ==
  ASSUME AcpInv, NEW c \in Callers, LookForTurn(c) PROVE QuietStep(c)
  <1>1. pc[c] = "look" /\ MayRun(c) /\ FrameOK("look", frame[c])
    BY FrameFacts DEF LookForTurn, At
  <1>2. PICK p \in {"preempt", "ref"} : Goto(c, p)
    BY DEF LookForTurn
  <1>3. FrameOK(p, frame[c]) /\ Outside(p, frame[c]) /\ Outside(pc[c], frame[c])
    BY <1>1 DEF FrameOK, Outside, Awaits, Synchronous, WithLock, Holding, Guarded, ControlOps
  <1>4. Inner(c)
    BY <1>2, <1>3, GoOn DEF LookForTurn, Continues
  <1> QED BY <1>1, <1>4, FrameFacts DEF QuietStep, LookForTurn, DataType, storeVars

\* The two outcomes of store.upsert.
Wrote(c, st) ==
    /\ store' = [store EXCEPT ![sess(c)] = st]
    /\ idle' = [idle EXCEPT ![sess(c)] = FALSE]
    /\ unowned' = Noted(c, st)
    /\ UNCHANGED faults
FailedToWrite(c) == Fault /\ Leave(c) /\ unowned' = CutOff(c) /\ UNCHANGED storeVars

\* The history of Busy rows speaks of sessions only.
LEMMA HistoryType ==
  ASSUME AcpInv, NEW c \in Callers, NEW st, pc[c] # "idle"
  PROVE  Noted(c, st) \subseteq Sessions /\ CutOff(c) \subseteq Sessions
  <1>1. sess(c) \in Sessions /\ unowned \subseteq Sessions
    BY FrameFacts DEF FrameOK, sess, DataType
  <1> QED BY <1>1 DEF Noted, CutOff

LEMMA WroteType ==
  ASSUME AcpInv, NEW c \in Callers, NEW st \in States, Wrote(c, st), UNCHANGED active,
         pc[c] # "idle"
  PROVE  DataType'
  BY HistoryType, FrameFacts DEF DataType, Wrote

LEMMA FailedQuiet ==
  ASSUME AcpInv, NEW c \in Callers, FailedToWrite(c), MayLeave(c), MayRun(c),
         UNCHANGED <<runtime, active, actorVars, lost>>
  PROVE  QuietStep(c)
  <1>1. pc[c] # "idle" /\ Inner(c)
    BY LeaveMoves DEF FailedToWrite, MayLeave
  <1>2. CutOff(c) \subseteq Sessions
    BY <1>1, HistoryType
  <1>3. DataType'
    BY <1>2, FrameFacts, FaultType DEF FailedToWrite, DataType, storeVars
  <1> QED BY <1>1, <1>3 DEF QuietStep

LEMMA LeaveQuiet ==
  ASSUME AcpInv, NEW c \in Callers, Leave(c), MayLeave(c), MayRun(c),
         UNCHANGED <<runtime, storeVars, active, actorVars, faults, lost, unowned>>
  PROVE  QuietStep(c)
  BY LeaveMoves, FrameFacts DEF QuietStep, DataType, storeVars

LEMMA PreemptQuiet ==
  ASSUME AcpInv, NEW c \in Callers, Preempt(c) PROVE QuietStep(c)
  <1>1. pc[c] = "preempt" /\ MayRun(c) /\ FrameOK("preempt", frame[c])
    BY FrameFacts DEF Preempt, At
  <1>2. Outside(pc[c], frame[c]) /\ MayLeave(c)
    BY <1>1 DEF Outside, MayLeave
  <1>3. \/ Wrote(c, "Cancelling") /\ Goto(c, "cancelling") /\ frame' = frame
        \/ FailedToWrite(c)
    BY DEF Preempt, Upsert, Wrote, FailedToWrite
  <1>4. CASE Wrote(c, "Cancelling") /\ Goto(c, "cancelling") /\ frame' = frame
    <2>1. FrameOK("cancelling", frame[c]) /\ Outside("cancelling", frame[c])
      BY <1>1 DEF FrameOK, Outside, Awaits, Synchronous, WithLock, Holding, Guarded, ControlOps
    <2>2. Inner(c)
      BY <1>2, <1>4, <2>1, GoOn DEF Continues
    <2>3. DataType'
      BY <1>1, <1>4, WroteType DEF Preempt, States, AcpSessionState
    <2> QED BY <1>1, <2>2, <2>3 DEF QuietStep, Preempt
  <1> QED BY <1>1, <1>2, <1>3, <1>4, FailedQuiet DEF Preempt

LEMMA PreemptedQuiet ==
  ASSUME AcpInv, NEW c \in Callers, Preempted(c) PROVE QuietStep(c)
  <1>1. pc[c] = "cancelling" /\ MayRun(c) /\ FrameOK("cancelling", frame[c])
    BY FrameFacts DEF Preempted, At
  <1>2. Outside(pc[c], frame[c]) /\ MayLeave(c)
    BY <1>1 DEF Outside, MayLeave
  <1>3. \/ Finish(c) /\ UNCHANGED <<storeVars, faults, unowned>>
        \/ Goto(c, "ref") /\ UNCHANGED <<frame, storeVars, faults, unowned>>
        \/ Wrote(c, "Error") /\ Finish(c)
        \/ FailedToWrite(c)
    BY DEF Preempted, Upsert, Wrote, FailedToWrite
  <1>4. CASE Finish(c) /\ UNCHANGED <<storeVars, faults, unowned>>
    BY <1>1, <1>2, <1>4, FinishMoves, FrameFacts DEF QuietStep, Preempted, DataType, storeVars
  <1>5. CASE Goto(c, "ref") /\ UNCHANGED <<frame, storeVars, faults, unowned>>
    <2>1. FrameOK("ref", frame[c]) /\ Outside("ref", frame[c])
      BY <1>1 DEF FrameOK, Outside, Awaits, Synchronous, WithLock, Holding, Guarded, ControlOps
    <2>2. Inner(c)
      BY <1>2, <1>5, <2>1, GoOn DEF Continues
    <2> QED BY <1>1, <1>5, <2>2, FrameFacts DEF QuietStep, Preempted, DataType, storeVars
  <1>6. CASE Wrote(c, "Error") /\ Finish(c)
    <2>1. DataType'
      BY <1>1, <1>6, WroteType DEF Preempted, States, AcpSessionState
    <2> QED BY <1>1, <1>2, <1>6, <2>1, FinishMoves DEF QuietStep, Preempted
  <1> QED BY <1>1, <1>2, <1>3, <1>4, <1>5, <1>6, FailedQuiet DEF Preempted

\* A call goes on between two of the steps that it takes with its guard, if it
\* needs one.
LEMMA HoldsOn ==
  ASSUME AcpInv, NEW c \in Callers, pc[c] \in Holding, NEW p \in Holding, NEW f \in Frame,
         f.op = op(c), f.s = sess(c), f.lock = frame[c].lock,
         Goto(c, p), frame' = [frame EXCEPT ![c] = f],
         p \in {"busy", "register", "turn", "clear", "result"} => op(c) = "turn",
         p \in {"resolve", "touch", "create"} => op(c) \in {"turn", "ensure"},
         p \in {"control", "backend"} => op(c) \in ControlOps,
         p = "evict" => f.victim \in Sessions,
         p \in {"clear", "result"} => f.st \in {"Ready", "Error"},
         p # "unlock"
  PROVE  Inner(c)
  <1>1. FrameOK(pc[c], frame[c])
    BY FrameFacts
  <1>2. op(c) \in Ops /\ sess(c) \in Sessions
    BY <1>1 DEF FrameOK, Holding, op, sess
  <1>3. frame[c].lock # 0 <=> op(c) \in Guarded
    BY <1>1 DEF FrameOK, WithLock, op
  <1>4. FrameOK(p, f)
    BY <1>2, <1>3 DEF FrameOK, Awaits, Synchronous, WithLock, Holding
  <1>5. Continues(c, p, f)
    BY DEF Continues, Outside, Inside, Holding, op, sess
  <1> QED BY <1>4, <1>5, GoOnWith

LEMMA HoldsOnSame ==
  ASSUME AcpInv, NEW c \in Callers, pc[c] \in Holding, NEW p \in Holding,
         Goto(c, p), frame' = frame,
         p \in {"busy", "register", "turn", "clear", "result"} => op(c) = "turn",
         p \in {"resolve", "touch", "create"} => op(c) \in {"turn", "ensure"},
         p \in {"control", "backend"} => op(c) \in ControlOps,
         p = "evict" => frame[c].victim \in Sessions,
         p \in {"clear", "result"} => frame[c].st \in {"Ready", "Error"},
         p # "unlock"
  PROVE  Inner(c)
  <1>1. frame' = [frame EXCEPT ![c] = frame[c]] /\ frame[c] \in Frame
    BY FrameFacts
  <1> QED BY <1>1, HoldsOn DEF op, sess

LEMMA HolderMayLeave ==
  ASSUME AcpInv, NEW c \in Callers, pc[c] \in Holding PROVE MayLeave(c)
  BY DEF MayLeave, Holding, Outside, Inside

LEMMA ListQuiet ==
  ASSUME AcpInv, NEW c \in Callers, ListSessions(c) PROVE QuietStep(c)
  <1>1. pc[c] = "clean" /\ MayRun(c)
    BY DEF ListSessions, At
  <1>2. PICK T \in SUBSET Sessions : frame' = [frame EXCEPT ![c].scan = T]
    <2>1. {s \in Sessions : Stale(s)} \in SUBSET Sessions
      OBVIOUS
    <2> QED BY <2>1 DEF ListSessions
  <1> DEFINE f == [frame[c] EXCEPT !.scan = T]
  <1>3. frame' = [frame EXCEPT ![c] = f]
    BY <1>2
  <1>4. f \in Frame /\ f.op = op(c) /\ f.s = sess(c) /\ f.lock = frame[c].lock
    BY FrameFacts DEF Frame, op, sess
  <1> HIDE DEF f
  <1>5. Goto(c, "scan")
    BY DEF ListSessions
  <1>6. Inner(c)
    BY <1>1, <1>3, <1>4, <1>5, HoldsOn DEF Holding
  <1> QED BY <1>1, <1>6, FrameFacts DEF QuietStep, ListSessions, DataType, storeVars

\* The locals when a session has been taken from the list, or chosen.
Skipped(f, s) == [f EXCEPT !.scan = @ \ {s}]
Chosen(f, s) == [Skipped(f, s) EXCEPT !.victim = s]

LEMMA ChosenFrame ==
  ASSUME NEW f \in Frame, NEW s \in Sessions
  PROVE  /\ Skipped(f, s) \in Frame /\ Chosen(f, s) \in Frame
         /\ \A g \in {Skipped(f, s), Chosen(f, s)} : g.op = f.op /\ g.s = f.s /\ g.lock = f.lock
         /\ Chosen(f, s).victim = s
  <1> DEFINE g == Skipped(f, s)
  <1>1. g \in Frame /\ g.op = f.op /\ g.s = f.s /\ g.lock = f.lock
    BY DEF Skipped, Frame
  <1> HIDE DEF g
  <1> DEFINE h == [g EXCEPT !.victim = s]
  <1>2. h \in Frame /\ h.op = f.op /\ h.s = f.s /\ h.lock = f.lock /\ h.victim = s
    BY <1>1 DEF Frame
  <1>3. Chosen(f, s) = h
    BY DEF Chosen, g
  <1> HIDE DEF h
  <1> QED BY <1>1, <1>2, <1>3 DEF g

LEMMA InspectQuiet ==
  ASSUME AcpInv, NEW c \in Callers, NEW s \in Sessions, Inspect(c, s) PROVE QuietStep(c)
  <1>1. pc[c] = "scan" /\ MayRun(c) /\ frame \in [Callers -> Frame] /\ frame[c] \in Frame
        /\ pc \in [Callers -> Awaits \cup Synchronous]
    BY FrameFacts DEF Inspect, At
  <1>2. CASE InUse(s)
    <2>1. frame' = [frame EXCEPT ![c] = Skipped(frame[c], s)]
      BY <1>2 DEF Inspect, Skipped
    <2>2. Goto(c, "scan")
      BY <1>1, <1>2 DEF Inspect, Goto
    <2>3. Inner(c)
      BY <1>1, <2>1, <2>2, ChosenFrame, HoldsOn DEF Holding, op, sess
    <2> QED BY <1>1, <2>3, FrameFacts DEF QuietStep, Inspect, DataType, storeVars
  <1>3. CASE ~InUse(s)
    <2>1. frame' = [frame EXCEPT ![c] = Chosen(frame[c], s)]
      BY <1>3 DEF Inspect, Skipped, Chosen
    <2>2. Goto(c, "evict")
      BY <1>3 DEF Inspect
    <2>3. Inner(c)
      BY <1>1, <2>1, <2>2, ChosenFrame, HoldsOn DEF Holding, op, sess
    <2> QED BY <1>1, <2>3, FrameFacts DEF QuietStep, Inspect, DataType, storeVars
  <1> QED BY <1>2, <1>3

LEMMA EvictQuiet ==
  ASSUME AcpInv, NEW c \in Callers, Evict(c) PROVE QuietStep(c)
  <1>1. pc[c] = "evict" /\ MayRun(c) /\ frame[c].victim \in Sessions
    BY FrameFacts DEF Evict, At, FrameOK
  <1> DEFINE f == [frame[c] EXCEPT !.victim = NoSession]
  <1>2. frame' = [frame EXCEPT ![c] = f]
    BY DEF Evict
  <1>3. f \in Frame /\ f.op = op(c) /\ f.s = sess(c) /\ f.lock = frame[c].lock
    BY FrameFacts DEF Frame, op, sess
  <1> HIDE DEF f
  <1>4. Goto(c, "scan")
    BY DEF Evict
  <1>5. Inner(c)
    BY <1>1, <1>2, <1>3, <1>4, HoldsOn DEF Holding
  <1>6. DataType'
    BY <1>1, FrameFacts DEF Evict, DataType, States, AcpSessionState
  <1> QED BY <1>1, <1>5, <1>6 DEF QuietStep, Evict

LEMMA CleanedQuiet ==
  ASSUME AcpInv, NEW c \in Callers, Cleaned(c) PROVE QuietStep(c)
  <1>1. pc[c] = "scan" /\ MayRun(c)
    BY DEF Cleaned, At
  <1>2. op(c) \in Ops
    BY <1>1, FrameFacts DEF FrameOK, op
  <1>3. CASE op(c) = "snapshot"
    <2>1. Outside(pc[c], frame[c]) /\ Finish(c)
      BY <1>3 DEF Cleaned, Outside, Guarded, ControlOps, op
    <2> QED BY <1>1, <2>1, FinishMoves, FrameFacts DEF QuietStep, Cleaned, DataType, storeVars
  <1>4. CASE op(c) \in ControlOps
    <2>1. Goto(c, "control") /\ frame' = frame
      BY <1>4 DEF Cleaned, ControlOps
    <2>2. Inner(c)
      BY <1>1, <1>4, <2>1, HoldsOnSame DEF Holding
    <2> QED BY <1>1, <2>2, FrameFacts DEF QuietStep, Cleaned, DataType, storeVars
  <1>5. CASE op(c) = "ensure"
    <2>1. Goto(c, "resolve") /\ frame' = frame
      BY <1>5 DEF Cleaned, ControlOps
    <2>2. Inner(c)
      BY <1>1, <1>5, <2>1, HoldsOnSame DEF Holding
    <2> QED BY <1>1, <2>2, FrameFacts DEF QuietStep, Cleaned, DataType, storeVars
  <1>6. CASE op(c) = "turn"
    <2> DEFINE f == [frame[c] EXCEPT !.ensuring = TRUE]
    <2>1. frame' = [frame EXCEPT ![c] = f]
      BY <1>6 DEF Cleaned, ControlOps
    <2>2. f \in Frame /\ f.op = op(c) /\ f.s = sess(c) /\ f.lock = frame[c].lock
      BY FrameFacts DEF Frame, op, sess
    <2> HIDE DEF f
    <2>3. PICK p \in {"resolve", "clean"} : Goto(c, p)
      BY <1>6 DEF Cleaned, ControlOps
    <2>4. Inner(c)
      BY <1>1, <1>6, <2>1, <2>2, <2>3, HoldsOn DEF Holding
    <2> QED BY <1>1, <2>4, FrameFacts DEF QuietStep, Cleaned, DataType, storeVars
  <1> QED BY <1>2, <1>3, <1>4, <1>5, <1>6 DEF Ops, ControlOps

\* The locals of resolve_existing_session when there is a row.
Resolved(f, st) == [[f EXCEPT !.st = st] EXCEPT !.ensuring = FALSE]

LEMMA ResolvedFrame ==
  ASSUME NEW f \in Frame, NEW st \in States
  PROVE  LET g == Resolved(f, st)
         IN  g \in Frame /\ g.op = f.op /\ g.s = f.s /\ g.lock = f.lock /\ g.st = st
  <1> DEFINE a == [f EXCEPT !.st = st]
             b == [a EXCEPT !.ensuring = FALSE]
  <1>1. a \in Frame /\ a.op = f.op /\ a.s = f.s /\ a.lock = f.lock /\ a.st = st
    BY DEF Frame
  <1> HIDE DEF a
  <1>2. b \in Frame /\ b.op = f.op /\ b.s = f.s /\ b.lock = f.lock /\ b.st = st
    BY <1>1 DEF Frame
  <1>3. Resolved(f, st) = b
    BY DEF Resolved, a, b
  <1> HIDE DEF b
  <1> QED BY <1>2, <1>3

LEMMA ResolveQuiet ==
  ASSUME AcpInv, NEW c \in Callers, Resolve(c) PROVE QuietStep(c)
  <1>1. /\ pc[c] = "resolve" /\ MayRun(c) /\ frame \in [Callers -> Frame] /\ frame[c] \in Frame
        /\ op(c) \in {"turn", "ensure"} /\ sess(c) \in Sessions
        /\ store[sess(c)] \in States
    BY FrameFacts DEF Resolve, At, FrameOK, op, sess, DataType
  <1>2. CASE store[sess(c)] # "none"
    <2> DEFINE f == Resolved(frame[c], store[sess(c)])
    <2>1. frame' = [frame EXCEPT ![c] = f] /\ Goto(c, "touch")
      BY <1>1, <1>2 DEF Resolve, Resolved
    <2>2. f \in Frame /\ f.op = op(c) /\ f.s = sess(c) /\ f.lock = frame[c].lock
      BY <1>1, ResolvedFrame DEF op, sess
    <2> HIDE DEF f
    <2>3. Inner(c)
      BY <1>1, <2>1, <2>2, HoldsOn DEF Holding
    <2> QED BY <1>1, <2>3, FrameFacts DEF QuietStep, Resolve, DataType, storeVars
  <1>3. CASE Goto(c, "create") /\ frame' = [frame EXCEPT ![c].ensuring = FALSE]
    <2> DEFINE f == [frame[c] EXCEPT !.ensuring = FALSE]
    <2>1. frame' = [frame EXCEPT ![c] = f] /\ Goto(c, "create")
      BY <1>3
    <2>2. f \in Frame /\ f.op = op(c) /\ f.s = sess(c) /\ f.lock = frame[c].lock
      BY <1>1 DEF Frame, op, sess
    <2> HIDE DEF f
    <2>3. Inner(c)
      BY <1>1, <2>1, <2>2, HoldsOn DEF Holding
    <2> QED BY <1>1, <2>3, FrameFacts DEF QuietStep, Resolve, DataType, storeVars
  <1>4. CASE Leave(c)
    BY <1>1, <1>4, HolderMayLeave, LeaveQuiet DEF Resolve, Holding
  <1> QED BY <1>2, <1>3, <1>4 DEF Resolve

LEMMA EnsuredMoves ==
  ASSUME AcpInv, NEW c \in Callers, pc[c] \in {"touch", "create"}, Ensured(c) PROVE Inner(c)
  <1>1. CASE op(c) = "turn" /\ frame' = [frame EXCEPT ![c].st = "none"] /\ Goto(c, "busy")
    <2> DEFINE f == [frame[c] EXCEPT !.st = "none"]
    <2>1. frame' = [frame EXCEPT ![c] = f]
      BY <1>1
    <2>2. f \in Frame /\ f.op = op(c) /\ f.s = sess(c) /\ f.lock = frame[c].lock
      BY FrameFacts DEF Frame, op, sess, States, AcpSessionState
    <2> HIDE DEF f
    <2> QED BY <1>1, <2>1, <2>2, HoldsOn DEF Holding
  <1>2. CASE op(c) = "ensure" /\ Finish(c)
    BY <1>2, FinishMoves DEF Outside, Guarded, ControlOps, op
  <1> QED BY <1>1, <1>2 DEF Ensured

\* A write that the call goes on after.
LEMMA WroteQuiet ==
  ASSUME AcpInv, NEW c \in Callers, NEW st \in States, Wrote(c, st), Inner(c), MayRun(c),
         pc[c] # "idle", UNCHANGED <<runtime, active, actorVars, lost>>
  PROVE  QuietStep(c)
  BY WroteType DEF QuietStep

LEMMA TouchQuiet ==
  ASSUME AcpInv, NEW c \in Callers, Touch(c) PROVE QuietStep(c)
  <1>1. pc[c] = "touch" /\ MayRun(c) /\ frame[c].st \in States
    BY FrameFacts DEF Touch, At, Frame
  <1>2. (Wrote(c, frame[c].st) /\ Ensured(c)) \/ FailedToWrite(c)
    BY DEF Touch, Upsert, Wrote, FailedToWrite
  <1>3. MayLeave(c)
    BY <1>1, HolderMayLeave DEF Holding
  <1>4. CASE Wrote(c, frame[c].st) /\ Ensured(c)
    BY <1>1, <1>4, EnsuredMoves, WroteQuiet DEF Touch
  <1> QED BY <1>1, <1>2, <1>3, <1>4, FailedQuiet DEF Touch

LEMMA CreateQuiet ==
  ASSUME AcpInv, NEW c \in Callers, Create(c) PROVE QuietStep(c)
  <1>1. pc[c] = "create" /\ MayRun(c)
    BY DEF Create, At
  <1>2. \/ Wrote(c, "Ready") /\ Ensured(c)
        \/ FailedToWrite(c)
        \/ Leave(c) /\ UNCHANGED <<storeVars, faults, unowned>>
    BY DEF Create, Upsert, Wrote, FailedToWrite
  <1>3. MayLeave(c)
    BY <1>1, HolderMayLeave DEF Holding
  <1>4. CASE Wrote(c, "Ready") /\ Ensured(c)
    BY <1>1, <1>4, EnsuredMoves, WroteQuiet DEF Create, States, AcpSessionState
  <1>5. CASE Leave(c) /\ UNCHANGED <<storeVars, faults, unowned>>
    BY <1>1, <1>3, <1>5, LeaveQuiet DEF Create
  <1> QED BY <1>1, <1>2, <1>3, <1>4, <1>5, FailedQuiet DEF Create

LEMMA MarkBusyQuiet ==
  ASSUME AcpInv, NEW c \in Callers, MarkBusy(c) PROVE QuietStep(c)
  <1>1. pc[c] = "busy" /\ MayRun(c) /\ op(c) = "turn"
    BY FrameFacts DEF MarkBusy, At, FrameOK, op
  <1>2. \/ Wrote(c, "Busy") /\ Goto(c, "register") /\ frame' = frame
        \/ FailedToWrite(c)
    BY DEF MarkBusy, Upsert, Wrote, FailedToWrite
  <1>3. MayLeave(c)
    BY <1>1, HolderMayLeave DEF Holding
  <1>4. CASE Wrote(c, "Busy") /\ Goto(c, "register") /\ frame' = frame
    <2>1. Inner(c)
      BY <1>1, <1>4, HoldsOnSame DEF Holding
    <2> QED BY <1>1, <1>4, <2>1, WroteQuiet DEF MarkBusy, States, AcpSessionState
  <1> QED BY <1>1, <1>2, <1>3, <1>4, FailedQuiet DEF MarkBusy

LEMMA RegisterQuiet ==
  ASSUME AcpInv, NEW c \in Callers, RegisterTurn(c) PROVE QuietStep(c)
  <1>1. pc[c] = "register" /\ MayRun(c) /\ op(c) = "turn"
    BY FrameFacts DEF RegisterTurn, At, FrameOK, op
  <1>2. Inner(c)
    BY <1>1, HoldsOnSame DEF RegisterTurn, Holding
  <1>3. DataType'
    BY FrameFacts DEF RegisterTurn, DataType, storeVars
  <1> QED BY <1>1, <1>2, <1>3 DEF QuietStep, RegisterTurn

LEMMA EndTurnQuiet ==
  ASSUME AcpInv, NEW c \in Callers, NEW st \in {"Ready", "Error"}, EndTurn(c, st)
  PROVE  QuietStep(c)
  <1>1. pc[c] = "turn" /\ MayRun(c) /\ op(c) = "turn"
    BY FrameFacts DEF EndTurn, At, FrameOK, op
  <1> DEFINE f == [frame[c] EXCEPT !.st = st]
  <1>2. frame' = [frame EXCEPT ![c] = f] /\ Goto(c, "clear")
    BY DEF EndTurn
  <1>3. f \in Frame /\ f.op = op(c) /\ f.s = sess(c) /\ f.lock = frame[c].lock /\ f.st = st
    BY FrameFacts DEF Frame, op, sess, States, AcpSessionState
  <1> HIDE DEF f
  <1>4. Inner(c)
    BY <1>1, <1>2, <1>3, HoldsOn DEF Holding
  <1> QED BY <1>1, <1>4, FrameFacts DEF QuietStep, EndTurn, DataType, storeVars

LEMMA ClearTurnQuiet ==
  ASSUME AcpInv, NEW c \in Callers, ClearTurn(c) PROVE QuietStep(c)
  <1>1. pc[c] = "clear" /\ MayRun(c) /\ op(c) = "turn" /\ frame[c].st \in {"Ready", "Error"}
    BY FrameFacts DEF ClearTurn, At, FrameOK, op
  <1>2. Inner(c)
    BY <1>1, HoldsOnSame DEF ClearTurn, Holding
  <1>3. DataType'
    BY FrameFacts DEF ClearTurn, DataType, storeVars
  <1> QED BY <1>1, <1>2, <1>3 DEF QuietStep, ClearTurn

LEMMA StoreResultQuiet ==
  ASSUME AcpInv, NEW c \in Callers, StoreResult(c) PROVE QuietStep(c)
  <1>1. pc[c] = "result" /\ MayRun(c) /\ frame[c].st \in States
    BY FrameFacts DEF StoreResult, At, Frame
  <1>2. (Wrote(c, frame[c].st) /\ Leave(c)) \/ FailedToWrite(c)
    BY DEF StoreResult, Upsert, Wrote, FailedToWrite
  <1>3. MayLeave(c)
    BY <1>1, HolderMayLeave DEF Holding
  <1>4. CASE Wrote(c, frame[c].st) /\ Leave(c)
    BY <1>1, <1>3, <1>4, LeaveMoves, WroteQuiet DEF StoreResult
  <1> QED BY <1>1, <1>2, <1>3, <1>4, FailedQuiet DEF StoreResult

LEMMA ControlQuiet ==
  ASSUME AcpInv, NEW c \in Callers, Control(c) PROVE QuietStep(c)
  <1>1. /\ pc[c] = "control" /\ MayRun(c) /\ op(c) \in ControlOps
        /\ store[sess(c)] \in States
    BY FrameFacts DEF Control, At, FrameOK, op, sess, DataType
  <1>2. CASE Leave(c)
    BY <1>1, <1>2, HolderMayLeave, LeaveQuiet DEF Control, Holding
  <1>3. CASE frame' = [frame EXCEPT ![c].st = store[sess(c)]] /\ Goto(c, "backend")
    <2> DEFINE f == [frame[c] EXCEPT !.st = store[sess(c)]]
    <2>1. frame' = [frame EXCEPT ![c] = f]
      BY <1>3
    <2>2. f \in Frame /\ f.op = op(c) /\ f.s = sess(c) /\ f.lock = frame[c].lock
      BY <1>1, FrameFacts DEF Frame, op, sess
    <2> HIDE DEF f
    <2>3. Inner(c)
      BY <1>1, <1>3, <2>1, <2>2, HoldsOn DEF Holding
    <2> QED BY <1>1, <2>3, FrameFacts DEF QuietStep, Control, DataType, storeVars
  <1> QED BY <1>2, <1>3 DEF Control

LEMMA AnsweredQuiet ==
  ASSUME AcpInv, NEW c \in Callers, Answered(c) PROVE QuietStep(c)
  <1>1. pc[c] = "backend" /\ MayRun(c) /\ op(c) \in ControlOps /\ frame[c].st \in States
    BY FrameFacts DEF Answered, At, FrameOK, op, Frame
  <1>2. MayLeave(c)
    BY <1>1, HolderMayLeave DEF Holding
  <1>3. StatesAfter(c) \subseteq States
    BY <1>1 DEF StatesAfter, States, AcpSessionState
  <1>4. \/ \E st \in States : Wrote(c, st) /\ Leave(c)
        \/ FailedToWrite(c)
        \/ Leave(c) /\ UNCHANGED <<storeVars, faults, unowned>>
    <2>1. "Error" \in States
      BY DEF States, AcpSessionState
    <2> QED BY <1>3, <2>1 DEF Answered, Upsert, Wrote, FailedToWrite
  <1>5. CASE \E st \in States : Wrote(c, st) /\ Leave(c)
    BY <1>1, <1>2, <1>5, LeaveMoves, WroteQuiet DEF Answered
  <1>6. CASE Leave(c) /\ UNCHANGED <<storeVars, faults, unowned>>
    BY <1>1, <1>2, <1>6, LeaveQuiet DEF Answered
  <1> QED BY <1>1, <1>2, <1>4, <1>5, <1>6, FailedQuiet DEF Answered

LEMMA ClosedQuiet ==
  ASSUME AcpInv, NEW c \in Callers, Closed(c) PROVE QuietStep(c)
  <1>1. pc[c] = "backend" /\ MayRun(c) /\ sess(c) \in Sessions
    BY FrameFacts DEF Closed, At, FrameOK, sess
  <1>2. Inner(c)
    BY <1>1, HolderMayLeave, LeaveMoves DEF Closed, Holding
  <1>3. DataType'
    BY <1>1, FrameFacts DEF Closed, DataType, States, AcpSessionState
  <1> QED BY <1>1, <1>2, <1>3 DEF QuietStep, Closed

LEMMA DropCallQuiet ==
  ASSUME AcpInv, NEW c \in Callers, DropCall(c) PROVE QuietStep(c)
  <1>1. MayLeave(c)
    BY DEF DropCall, Awaits, MayLeave, Outside, Inside, Holding
  <1>2. pc[c] # "idle" /\ Inner(c) /\ MayRun(c)
    BY <1>1, LeaveMoves DEF DropCall, MayLeave
  <1>3. CutOff(c) \subseteq Sessions
    BY <1>2, HistoryType
  <1>4. DataType'
    BY <1>3, FrameFacts, FaultType DEF DropCall, DataType, storeVars
  <1> QED BY <1>2, <1>4 DEF DropCall, QuietStep

LEMMA CheckActorQuiet ==
  ASSUME AcpInv, NEW c \in Callers, CheckActor(c) PROVE QuietStep(c)
  <1>1. pc[c] = "check" /\ MayRun(c) /\ FrameOK("check", frame[c]) /\ Outside(pc[c], frame[c])
    BY FrameFacts DEF CheckActor, At, Outside
  <1>2. Inner(c)
    <2>1. CASE Finish(c)
      BY <1>1, <2>1, FinishMoves
    <2>2. CASE refs[sess(c)] = 0 /\ Goto(c, "remove") /\ frame' = frame
      <3>1. FrameOK("remove", frame[c]) /\ Outside("remove", frame[c])
        BY <1>1 DEF FrameOK, Outside, Awaits, Synchronous, WithLock, Holding
      <3>2. Continues(c, "remove", frame[c])
        BY <1>1, <2>2, <3>1 DEF Continues, sess
      <3> QED BY <2>2, <3>1, <3>2, GoOn
    <2> QED BY <2>1, <2>2 DEF CheckActor, ShouldRemoveActor
  <1> QED BY <1>1, <1>2, FrameFacts DEF QuietStep, CheckActor, DataType, storeVars

\* The steps of a caller that leave the registries and the queues alone.
Quiet(c) ==
    \/ \E o \in Ops, s \in Sessions : Start(c, o, s)
    \/ CheckActor(c) \/ CleanupStep(c) \/ TurnStep(c) \/ ControlStep(c) \/ DropCall(c)

LEMMA QuietSteps == ASSUME AcpInv, NEW c \in Callers, Quiet(c) PROVE QuietStep(c)
  <1>1. CASE CleanupStep(c)
    BY <1>1, ListQuiet, InspectQuiet, EvictQuiet, CleanedQuiet DEF CleanupStep
  <1>2. CASE TurnStep(c)
    BY <1>2, ResolveQuiet, TouchQuiet, CreateQuiet, MarkBusyQuiet, RegisterQuiet, EndTurnQuiet,
       ClearTurnQuiet, StoreResultQuiet DEF TurnStep
  <1>3. CASE ControlStep(c)
    BY <1>3, LookForTurnQuiet, PreemptQuiet, PreemptedQuiet, ControlQuiet, AnsweredQuiet,
       ClosedQuiet DEF ControlStep
  <1> QED BY <1>1, <1>2, <1>3, StartQuiet, CheckActorQuiet, DropCallQuiet DEF Quiet

-----------------------------------------------------------------------------
(* The steps of the protocol                                               *)

\* A step of caller c between two other states of FrameOK.
LEMMA MovesFrames ==
  ASSUME AcpInv, NEW c \in Callers, NEW p, NEW f, Moves(c, p, f), FrameOK(p, f)
  PROVE  /\ pc' \in [Callers -> Awaits \cup Synchronous] /\ frame' \in [Callers -> Frame]
         /\ \A d \in Callers : FrameOK(pc[d], frame[d])'
         /\ pc'[c] = p /\ frame'[c] = f
         /\ \A d \in Callers \ {c} : pc'[d] = pc[d] /\ frame'[d] = frame[d]
  <1>1. /\ pc \in [Callers -> Awaits \cup Synchronous] /\ frame \in [Callers -> Frame]
        /\ \A d \in Callers : FrameOK(pc[d], frame[d])
    BY DEF AcpInv, AcpTypeOK
  <1>2. f \in Frame /\ p \in Awaits \cup Synchronous
    BY DEF FrameOK
  <1>3. pc'[c] = p /\ frame'[c] = f
    BY <1>1 DEF Moves
  <1>4. \A d \in Callers \ {c} : pc'[d] = pc[d] /\ frame'[d] = frame[d]
    BY <1>1 DEF Moves
  <1>5. \A d \in Callers : FrameOK(pc'[d], frame'[d])
    BY <1>1, <1>3, <1>4
  <1>6. \A d \in Callers : FrameOK(pc[d], frame[d])'
    BY <1>5 DEF FrameOK
  <1> QED BY <1>1, <1>2, <1>3, <1>4, <1>6 DEF Moves

\* What a step of the protocol does to the registries and the queues.
Registries ==
    /\ actorLock \in [Sessions -> LockIds \cup {0}]
    /\ DOMAIN queue = LockIds /\ \A l \in LockIds : queue[l] \in Seq(Callers)
    /\ refs \in [Sessions -> Nat] /\ pending \in [Sessions -> Nat]
    /\ lost \in [Sessions -> [refs : Nat, turns : Nat]]
    /\ runtime \in {"current_thread", "multi_thread"}

LEMMA InvParts ==
  ASSUME AcpInv PROVE Registries /\ DataType
  BY DEF AcpInv, AcpTypeOK, Registries, DataType

LEMMA InvFromParts ==
  ASSUME AcpInv, NEW c \in Callers, NEW p, NEW f, Moves(c, p, f), FrameOK(p, f),
         Registries', DataType'
  PROVE  AcpInv'
  BY MovesFrames DEF AcpInv, AcpTypeOK, Registries, DataType

LEMMA QuietInv == ASSUME AcpInv, NEW c \in Callers, QuietStep(c) PROVE AcpInv'
  <1>1. Registries'
    BY InvParts DEF QuietStep, Registries, actorVars
  <1> QED BY <1>1, InvFromParts DEF QuietStep, Inner

\* A step that only moves the caller to the next step of the protocol.
LEMMA StaysMoves ==
  ASSUME AcpInv, NEW c \in Callers, NEW p, Goto(c, p), frame' = frame PROVE Moves(c, p, frame[c])
  BY FrameFacts DEF Moves, Goto

LEMMA IncrementRefMoves ==
  ASSUME AcpInv, NEW c \in Callers, IncrementRef(c)
  PROVE  /\ pc[c] = "ref" /\ op(c) \in Guarded /\ sess(c) \in Sessions
         /\ LET p == IF op(c) = "turn" THEN "pend" ELSE "join"
            IN  Moves(c, p, frame[c]) /\ FrameOK(p, frame[c])
         /\ Registries' /\ DataType'
  <1>1. pc[c] = "ref" /\ FrameOK("ref", frame[c])
    BY FrameFacts DEF IncrementRef, At
  <1>2. op(c) \in Guarded /\ sess(c) \in Sessions
    BY <1>1 DEF FrameOK, op, sess
  <1> DEFINE p == IF op(c) = "turn" THEN "pend" ELSE "join"
  <1>3. Moves(c, p, frame[c])
    <2> HIDE DEF p
    <2>1. Goto(c, p) /\ frame' = frame
      BY DEF IncrementRef, p
    <2> QED BY <2>1, StaysMoves
  <1>4. FrameOK(p, frame[c])
    BY <1>1 DEF FrameOK, Awaits, Synchronous, WithLock, Holding, op
  <1>5. Registries' /\ DataType'
    BY <1>2, InvParts DEF IncrementRef, Registries, DataType, storeVars
  <1> QED BY <1>1, <1>2, <1>3, <1>4, <1>5

LEMMA IncrementPendingMoves ==
  ASSUME AcpInv, NEW c \in Callers, IncrementPending(c)
  PROVE  /\ pc[c] = "pend" /\ op(c) = "turn" /\ sess(c) \in Sessions
         /\ Moves(c, "join", frame[c]) /\ FrameOK("join", frame[c])
         /\ Registries' /\ DataType'
  <1>1. pc[c] = "pend" /\ FrameOK("pend", frame[c])
    BY FrameFacts DEF IncrementPending, At
  <1>2. op(c) = "turn" /\ sess(c) \in Sessions
    BY <1>1 DEF FrameOK, op, sess
  <1>3. Moves(c, "join", frame[c])
    BY StaysMoves DEF IncrementPending
  <1>4. FrameOK("join", frame[c])
    BY <1>1 DEF FrameOK, Awaits, Synchronous, WithLock, Holding, Guarded
  <1>5. Registries' /\ DataType'
    BY <1>2, InvParts DEF IncrementPending, Registries, DataType, storeVars
  <1> QED BY <1>1, <1>2, <1>3, <1>4, <1>5

\* The locals once the caller has joined the queue of mutex l.
Joined(f, l) == [f EXCEPT !.lock = l]

LEMMA JoinMoves ==
  ASSUME AcpInv, NEW c \in Callers, Join(c)
  PROVE  /\ pc[c] = "join" /\ op(c) \in Guarded /\ sess(c) \in Sessions /\ frame[c].lock = 0
         /\ ActorFor(sess(c)) \in LockIds
         /\ LET f == Joined(frame[c], ActorFor(sess(c)))
            IN  /\ Moves(c, "wait", f) /\ FrameOK("wait", f)
                /\ f.op = op(c) /\ f.s = sess(c) /\ f.lock = ActorFor(sess(c))
         /\ Registries' /\ DataType'
  <1>1. pc[c] = "join" /\ FrameOK("join", frame[c])
    BY FrameFacts DEF Join, At
  <1>2. op(c) \in Guarded /\ sess(c) \in Sessions /\ frame[c].lock = 0
    BY <1>1 DEF FrameOK, op, sess, WithLock, Holding
  <1> DEFINE l == ActorFor(sess(c))
             f == Joined(frame[c], l)
  <1>3. l \in LockIds
    BY <1>2, FreshLockExists, InvParts DEF ActorFor, Registries
  <1> HIDE DEF l
  <1>4. f \in Frame /\ f.op = op(c) /\ f.s = sess(c) /\ f.lock = l
    BY <1>3, FrameFacts DEF Joined, Frame, op, sess
  <1>5. Moves(c, "wait", f)
    BY FrameFacts DEF Join, Moves, Goto, Joined, l
  <1> HIDE DEF f
  <1>6. FrameOK("wait", f)
    <2>1. l # 0
      BY <1>3, FiniteAssumption, FS_CardinalityType DEF LockIds
    <2> QED BY <1>1, <1>2, <1>4, <2>1 DEF FrameOK, Awaits, Synchronous, WithLock, Guarded, ControlOps, op, sess
  <1>7. DataType'
    BY InvParts DEF Join, DataType, storeVars
  <1>8. Registries'
    <2>1. queue' = [queue EXCEPT ![l] = Append(queue[l], c)]
      BY DEF Join, l
    <2>2. actorLock' = [actorLock EXCEPT ![sess(c)] = l] /\ UNCHANGED <<runtime, refs, pending, lost>>
      BY DEF Join, l
    <2> QED BY <1>2, <1>3, <2>1, <2>2, InvParts DEF Registries
  <1> QED BY <1>1, <1>2, <1>3, <1>4, <1>5, <1>6, <1>7, <1>8 DEF l, f

-----------------------------------------------------------------------------
(* The queues                                                              *)

InQueue(p) == p \in Holding \cup {"wait"}

\* The callers of a queue have its mutex, and only the first may have been
\* handed it; ...
QueuedOK ==
    \A l \in LockIds : \A i \in DOMAIN queue[l] :
        /\ frame[queue[l][i]].lock = l /\ InQueue(pc[queue[l][i]])
        /\ i # 1 => pc[queue[l][i]] = "wait"
\* ... nobody is in a queue twice; ...
QueuedOnce ==
    \A l \in LockIds : \A i, j \in DOMAIN queue[l] : queue[l][i] = queue[l][j] => i = j
\* ... whoever needs a mutex is in its queue.
QueuesComplete ==
    \A c \in Callers : frame[c].lock # 0 /\ InQueue(pc[c]) =>
        \E i \in DOMAIN queue[frame[c].lock] : queue[frame[c].lock][i] = c
QueueInv == QueuedOK /\ QueuedOnce /\ QueuesComplete

LEMMA WithoutFacts ==
  ASSUME NEW q \in Seq(Callers), NEW c, NEW k \in DOMAIN q, q[k] = c,
         \A i, j \in DOMAIN q : q[i] = q[j] => i = j
  PROVE  LET w == Without(q, c)
         IN  /\ w \in Seq(Callers)
             /\ \A i \in DOMAIN w : \E j \in DOMAIN q : j >= i /\ w[i] = q[j] /\ q[j] # c
             /\ \A i, j \in DOMAIN w : w[i] = w[j] => i = j
             /\ \A j \in DOMAIN q : q[j] # c => \E i \in DOMAIN w : w[i] = q[j]
  <1> DEFINE place == CHOOSE i \in DOMAIN q : q[i] = c
             n == Len(q)
             w == [i \in 1..n - 1 |-> IF i < place THEN q[i] ELSE q[i + 1]]
  <1>1. place \in DOMAIN q /\ q[place] = c
    OBVIOUS
  <1> HIDE DEF place
  <1>2. n \in Nat /\ DOMAIN q = 1..n /\ n >= 1 /\ n - 1 \in Nat
    BY <1>1
  <1>3. \A i \in 1..n : q[i] \in Callers
    BY <1>2
  <1> HIDE DEF n
  <1>4. DOMAIN w = 1..n - 1 /\ \A i \in 1..n - 1 : w[i] = IF i < place THEN q[i] ELSE q[i + 1]
    OBVIOUS
  <1>5. w \in Seq(Callers)
    <2>1. w \in [1..n - 1 -> Callers]
      BY <1>2, <1>3
    <2> HIDE DEF w
    <2> QED BY <1>2, <2>1
  <1> HIDE DEF w
  <1>6. \A i \in DOMAIN w : \E j \in DOMAIN q : j >= i /\ w[i] = q[j] /\ q[j] # c
    <2> SUFFICES ASSUME NEW i \in 1..n - 1
                 PROVE  \E j \in 1..n : j >= i /\ w[i] = q[j] /\ q[j] # c
      BY <1>2, <1>4
    <2>1. CASE i < place
      BY <1>1, <1>2, <1>4, <2>1
    <2>2. CASE ~(i < place)
      BY <1>1, <1>2, <1>4, <2>2
    <2> QED BY <2>1, <2>2
  <1>7. \A i, j \in DOMAIN w : w[i] = w[j] => i = j
    <2> SUFFICES ASSUME NEW i \in 1..n - 1, NEW j \in 1..n - 1, w[i] = w[j] PROVE i = j
      BY <1>4
    <2> DEFINE at(x) == IF x < place THEN x ELSE x + 1
    <2>1. at(i) \in 1..n /\ at(j) \in 1..n /\ (at(i) = at(j) => i = j)
      BY <1>1, <1>2
    <2>2. w[i] = q[at(i)] /\ w[j] = q[at(j)]
      BY <1>4
    <2> HIDE DEF at
    <2>3. at(i) = at(j)
      BY <1>2, <2>1, <2>2
    <2> QED BY <2>1, <2>3
  <1>8. \A j \in DOMAIN q : q[j] # c => \E i \in DOMAIN w : w[i] = q[j]
    <2> SUFFICES ASSUME NEW j \in 1..n, q[j] # c PROVE \E i \in 1..n - 1 : w[i] = q[j]
      BY <1>2, <1>4
    <2>1. CASE j < place
      <3>1. j \in 1..n - 1 /\ w[j] = q[j]
        BY <1>1, <1>2, <1>4, <2>1
      <3> QED BY <3>1
    <2>2. CASE j > place
      <3>1. j - 1 \in 1..n - 1 /\ ~(j - 1 < place) /\ j - 1 + 1 = j
        BY <1>1, <1>2, <2>2
      <3>2. w[j - 1] = q[j]
        BY <1>4, <3>1
      <3> QED BY <3>1, <3>2
    <2> QED BY <1>1, <1>2, <2>1, <2>2
  <1>9. Without(q, c) = w
    BY DEF Without, w, n, place
  <1> QED BY <1>5, <1>6, <1>7, <1>8, <1>9

\* A caller with a mutex, that waits for it or owns it, is in its queue; the
\* one that owns it is the first.
LEMMA InItsQueue ==
  ASSUME AcpInv, QueueInv, NEW c \in Callers, op(c) \in Guarded, InQueue(pc[c])
  PROVE  /\ frame[c].lock \in LockIds /\ queue[frame[c].lock] \in Seq(Callers)
         /\ \E k \in DOMAIN queue[frame[c].lock] :
               /\ queue[frame[c].lock][k] = c
               /\ pc[c] # "wait" => k = 1
  <1>1. frame[c].lock # 0 /\ frame[c].lock \in LockIds
    BY FrameFacts DEF FrameOK, InQueue, WithLock, op, Frame
  <1>2. queue[frame[c].lock] \in Seq(Callers)
    BY <1>1, InvParts DEF Registries
  <1> QED BY <1>1, <1>2 DEF QueueInv, QueuesComplete, QueuedOK

LEMMA AcquireMoves ==
  ASSUME AcpInv, NEW c \in Callers, Acquire(c)
  PROVE  /\ pc[c] = "wait" /\ op(c) \in Guarded /\ sess(c) \in Sessions /\ frame[c].lock # 0
         /\ Moves(c, "clean", frame[c]) /\ FrameOK("clean", frame[c])
         /\ Registries' /\ DataType'
  <1>1. pc[c] = "wait" /\ FrameOK("wait", frame[c])
    BY FrameFacts DEF Acquire, At
  <1>2. op(c) \in Guarded /\ sess(c) \in Sessions /\ frame[c].lock # 0
    BY <1>1 DEF FrameOK, op, sess, WithLock
  <1>3. Moves(c, "clean", frame[c])
    BY StaysMoves DEF Acquire
  <1>4. FrameOK("clean", frame[c])
    BY <1>1 DEF FrameOK, Awaits, Synchronous, WithLock, Holding
  <1>5. Registries' /\ DataType'
    BY InvParts DEF Acquire, Registries, DataType, storeVars, actorVars
  <1> QED BY <1>1, <1>2, <1>3, <1>4, <1>5

\* A caller leaves its queue.
LeavesQueue(c) == queue' = [queue EXCEPT ![frame[c].lock] = Without(queue[frame[c].lock], c)]

LEMMA UnlockMoves ==
  ASSUME AcpInv, QueueInv, NEW c \in Callers, Unlock(c)
  PROVE  /\ pc[c] = "unlock" /\ op(c) \in Guarded /\ sess(c) \in Sessions
         /\ LET p == IF op(c) = "turn" THEN "unpend" ELSE "unref"
            IN  Moves(c, p, frame[c]) /\ FrameOK(p, frame[c])
         /\ LeavesQueue(c)
         /\ Registries' /\ DataType'
  <1>1. pc[c] = "unlock" /\ FrameOK("unlock", frame[c])
    BY FrameFacts DEF Unlock, At
  <1>2. op(c) \in Guarded /\ sess(c) \in Sessions
    BY <1>1 DEF FrameOK, op, sess
  <1> DEFINE p == IF op(c) = "turn" THEN "unpend" ELSE "unref"
  <1>3. Moves(c, p, frame[c])
    <2> HIDE DEF p
    <2>1. Goto(c, p) /\ frame' = frame
      BY DEF Unlock, p
    <2> QED BY <2>1, StaysMoves
  <1>4. FrameOK(p, frame[c])
    BY <1>1 DEF FrameOK, Awaits, Synchronous, WithLock, Holding, op
  <1>5. LeavesQueue(c)
    BY DEF Unlock, Unlocked, LeavesQueue
  <1>6. DataType'
    BY InvParts DEF Unlock, DataType, storeVars
  <1>7. Registries'
    <2>1. /\ frame[c].lock \in LockIds /\ queue[frame[c].lock] \in Seq(Callers)
          /\ \E k \in DOMAIN queue[frame[c].lock] : queue[frame[c].lock][k] = c
      BY <1>1, <1>2, InItsQueue DEF InQueue, Holding
    <2>2. Without(queue[frame[c].lock], c) \in Seq(Callers)
      BY <2>1, WithoutFacts DEF QueueInv, QueuedOnce
    <2>3. UNCHANGED <<runtime, actorLock, refs, pending, lost>>
      BY DEF Unlock
    <2> QED BY <1>5, <2>1, <2>2, <2>3, InvParts DEF Registries, LeavesQueue
  <1> QED BY <1>1, <1>2, <1>3, <1>4, <1>5, <1>6, <1>7

LEMMA DecrementPendingMoves ==
  ASSUME AcpInv, NEW c \in Callers, DecrementPending(c)
  PROVE  /\ pc[c] = "unpend" /\ op(c) = "turn" /\ sess(c) \in Sessions
         /\ Moves(c, "unref", frame[c]) /\ FrameOK("unref", frame[c])
         /\ Registries' /\ DataType'
  <1>1. pc[c] = "unpend" /\ FrameOK("unpend", frame[c])
    BY FrameFacts DEF DecrementPending, At
  <1>2. op(c) = "turn" /\ sess(c) \in Sessions
    BY <1>1 DEF FrameOK, op, sess
  <1>3. Moves(c, "unref", frame[c])
    BY StaysMoves DEF DecrementPending
  <1>4. FrameOK("unref", frame[c])
    BY <1>1 DEF FrameOK, Awaits, Synchronous, WithLock, Holding, Guarded
  <1>5. Registries' /\ DataType'
    BY <1>2, InvParts DEF DecrementPending, Registries, DataType, storeVars, Decrement
  <1> QED BY <1>1, <1>2, <1>3, <1>4, <1>5

LEMMA DecrementRefMoves ==
  ASSUME AcpInv, NEW c \in Callers, DecrementRef(c)
  PROVE  /\ pc[c] = "unref" /\ op(c) \in Guarded /\ sess(c) \in Sessions
         /\ Moves(c, "check", frame[c]) /\ FrameOK("check", frame[c])
         /\ Registries' /\ DataType'
  <1>1. pc[c] = "unref" /\ FrameOK("unref", frame[c])
    BY FrameFacts DEF DecrementRef, At
  <1>2. op(c) \in Guarded /\ sess(c) \in Sessions
    BY <1>1 DEF FrameOK, op, sess
  <1>3. Moves(c, "check", frame[c])
    BY StaysMoves DEF DecrementRef
  <1>4. FrameOK("check", frame[c])
    BY <1>1 DEF FrameOK, Awaits, Synchronous, WithLock, Holding
  <1>5. Registries' /\ DataType'
    BY <1>2, InvParts DEF DecrementRef, Registries, DataType, storeVars, Decrement
  <1> QED BY <1>1, <1>2, <1>3, <1>4, <1>5

LEMMA RemoveActorMoves ==
  ASSUME AcpInv, NEW c \in Callers, RemoveActor(c)
  PROVE  /\ pc[c] = "remove" /\ op(c) \in Guarded /\ sess(c) \in Sessions
         /\ Moves(c, "idle", NoFrame) /\ FrameOK("idle", NoFrame)
         /\ Registries' /\ DataType'
  <1>1. pc[c] = "remove" /\ FrameOK("remove", frame[c])
    BY FrameFacts DEF RemoveActor, At
  <1>2. op(c) \in Guarded /\ sess(c) \in Sessions
    BY <1>1 DEF FrameOK, op, sess
  <1>3. Moves(c, "idle", NoFrame)
    BY DEF RemoveActor, Finish, Goto, Moves
  <1>4. Registries' /\ DataType'
    BY <1>2, InvParts DEF RemoveActor, Registries, DataType, storeVars
  <1> QED BY <1>1, <1>2, <1>3, <1>4, IdleFrame

\* What is lost with a wait that is dropped.
LEMMA DropWaitMoves ==
  ASSUME AcpInv, QueueInv, NEW c \in Callers, DropWait(c)
  PROVE  /\ pc[c] = "wait" /\ op(c) \in Guarded /\ sess(c) \in Sessions
         /\ Moves(c, "idle", NoFrame) /\ FrameOK("idle", NoFrame)
         /\ LeavesQueue(c)
         /\ \A s \in Sessions \ {sess(c)} : lost'[s] = lost[s]
         /\ lost'[sess(c)].refs = lost[sess(c)].refs + 1
         /\ lost'[sess(c)].turns = lost[sess(c)].turns + (IF op(c) = "turn" THEN 1 ELSE 0)
         /\ Registries' /\ DataType'
  <1>1. pc[c] = "wait" /\ FrameOK("wait", frame[c])
    BY FrameFacts DEF DropWait, At
  <1>2. op(c) \in Guarded /\ sess(c) \in Sessions
    BY <1>1 DEF FrameOK, op, sess
  <1>3. Moves(c, "idle", NoFrame)
    BY DEF DropWait, Finish, Goto, Moves
  <1>4. LeavesQueue(c)
    BY DEF DropWait, LeavesQueue
  <1>5. DataType'
    BY InvParts, FaultType DEF DropWait, DataType, storeVars
  <1> DEFINE old == lost[sess(c)]
             new == [refs |-> old.refs + 1,
                     turns |-> IF op(c) = "turn" THEN old.turns + 1 ELSE old.turns]
  <1>6. lost \in [Sessions -> [refs : Nat, turns : Nat]] /\ old \in [refs : Nat, turns : Nat]
    BY <1>2, InvParts DEF Registries
  <1>7. lost' = [lost EXCEPT ![sess(c)] = new]
    BY DEF DropWait
  <1>8. /\ new \in [refs : Nat, turns : Nat] /\ new.refs = old.refs + 1
        /\ new.turns = old.turns + (IF op(c) = "turn" THEN 1 ELSE 0)
    BY <1>6
  <1> HIDE DEF new
  <1>9. /\ lost' \in [Sessions -> [refs : Nat, turns : Nat]] /\ lost'[sess(c)] = new
        /\ \A s \in Sessions \ {sess(c)} : lost'[s] = lost[s]
    BY <1>2, <1>6, <1>7, <1>8
  <1>10. Registries'
    <2>1. /\ frame[c].lock \in LockIds /\ queue[frame[c].lock] \in Seq(Callers)
          /\ \E k \in DOMAIN queue[frame[c].lock] : queue[frame[c].lock][k] = c
      BY <1>1, <1>2, InItsQueue DEF InQueue
    <2>2. Without(queue[frame[c].lock], c) \in Seq(Callers)
      BY <2>1, WithoutFacts DEF QueueInv, QueuedOnce
    <2>3. UNCHANGED <<runtime, actorLock, refs, pending>>
      BY DEF DropWait
    <2> QED BY <1>4, <1>9, <2>1, <2>2, <2>3, InvParts DEF Registries, LeavesQueue
  <1> QED BY <1>1, <1>2, <1>3, <1>4, <1>5, <1>8, <1>9, <1>10, IdleFrame

LEMMA RestartInv == ASSUME AcpInv, Restart PROVE AcpInv'
  <1>1. DataType'
    BY InvParts, FaultType DEF Restart, DataType, storeVars
  <1>2. Registries'
    <2>1. lost' \in [Sessions -> [refs : Nat, turns : Nat]]
      BY DEF Restart
    <2>2. queue' = [l \in LockIds |-> <<>>]
      BY DEF Restart
    <2> QED BY <2>1, <2>2, InvParts DEF Restart, Registries
  <1>3. /\ pc' \in [Callers -> Awaits \cup Synchronous] /\ frame' \in [Callers -> Frame]
        /\ \A d \in Callers : FrameOK(pc[d], frame[d])'
    <2>1. \A d \in Callers : pc'[d] = "idle" /\ frame'[d] = NoFrame
      BY DEF Restart
    <2>2. \A d \in Callers : FrameOK(pc'[d], frame'[d])
      BY <2>1, IdleFrame
    <2>3. "idle" \in Awaits \cup Synchronous /\ NoFrame \in Frame
      BY IdleFrame DEF FrameOK
    <2> QED BY <2>2, <2>3 DEF Restart, FrameOK
  <1> QED BY <1>1, <1>2, <1>3 DEF AcpInv, AcpTypeOK, Registries, DataType

LEMMA GoIdleInv == ASSUME AcpInv, NEW s \in Sessions, GoIdle(s) PROVE AcpInv'
  BY DEF GoIdle, actorVars, AcpInv, AcpTypeOK, FrameOK

Member(p, f) == f.lock # 0 /\ InQueue(p)

\* The queues stay as they are when the caller is in none before and after, or
\* stays in its queue and owns the mutex only as the first of it.
LEMMA QueueKept ==
  ASSUME AcpInv, QueueInv, NEW c \in Callers, NEW p, NEW f, Moves(c, p, f), FrameOK(p, f),
         UNCHANGED queue,
         \/ ~Member(pc[c], frame[c]) /\ ~Member(p, f)
         \/ /\ Member(pc[c], frame[c]) /\ Member(p, f) /\ f.lock = frame[c].lock
            /\ pc[c] # "wait" \/ Head(queue[f.lock]) = c
  PROVE  QueueInv'
  <1>1. /\ pc'[c] = p /\ frame'[c] = f
        /\ \A d \in Callers \ {c} : pc'[d] = pc[d] /\ frame'[d] = frame[d]
    BY MovesFrames
  <1>2. \A l \in LockIds : queue[l] \in Seq(Callers) /\ l # 0
    BY InvParts, FiniteAssumption, FS_CardinalityType DEF Registries, LockIds
  <1>3. QueuedOnce'
    BY DEF QueueInv, QueuedOnce
  <1>4. QueuesComplete'
    BY <1>1 DEF QueueInv, QueuesComplete, Member, InQueue
  <1>5. QueuedOK'
    <2> SUFFICES ASSUME NEW l \in LockIds, NEW i \in DOMAIN queue[l]
                 PROVE  LET d == queue[l][i]
                        IN  /\ frame'[d].lock = l /\ InQueue(pc'[d])
                            /\ i # 1 => pc'[d] = "wait"
      BY DEF QueuedOK, InQueue
    <2> DEFINE d == queue[l][i]
    <2>1. d \in Callers /\ frame[d].lock = l /\ InQueue(pc[d]) /\ (i # 1 => pc[d] = "wait")
      BY <1>2 DEF QueueInv, QueuedOK
    <2>2. CASE d # c
      BY <1>1, <2>1, <2>2
    <2>3. CASE d = c
      <3>1. Member(pc[c], frame[c])
        BY <1>2, <2>1, <2>3 DEF Member
      <3>2. Member(p, f) /\ f.lock = l
        BY <2>1, <2>3, <3>1
      <3>3. i = 1
        <4>1. CASE pc[c] # "wait"
          BY <2>1, <2>3, <4>1
        <4>2. CASE Head(queue[l]) = c
          <5>1. 1 \in DOMAIN queue[l] /\ queue[l][1] = c
            BY <1>2, <4>2
          <5> QED BY <2>3, <5>1 DEF QueueInv, QueuedOnce
        <4> QED BY <3>1, <3>2, <4>1, <4>2
      <3> QED BY <1>1, <2>3, <3>2, <3>3 DEF Member
    <2> QED BY <2>2, <2>3
  <1> QED BY <1>3, <1>4, <1>5 DEF QueueInv

\* The caller leaves its queue.
LEMMA QueueLeft ==
  ASSUME AcpInv, QueueInv, NEW c \in Callers, NEW p, NEW f, Moves(c, p, f), FrameOK(p, f),
         LeavesQueue(c), op(c) \in Guarded, InQueue(pc[c]), ~Member(p, f)
  PROVE  QueueInv'
  <1>1. /\ pc'[c] = p /\ frame'[c] = f
        /\ \A d \in Callers \ {c} : pc'[d] = pc[d] /\ frame'[d] = frame[d]
    BY MovesFrames
  <1>2. \A l \in LockIds : queue[l] \in Seq(Callers) /\ l # 0
    BY InvParts, FiniteAssumption, FS_CardinalityType DEF Registries, LockIds
  <1> DEFINE m == frame[c].lock
             q == queue[m]
             w == Without(q, c)
  <1>3. m \in LockIds /\ q \in Seq(Callers) /\ \E k \in DOMAIN q : q[k] = c
    BY InItsQueue
  <1>4. \A i, j \in DOMAIN q : q[i] = q[j] => i = j
    BY <1>3 DEF QueueInv, QueuedOnce
  <1>5. /\ w \in Seq(Callers)
        /\ \A i \in DOMAIN w : \E j \in DOMAIN q : j >= i /\ w[i] = q[j] /\ q[j] # c
        /\ \A i, j \in DOMAIN w : w[i] = w[j] => i = j
        /\ \A j \in DOMAIN q : q[j] # c => \E i \in DOMAIN w : w[i] = q[j]
    <2> HIDE DEF q, m
    <2> QED BY <1>3, <1>4, WithoutFacts
  <1>6. queue'[m] = w /\ \A l \in LockIds \ {m} : queue'[l] = queue[l]
    BY <1>3, InvParts DEF LeavesQueue, Registries
  <1> HIDE DEF w
  <1>7. QueuedOnce'
    BY <1>5, <1>6 DEF QueueInv, QueuedOnce
  <1>8. QueuesComplete'
    <2> SUFFICES ASSUME NEW d \in Callers, Member(pc'[d], frame'[d])
                 PROVE  \E i \in DOMAIN queue'[frame'[d].lock] : queue'[frame'[d].lock][i] = d
      BY DEF QueuesComplete, Member, InQueue
    <2>1. d # c
      BY <1>1
    <2>2. pc'[d] = pc[d] /\ frame'[d] = frame[d]
      BY <1>1, <2>1
    <2>3. \E i \in DOMAIN queue[frame[d].lock] : queue[frame[d].lock][i] = d
      BY <2>2 DEF QueueInv, QueuesComplete, Member
    <2>4. frame[d].lock \in LockIds
      BY <2>2, FrameFacts DEF Member, Frame
    <2>5. CASE frame[d].lock = m
      BY <1>5, <1>6, <2>1, <2>2, <2>3, <2>5
    <2>6. CASE frame[d].lock # m
      BY <1>6, <2>2, <2>3, <2>4, <2>6
    <2> QED BY <2>5, <2>6
  <1>9. QueuedOK'
    <2> SUFFICES ASSUME NEW l \in LockIds, NEW i \in DOMAIN queue'[l]
                 PROVE  LET d == queue'[l][i]
                        IN  /\ frame'[d].lock = l /\ InQueue(pc'[d])
                            /\ i # 1 => pc'[d] = "wait"
      BY DEF QueuedOK, InQueue
    <2> DEFINE d == queue'[l][i]
    <2>1. CASE l = m
      <3>1. PICK j \in DOMAIN q : j >= i /\ w[i] = q[j] /\ q[j] # c
        BY <1>5, <1>6, <2>1
      <3>2. d = q[j] /\ d # c /\ d \in Callers
        BY <1>3, <1>6, <2>1, <3>1
      <3>3. frame[d].lock = l /\ InQueue(pc[d]) /\ (j # 1 => pc[d] = "wait")
        BY <1>3, <2>1, <3>2 DEF QueueInv, QueuedOK
      <3>4. i # 1 => j # 1
        <4>1. i \in Nat \ {0} /\ j \in Nat
          BY <1>3, <1>5, <1>6, <2>1
        <4> QED BY <3>1, <4>1
      <3> QED BY <1>1, <3>2, <3>3, <3>4
    <2>2. CASE l # m
      <3>1. queue'[l] = queue[l]
        BY <1>6, <2>2
      <3>2. d \in Callers /\ frame[d].lock = l /\ InQueue(pc[d]) /\ (i # 1 => pc[d] = "wait")
        BY <1>2, <3>1 DEF QueueInv, QueuedOK
      <3> QED BY <1>1, <2>2, <3>2
    <2> QED BY <2>1, <2>2
  <1> QED BY <1>7, <1>8, <1>9 DEF QueueInv

\* The caller joins a queue.
LEMMA QueueJoined ==
  ASSUME AcpInv, QueueInv, NEW c \in Callers, Join(c) PROVE QueueInv'
  <1> DEFINE m == ActorFor(sess(c))
             f == Joined(frame[c], m)
             q == queue[m]
  <1>1. m \in LockIds /\ Moves(c, "wait", f) /\ FrameOK("wait", f) /\ f.lock = m
        /\ frame[c].lock = 0
    BY JoinMoves
  <1>2. /\ pc'[c] = "wait" /\ frame'[c] = f
        /\ \A d \in Callers \ {c} : pc'[d] = pc[d] /\ frame'[d] = frame[d]
    BY <1>1, MovesFrames
  <1>3. \A l \in LockIds : queue[l] \in Seq(Callers) /\ l # 0
    BY InvParts, FiniteAssumption, FS_CardinalityType DEF Registries, LockIds
  <1>4. queue'[m] = Append(q, c) /\ \A l \in LockIds \ {m} : queue'[l] = queue[l]
    BY <1>1, InvParts DEF Join, Registries
  <1>5. \A l \in LockIds : \A i \in DOMAIN queue[l] : queue[l][i] # c /\ queue[l][i] \in Callers
    BY <1>1, <1>3 DEF QueueInv, QueuedOK
  <1> HIDE DEF m, f
  <1> DEFINE n == Len(q)
             a == Append(q, c)
  <1>6. /\ n \in Nat /\ DOMAIN q = 1..n /\ DOMAIN a = 1..n + 1
        /\ \A i \in 1..n : a[i] = q[i]
        /\ a[n + 1] = c
    BY <1>1, <1>3
  <1> HIDE DEF n, a, q
  <1>7. QueuedOnce'
    <2> SUFFICES ASSUME NEW l \in LockIds, NEW i \in DOMAIN queue'[l], NEW j \in DOMAIN queue'[l],
                        queue'[l][i] = queue'[l][j]
                 PROVE  i = j
      BY DEF QueuedOnce
    <2>1. CASE l = m
      <3>1. i \in 1..n + 1 /\ j \in 1..n + 1 /\ a[i] = a[j]
        BY <1>4, <1>6, <2>1 DEF a
      <3>2. \A x \in 1..n : q[x] # c
        BY <1>1, <1>5, <1>6 DEF q
      <3>3. CASE i = n + 1 \/ j = n + 1
        BY <1>6, <3>1, <3>2, <3>3
      <3>4. CASE i # n + 1 /\ j # n + 1
        <4>1. i \in 1..n /\ j \in 1..n
          BY <1>6, <3>1, <3>4
        <4> QED BY <1>1, <1>6, <3>1, <4>1 DEF QueueInv, QueuedOnce, q
      <3> QED BY <3>3, <3>4
    <2>2. CASE l # m
      BY <1>4, <2>2 DEF QueueInv, QueuedOnce
    <2> QED BY <2>1, <2>2
  <1>8. QueuesComplete'
    <2> SUFFICES ASSUME NEW d \in Callers, Member(pc'[d], frame'[d])
                 PROVE  \E i \in DOMAIN queue'[frame'[d].lock] : queue'[frame'[d].lock][i] = d
      BY DEF QueuesComplete, Member, InQueue
    <2>1. CASE d = c
      <3>1. n + 1 \in DOMAIN a
        BY <1>6
      <3> QED BY <1>1, <1>2, <1>4, <1>6, <2>1, <3>1 DEF a
    <2>2. CASE d # c
      <3>1. pc'[d] = pc[d] /\ frame'[d] = frame[d]
        BY <1>2, <2>2
      <3>2. PICK i \in DOMAIN queue[frame[d].lock] : queue[frame[d].lock][i] = d
        BY <3>1 DEF QueueInv, QueuesComplete, Member
      <3>3. frame[d].lock \in LockIds
        BY <3>1, FrameFacts DEF Member, Frame
      <3>4. CASE frame[d].lock = m
        <4>1. i \in 1..n + 1 /\ a[i] = d
          BY <1>6, <3>2, <3>4 DEF q
        <4> QED BY <1>4, <1>6, <3>1, <3>4, <4>1 DEF a
      <3>5. CASE frame[d].lock # m
        BY <1>4, <3>1, <3>2, <3>3, <3>5
      <3> QED BY <3>4, <3>5
    <2> QED BY <2>1, <2>2
  <1>9. QueuedOK'
    <2> SUFFICES ASSUME NEW l \in LockIds, NEW i \in DOMAIN queue'[l]
                 PROVE  LET d == queue'[l][i]
                        IN  /\ frame'[d].lock = l /\ InQueue(pc'[d])
                            /\ i # 1 => pc'[d] = "wait"
      BY DEF QueuedOK, InQueue
    <2> DEFINE d == queue'[l][i]
    <2>1. CASE l = m /\ i = n + 1
      BY <1>1, <1>2, <1>4, <1>6, <2>1 DEF InQueue, a
    <2>2. CASE ~(l = m /\ i = n + 1)
      <3>1. i \in DOMAIN queue[l] /\ d = queue[l][i]
        <4>1. CASE l = m
          BY <1>4, <1>6, <2>2, <4>1 DEF a, q
        <4>2. CASE l # m
          BY <1>4, <4>2
        <4> QED BY <4>1, <4>2
      <3>2. d \in Callers /\ d # c
        BY <1>5, <3>1
      <3>3. frame[d].lock = l /\ InQueue(pc[d]) /\ (i # 1 => pc[d] = "wait")
        BY <3>1 DEF QueueInv, QueuedOK
      <3> QED BY <1>2, <3>2, <3>3
    <2> QED BY <2>1, <2>2
  <1> QED BY <1>7, <1>8, <1>9 DEF QueueInv

LEMMA QuietQueue == ASSUME AcpInv, QueueInv, NEW c \in Callers, QuietStep(c) PROVE QueueInv'
  <1>1. PICK p, f : Moves(c, p, f) /\ FrameOK(p, f) /\ Continues(c, p, f)
    BY DEF QuietStep, Inner
  <1>2. FrameOK(pc[c], frame[c]) /\ UNCHANGED queue
    BY FrameFacts DEF QuietStep, actorVars
  <1>3. CASE Outside(pc[c], frame[c]) /\ Outside(p, f)
    <2>1. ~Member(pc[c], frame[c]) /\ ~Member(p, f)
      BY <1>1, <1>2, <1>3 DEF Outside, Member, FrameOK, InQueue, Holding
    <2> QED BY <1>1, <1>2, <2>1, QueueKept
  <1>4. CASE Inside(pc[c], frame[c]) /\ Inside(p, f) /\ f.lock = frame[c].lock
    <2>1. Member(pc[c], frame[c]) /\ Member(p, f) /\ pc[c] # "wait"
      BY <1>1, <1>2, <1>4 DEF Inside, Member, FrameOK, InQueue, Holding, WithLock
    <2> QED BY <1>1, <1>2, <1>4, <2>1, QueueKept
  <1> QED BY <1>1, <1>3, <1>4 DEF Continues

\* The steps of the protocol of the guard, but for the join.
Protocol(c) ==
    \/ IncrementRef(c) \/ IncrementPending(c) \/ Acquire(c) \/ Unlock(c)
    \/ DecrementPending(c) \/ DecrementRef(c) \/ RemoveActor(c) \/ DropWait(c)

LEMMA GuardQueue ==
  ASSUME AcpInv, QueueInv, NEW c \in Callers, Protocol(c)
  PROVE  QueueInv' /\ AcpInv'
  <1>1. CASE IncrementRef(c)
    <2> DEFINE p == IF op(c) = "turn" THEN "pend" ELSE "join"
    <2>1. ~Member(pc[c], frame[c]) /\ ~Member(p, frame[c])
      BY <1>1, IncrementRefMoves DEF Member, InQueue, Holding
    <2> HIDE DEF p
    <2>2. Moves(c, p, frame[c]) /\ FrameOK(p, frame[c]) /\ Registries' /\ DataType'
      BY <1>1, IncrementRefMoves DEF p
    <2>3. UNCHANGED queue
      BY <1>1 DEF IncrementRef
    <2> QED BY <2>1, <2>2, <2>3, QueueKept, InvFromParts
  <1>2. CASE IncrementPending(c)
    <2>1. ~Member(pc[c], frame[c]) /\ ~Member("join", frame[c])
      BY <1>2, IncrementPendingMoves DEF Member, InQueue, Holding
    <2>2. UNCHANGED queue
      BY <1>2 DEF IncrementPending
    <2> QED BY <1>2, <2>1, <2>2, IncrementPendingMoves, QueueKept, InvFromParts
  <1>3. CASE Acquire(c)
    <2>1. Member(pc[c], frame[c]) /\ Member("clean", frame[c]) /\ Head(queue[frame[c].lock]) = c
      BY <1>3, AcquireMoves DEF Member, InQueue, Holding, Acquire
    <2>2. UNCHANGED queue
      BY <1>3 DEF Acquire, actorVars
    <2> QED BY <1>3, <2>1, <2>2, AcquireMoves, QueueKept, InvFromParts
  <1>4. CASE Unlock(c)
    <2> DEFINE p == IF op(c) = "turn" THEN "unpend" ELSE "unref"
    <2>1. ~Member(p, frame[c]) /\ InQueue(pc[c]) /\ op(c) \in Guarded
      BY <1>4, UnlockMoves DEF Member, InQueue, Holding
    <2> HIDE DEF p
    <2>2. Moves(c, p, frame[c]) /\ FrameOK(p, frame[c]) /\ Registries' /\ DataType' /\ LeavesQueue(c)
      BY <1>4, UnlockMoves DEF p
    <2> QED BY <2>1, <2>2, QueueLeft, InvFromParts
  <1>5. CASE DecrementPending(c)
    <2>1. ~Member(pc[c], frame[c]) /\ ~Member("unref", frame[c])
      BY <1>5, DecrementPendingMoves DEF Member, InQueue, Holding
    <2>2. UNCHANGED queue
      BY <1>5 DEF DecrementPending
    <2> QED BY <1>5, <2>1, <2>2, DecrementPendingMoves, QueueKept, InvFromParts
  <1>6. CASE DecrementRef(c)
    <2>1. ~Member(pc[c], frame[c]) /\ ~Member("check", frame[c])
      BY <1>6, DecrementRefMoves DEF Member, InQueue, Holding
    <2>2. UNCHANGED queue
      BY <1>6 DEF DecrementRef
    <2> QED BY <1>6, <2>1, <2>2, DecrementRefMoves, QueueKept, InvFromParts
  <1>7. CASE RemoveActor(c)
    <2>1. ~Member(pc[c], frame[c]) /\ ~Member("idle", NoFrame)
      BY <1>7, RemoveActorMoves DEF Member, InQueue, Holding
    <2>2. UNCHANGED queue
      BY <1>7 DEF RemoveActor
    <2> QED BY <1>7, <2>1, <2>2, RemoveActorMoves, QueueKept, InvFromParts
  <1>8. CASE DropWait(c)
    <2>1. ~Member("idle", NoFrame) /\ InQueue(pc[c])
      BY <1>8, DropWaitMoves DEF Member, InQueue, Holding
    <2> QED BY <1>8, <2>1, DropWaitMoves, QueueLeft, InvFromParts
  <1> QED BY <1>1, <1>2, <1>3, <1>4, <1>5, <1>6, <1>7, <1>8 DEF Protocol

LEMMA NextCases ==
  ASSUME Next
  PROVE  \/ \E c \in Callers : Quiet(c) \/ Join(c) \/ Protocol(c)
         \/ \E s \in Sessions : GoIdle(s)
         \/ Restart
  BY DEF Next, CallStep, GuardStep, Quiet, Protocol

LEMMA QueueInit == ASSUME Init PROVE AcpInv /\ QueueInv
  <1>1. DataType /\ Registries
    BY MaxFaultsAssumption DEF Init, DataType, Registries, States, AcpSessionState
  <1>2. \A c \in Callers : pc[c] = "idle" /\ frame[c] = NoFrame
    BY DEF Init
  <1>3. \A c \in Callers : FrameOK(pc[c], frame[c])
    BY <1>2, IdleFrame
  <1>4. /\ pc \in [Callers -> Awaits \cup Synchronous]
        /\ frame \in [Callers -> Frame]
    BY IdleFrame DEF Init, FrameOK
  <1>5. \A l \in LockIds : queue[l] = <<>>
    BY DEF Init
  <1>6. QueueInv
    BY <1>2, <1>5 DEF QueueInv, QueuedOK, QueuedOnce, QueuesComplete, InQueue, Holding
  <1> QED BY <1>1, <1>3, <1>4, <1>6 DEF AcpInv, AcpTypeOK, DataType, Registries

LEMMA QueueStep == ASSUME AcpInv, QueueInv, [Next]_vars PROVE AcpInv' /\ QueueInv'
  <1>1. ASSUME NEW c \in Callers, Quiet(c) PROVE AcpInv' /\ QueueInv'
    BY <1>1, QuietSteps, QuietInv, QuietQueue
  <1>2. ASSUME NEW c \in Callers, Join(c) PROVE AcpInv' /\ QueueInv'
    <2> DEFINE f == Joined(frame[c], ActorFor(sess(c)))
    <2>1. Moves(c, "wait", f) /\ FrameOK("wait", f) /\ Registries' /\ DataType'
      BY <1>2, JoinMoves
    <2> HIDE DEF f
    <2> QED BY <1>2, <2>1, InvFromParts, QueueJoined
  <1>3. ASSUME NEW c \in Callers, Protocol(c) PROVE AcpInv' /\ QueueInv'
    BY <1>3, GuardQueue
  <1>4. ASSUME NEW s \in Sessions, GoIdle(s) PROVE AcpInv' /\ QueueInv'
    <2>1. UNCHANGED <<queue, pc, frame>>
      BY <1>4 DEF GoIdle, actorVars
    <2> QED BY <1>4, <2>1, GoIdleInv DEF QueueInv, QueuedOK, QueuedOnce, QueuesComplete, InQueue
  <1>5. CASE Restart
    <2>1. \A c \in Callers : pc'[c] = "idle"
      BY <1>5 DEF Restart
    <2>2. \A l \in LockIds : queue'[l] = <<>>
      BY <1>5 DEF Restart
    <2> QED BY <1>5, <2>1, <2>2, RestartInv DEF QueueInv, QueuedOK, QueuedOnce, QueuesComplete,
               InQueue, Holding
  <1>6. CASE UNCHANGED vars
    <2>1. AcpInv'
      BY <1>6 DEF vars, AcpInv, AcpTypeOK, FrameOK
    <2> QED BY <1>6, <2>1 DEF vars, QueueInv, QueuedOK, QueuedOnce, QueuesComplete, InQueue
  <1> QED BY <1>1, <1>2, <1>3, <1>4, <1>5, <1>6, NextCases

(***************************************************************************)
(* Every variable has its type: in particular there is always a mutex left *)
(* for a session that needs one.                                           *)
(***************************************************************************)
THEOREM AcpTypeCorrect == Spec => []AcpTypeOK
  <1>1. AcpInv /\ QueueInv => AcpTypeOK
    BY DEF AcpInv
  <1> QED BY <1>1, QueueInit, QueueStep, PTL DEF Spec

(***************************************************************************)
(* Nobody waits for a mutex that will not be released: the first of its    *)
(* queue is a call that still goes on with the guard, or has been handed   *)
(* the mutex, through drops of waiting futures, returns on every error     *)
(* path and restarts.                                                      *)
(***************************************************************************)
THEOREM NobodyWaitsForTheDead == Spec => []HolderIsAlive
  <1>1. ASSUME AcpInv, QueueInv PROVE HolderIsAlive
    <2> SUFFICES ASSUME NEW c \in Callers, pc[c] = "wait"
                 PROVE  LET l == frame[c].lock
                            h == Head(queue[l])
                        IN  queue[l] # <<>> /\ frame[h].lock = l /\ pc[h] \in Holding \cup {"wait"}
      BY DEF HolderIsAlive
    <2> DEFINE l == frame[c].lock
    <2>1. op(c) \in Guarded /\ InQueue(pc[c])
      BY <1>1, FrameFacts DEF FrameOK, op, InQueue
    <2>2. l \in LockIds /\ queue[l] \in Seq(Callers) /\ \E k \in DOMAIN queue[l] : queue[l][k] = c
      BY <1>1, <2>1, InItsQueue
    <2>3. queue[l] # <<>> /\ 1 \in DOMAIN queue[l] /\ Head(queue[l]) = queue[l][1]
      BY <2>2
    <2> QED BY <1>1, <2>2, <2>3 DEF QueueInv, QueuedOK, InQueue
  <1> QED BY <1>1, QueueInit, QueueStep, PTL DEF Spec

-----------------------------------------------------------------------------
(* The counts                                                              *)

\* The caller counts as a reference, or as a pending turn, of session s.
Refers(p, f, s) ==
    /\ f.s = s /\ f.op \in Guarded
    /\ p \notin {"look", "preempt", "cancelling", "ref", "check", "remove"}
Waits(p, f, s) == Refers(p, f, s) /\ f.op = "turn" /\ p \notin {"pend", "unref"}

One(b) == IF b THEN 1 ELSE 0

LEMMA CardinalityMoves ==
  ASSUME NEW S \in SUBSET Callers, NEW c \in Callers, NEW T, NEW b \in BOOLEAN,
         T = (S \ {c}) \cup (IF b THEN {c} ELSE {})
  PROVE  /\ Cardinality(S) \in Nat /\ Cardinality(T) \in Nat
         /\ Cardinality(T) = Cardinality(S) + One(b) - One(c \in S)
  <1>1. IsFiniteSet(S) /\ IsFiniteSet(S \ {c})
    BY FiniteAssumption, FS_Subset
  <1>2. Cardinality(S) \in Nat /\ Cardinality(S \ {c}) \in Nat
    BY <1>1, FS_CardinalityType
  <1>3. Cardinality(S \ {c}) = Cardinality(S) - One(c \in S)
    BY <1>1, <1>2, FS_RemoveElement DEF One
  <1>4. CASE b
    <2>1. T = (S \ {c}) \cup {c} /\ c \notin S \ {c}
      BY <1>4
    <2>2. Cardinality(T) = Cardinality(S \ {c}) + 1
      BY <1>1, <2>1, FS_AddElement
    <2> QED BY <1>2, <1>3, <1>4, <2>2 DEF One
  <1>5. CASE ~b
    BY <1>2, <1>3, <1>5 DEF One
  <1>6. Cardinality(T) \in Nat
    BY FiniteAssumption, FS_Subset, FS_CardinalityType
  <1> QED BY <1>2, <1>4, <1>5, <1>6

\* What a step of c makes of the two numbers.
LEMMA CountsMove ==
  ASSUME AcpInv, NEW c \in Callers, NEW p, NEW f, Moves(c, p, f), FrameOK(p, f), NEW s
  PROVE  /\ Cardinality(Referring(s)) \in Nat /\ Cardinality(Queued(s)) \in Nat
         /\ Cardinality(Referring(s)') \in Nat /\ Cardinality(Queued(s)') \in Nat
         /\ Cardinality(Referring(s)') =
               Cardinality(Referring(s)) + One(Refers(p, f, s)) - One(Refers(pc[c], frame[c], s))
         /\ Cardinality(Queued(s)') =
               Cardinality(Queued(s)) + One(Waits(p, f, s)) - One(Waits(pc[c], frame[c], s))
  <1>1. /\ pc'[c] = p /\ frame'[c] = f
        /\ \A d \in Callers \ {c} : pc'[d] = pc[d] /\ frame'[d] = frame[d]
    BY MovesFrames
  <1>2. Referring(s) = {d \in Callers : Refers(pc[d], frame[d], s)}
    BY DEF Referring, Refers, op, sess
  <1>3. Queued(s) = {d \in Callers : Waits(pc[d], frame[d], s)}
    BY DEF Queued, Referring, Refers, Waits, op, sess
  <1>4. Referring(s)' = {d \in Callers : Refers(pc'[d], frame'[d], s)}
    BY DEF Referring, Refers, op, sess
  <1>5. Queued(s)' = {d \in Callers : Waits(pc'[d], frame'[d], s)}
    BY DEF Queued, Referring, Refers, Waits, op, sess
  <1> DEFINE R == {d \in Callers : Refers(pc[d], frame[d], s)}
             Q == {d \in Callers : Waits(pc[d], frame[d], s)}
             RR == {d \in Callers : Refers(pc'[d], frame'[d], s)}
             QQ == {d \in Callers : Waits(pc'[d], frame'[d], s)}
             a == Refers(p, f, s)
             b == Waits(p, f, s)
  <1>6. RR = (R \ {c}) \cup (IF a THEN {c} ELSE {})
    BY <1>1
  <1>7. QQ = (Q \ {c}) \cup (IF b THEN {c} ELSE {})
    BY <1>1
  <1>8. a \in BOOLEAN /\ b \in BOOLEAN
    BY DEF Refers, Waits
  <1>9. /\ One(c \in R) = One(Refers(pc[c], frame[c], s))
        /\ One(c \in Q) = One(Waits(pc[c], frame[c], s))
    <2>1. /\ c \in R <=> Refers(pc[c], frame[c], s)
          /\ c \in Q <=> Waits(pc[c], frame[c], s)
      OBVIOUS
    <2> HIDE DEF R, Q
    <2> QED BY <2>1 DEF One
  <1>10. R \in SUBSET Callers /\ Q \in SUBSET Callers
    OBVIOUS
  <1> HIDE DEF R, Q, RR, QQ, a, b
  <1>11. Cardinality(R) \in Nat /\ Cardinality(RR) \in Nat
         /\ Cardinality(RR) = Cardinality(R) + One(a) - One(c \in R)
    BY <1>6, <1>8, <1>10, CardinalityMoves
  <1>12. Cardinality(Q) \in Nat /\ Cardinality(QQ) \in Nat
         /\ Cardinality(QQ) = Cardinality(Q) + One(b) - One(c \in Q)
    BY <1>7, <1>8, <1>10, CardinalityMoves
  <1>13. Referring(s) = R /\ Queued(s) = Q /\ Referring(s)' = RR /\ Queued(s)' = QQ
    BY <1>2, <1>3, <1>4, <1>5 DEF R, Q, RR, QQ
  <1> QED BY <1>9, <1>11, <1>12, <1>13 DEF a, b

LEMMA QuietCounts ==
  ASSUME AcpInv, CountsExact, NEW c \in Callers, QuietStep(c) PROVE CountsExact'
  <1>1. PICK p, f : Moves(c, p, f) /\ FrameOK(p, f) /\ Continues(c, p, f)
    BY DEF QuietStep, Inner
  <1>2. ASSUME NEW s
        PROVE  /\ Refers(p, f, s) <=> Refers(pc[c], frame[c], s)
               /\ Waits(p, f, s) <=> Waits(pc[c], frame[c], s)
    BY <1>1 DEF Continues, Outside, Inside, Refers, Waits, Holding, op, sess
  <1>3. ASSUME NEW s
        PROVE  /\ Cardinality(Referring(s)') = Cardinality(Referring(s))
               /\ Cardinality(Queued(s)') = Cardinality(Queued(s))
    BY <1>1, <1>2, CountsMove DEF One
  <1>4. UNCHANGED <<refs, pending, lost>>
    BY DEF QuietStep, actorVars
  <1> QED BY <1>3, <1>4 DEF CountsExact

\* The counts of the session of a caller follow its steps, the others stay.
ExactNext(s) ==
    /\ refs'[s] = Cardinality(Referring(s)') + lost'[s].refs
    /\ pending'[s] = Cardinality(Queued(s)') + lost'[s].turns

\* The numbers change by what the step changes in the two counts.
LEMMA CountsFollow ==
  ASSUME AcpInv, CountsExact, NEW c \in Callers, NEW p, NEW f, Moves(c, p, f), FrameOK(p, f),
         NEW s \in Sessions,
         lost'[s].refs \in Nat, lost'[s].turns \in Nat,
         LET n == refs[s] + One(Refers(p, f, s)) - One(Refers(pc[c], frame[c], s))
         IN  refs'[s] = n + lost'[s].refs - lost[s].refs,
         LET n == pending[s] + One(Waits(p, f, s)) - One(Waits(pc[c], frame[c], s))
         IN  pending'[s] = n + lost'[s].turns - lost[s].turns
  PROVE  ExactNext(s)
  <1>1. /\ refs[s] = Cardinality(Referring(s)) + lost[s].refs
        /\ pending[s] = Cardinality(Queued(s)) + lost[s].turns
        /\ refs[s] \in Nat /\ pending[s] \in Nat /\ lost[s].refs \in Nat /\ lost[s].turns \in Nat
    BY InvParts DEF CountsExact, Registries
  <1>2. /\ One(Refers(p, f, s)) \in Nat /\ One(Refers(pc[c], frame[c], s)) \in Nat
        /\ One(Waits(p, f, s)) \in Nat /\ One(Waits(pc[c], frame[c], s)) \in Nat
    BY DEF One
  <1> QED BY <1>1, <1>2, CountsMove DEF ExactNext

\* A caller that counts for a session makes its count positive.
LEMMA CountsPositive ==
  ASSUME AcpInv, CountsExact, NEW c \in Callers, NEW s \in Sessions
  PROVE  /\ Refers(pc[c], frame[c], s) => refs[s] >= 1
         /\ Waits(pc[c], frame[c], s) => pending[s] >= 1
         /\ refs[s] \in Nat /\ pending[s] \in Nat /\ lost[s].refs \in Nat /\ lost[s].turns \in Nat
  <1>1. /\ refs[s] = Cardinality(Referring(s)) + lost[s].refs
        /\ pending[s] = Cardinality(Queued(s)) + lost[s].turns
        /\ refs[s] \in Nat /\ pending[s] \in Nat /\ lost[s].refs \in Nat /\ lost[s].turns \in Nat
    BY InvParts DEF CountsExact, Registries
  <1>2. Referring(s) \in SUBSET Callers /\ Queued(s) \in SUBSET Callers
    BY DEF Referring, Queued
  <1>3. ASSUME NEW S \in SUBSET Callers, c \in S PROVE Cardinality(S) \in Nat /\ Cardinality(S) >= 1
    <2>1. IsFiniteSet(S) /\ Cardinality(S) \in Nat /\ S # {}
      BY <1>3, FiniteAssumption, FS_Subset, FS_CardinalityType
    <2> QED BY <2>1, FS_EmptySet
  <1>4. /\ Refers(pc[c], frame[c], s) => c \in Referring(s)
        /\ Waits(pc[c], frame[c], s) => c \in Queued(s)
    BY DEF Referring, Queued, Refers, Waits, op, sess
  <1>5. ASSUME Refers(pc[c], frame[c], s) PROVE refs[s] >= 1
    BY <1>1, <1>2, <1>3, <1>4, <1>5
  <1>6. ASSUME Waits(pc[c], frame[c], s) PROVE pending[s] >= 1
    BY <1>1, <1>2, <1>3, <1>4, <1>6
  <1> QED BY <1>1, <1>5, <1>6

LEMMA ProtocolCounts ==
  ASSUME AcpInv, QueueInv, CountsExact, NEW c \in Callers, Protocol(c) \/ Join(c)
  PROVE  CountsExact'
  <1>0. refs \in [Sessions -> Nat] /\ pending \in [Sessions -> Nat]
    BY InvParts DEF Registries
  <1> SUFFICES ASSUME NEW s \in Sessions PROVE ExactNext(s)
    BY DEF CountsExact, ExactNext
  <1>1. /\ Refers(pc[c], frame[c], s) => refs[s] >= 1
        /\ Waits(pc[c], frame[c], s) => pending[s] >= 1
        /\ refs[s] \in Nat /\ pending[s] \in Nat /\ lost[s].refs \in Nat /\ lost[s].turns \in Nat
    BY CountsPositive
  <1>2. CASE IncrementRef(c)
    <2> DEFINE p == IF op(c) = "turn" THEN "pend" ELSE "join"
    <2>1. /\ Refers(p, frame[c], s) <=> s = sess(c)
          /\ ~Refers(pc[c], frame[c], s) /\ ~Waits(pc[c], frame[c], s) /\ ~Waits(p, frame[c], s)
      BY <1>2, IncrementRefMoves DEF Refers, Waits, op, sess
    <2>2. Moves(c, p, frame[c]) /\ FrameOK(p, frame[c])
      BY <1>2, IncrementRefMoves
    <2> HIDE DEF p
    <2>3. refs'[s] = refs[s] + One(s = sess(c)) /\ UNCHANGED <<pending, lost>>
      BY <1>0, <1>2 DEF IncrementRef, One
    <2> QED BY <1>1, <2>1, <2>2, <2>3, CountsFollow DEF One
  <1>3. CASE IncrementPending(c)
    <2>1. /\ Refers("join", frame[c], s) <=> Refers(pc[c], frame[c], s)
          /\ ~Waits(pc[c], frame[c], s)
          /\ Waits("join", frame[c], s) <=> s = sess(c)
      BY <1>3, IncrementPendingMoves DEF Refers, Waits, op, sess, Guarded
    <2>2. Moves(c, "join", frame[c]) /\ FrameOK("join", frame[c])
      BY <1>3, IncrementPendingMoves
    <2>3. pending'[s] = pending[s] + One(s = sess(c)) /\ UNCHANGED <<refs, lost>>
      BY <1>0, <1>3 DEF IncrementPending, One
    <2> QED BY <1>1, <2>1, <2>2, <2>3, CountsFollow DEF One
  <1>4. CASE Join(c)
    <2> DEFINE f == Joined(frame[c], ActorFor(sess(c)))
    <2>1. /\ Moves(c, "wait", f) /\ FrameOK("wait", f) /\ pc[c] = "join"
          /\ f.op = frame[c].op /\ f.s = frame[c].s
      BY <1>4, JoinMoves DEF op, sess
    <2> HIDE DEF f
    <2>2. /\ Refers("wait", f, s) <=> Refers(pc[c], frame[c], s)
          /\ Waits("wait", f, s) <=> Waits(pc[c], frame[c], s)
      BY <2>1 DEF Refers, Waits
    <2>3. UNCHANGED <<refs, pending, lost>>
      BY <1>4 DEF Join
    <2> QED BY <1>1, <2>1, <2>2, <2>3, CountsFollow DEF One
  <1>5. CASE Acquire(c)
    <2>1. /\ Refers("clean", frame[c], s) <=> Refers(pc[c], frame[c], s)
          /\ Waits("clean", frame[c], s) <=> Waits(pc[c], frame[c], s)
      BY <1>5, AcquireMoves DEF Refers, Waits
    <2>2. UNCHANGED <<refs, pending, lost>>
      BY <1>5 DEF Acquire, actorVars
    <2> QED BY <1>1, <1>5, <2>1, <2>2, AcquireMoves, CountsFollow DEF One
  <1>6. CASE Unlock(c)
    <2> DEFINE p == IF op(c) = "turn" THEN "unpend" ELSE "unref"
    <2>1. /\ Refers(p, frame[c], s) <=> Refers(pc[c], frame[c], s)
          /\ Waits(p, frame[c], s) <=> Waits(pc[c], frame[c], s)
      BY <1>6, UnlockMoves DEF Refers, Waits, op
    <2>2. Moves(c, p, frame[c]) /\ FrameOK(p, frame[c])
      BY <1>6, UnlockMoves
    <2> HIDE DEF p
    <2>3. UNCHANGED <<refs, pending, lost>>
      BY <1>6 DEF Unlock
    <2> QED BY <1>1, <2>1, <2>2, <2>3, CountsFollow DEF One
  <1>7. CASE DecrementPending(c)
    <2>1. /\ Refers("unref", frame[c], s) <=> Refers(pc[c], frame[c], s)
          /\ ~Waits("unref", frame[c], s)
          /\ Waits(pc[c], frame[c], s) <=> s = sess(c)
      BY <1>7, DecrementPendingMoves DEF Refers, Waits, op, sess, Guarded
    <2>2. pending'[s] = pending[s] - One(s = sess(c)) /\ UNCHANGED <<refs, lost>>
      BY <1>0, <1>1, <1>7, <2>1 DEF DecrementPending, Decrement, One
    <2> QED BY <1>1, <1>7, <2>1, <2>2, DecrementPendingMoves, CountsFollow DEF One
  <1>8. CASE DecrementRef(c)
    <2>1. /\ Refers(pc[c], frame[c], s) <=> s = sess(c)
          /\ ~Refers("check", frame[c], s) /\ ~Waits("check", frame[c], s)
          /\ ~Waits(pc[c], frame[c], s)
      BY <1>8, DecrementRefMoves DEF Refers, Waits, op, sess
    <2>2. refs'[s] = refs[s] - One(s = sess(c)) /\ UNCHANGED <<pending, lost>>
      BY <1>0, <1>1, <1>8, <2>1 DEF DecrementRef, Decrement, One
    <2> QED BY <1>1, <1>8, <2>1, <2>2, DecrementRefMoves, CountsFollow DEF One
  <1>9. CASE RemoveActor(c)
    <2>1. /\ ~Refers(pc[c], frame[c], s) /\ ~Refers("idle", NoFrame, s)
          /\ ~Waits(pc[c], frame[c], s) /\ ~Waits("idle", NoFrame, s)
      BY <1>9, RemoveActorMoves DEF Refers, Waits, NoFrame, Guarded, ControlOps
    <2>2. UNCHANGED <<refs, pending, lost>>
      BY <1>9 DEF RemoveActor
    <2> QED BY <1>1, <1>9, <2>1, <2>2, RemoveActorMoves, CountsFollow DEF One
  <1>10. CASE DropWait(c)
    <2>1. /\ Refers(pc[c], frame[c], s) <=> s = sess(c)
          /\ ~Refers("idle", NoFrame, s) /\ ~Waits("idle", NoFrame, s)
          /\ Waits(pc[c], frame[c], s) <=> s = sess(c) /\ op(c) = "turn"
      BY <1>10, DropWaitMoves DEF Refers, Waits, NoFrame, Guarded, ControlOps, op, sess
    <2>2. UNCHANGED <<refs, pending>>
      BY <1>10 DEF DropWait
    <2>3. /\ lost'[s].refs = lost[s].refs + One(s = sess(c))
          /\ lost'[s].turns = lost[s].turns + One(s = sess(c) /\ op(c) = "turn")
      BY <1>1, <1>10, DropWaitMoves DEF One
    <2> QED BY <1>1, <1>10, <2>1, <2>2, <2>3, DropWaitMoves, CountsFollow DEF One
  <1> QED BY <1>2, <1>3, <1>4, <1>5, <1>6, <1>7, <1>8, <1>9, <1>10 DEF Protocol

\* Nobody counts for a session when all callers are idle.
LEMMA CountsRestart ==
  ASSUME \A c \in Callers : frame[c] = NoFrame
  PROVE  \A s \in Sessions : Cardinality(Referring(s)) = 0 /\ Cardinality(Queued(s)) = 0
  <1>1. \A s \in Sessions : Referring(s) = {} /\ Queued(s) = {}
    BY DEF Referring, Queued, NoFrame, Guarded, ControlOps, op
  <1> QED BY <1>1, FS_EmptySet

LEMMA CountsInit == ASSUME Init PROVE CountsExact
  <1>1. \A c \in Callers : frame[c] = NoFrame
    BY DEF Init
  <1>2. \A s \in Sessions : refs[s] = 0 /\ pending[s] = 0 /\ lost[s].refs = 0 /\ lost[s].turns = 0
    BY DEF Init
  <1> QED BY <1>1, <1>2, CountsRestart DEF CountsExact

LEMMA CountsStep ==
  ASSUME AcpInv, QueueInv, CountsExact, [Next]_vars PROVE CountsExact'
  <1>1. CASE Restart
    <2> SUFFICES ASSUME NEW s \in Sessions PROVE ExactNext(s)
      BY DEF CountsExact, ExactNext
    <2>1. Referring(s)' = {}
      BY <1>1 DEF Restart, Referring, NoFrame, Guarded, ControlOps, op
    <2>2. Queued(s)' = {}
      BY <1>1 DEF Restart, Queued, Referring, NoFrame, Guarded, ControlOps, op
    <2>3. refs'[s] = 0 /\ pending'[s] = 0 /\ lost'[s].refs = 0 /\ lost'[s].turns = 0
      BY <1>1 DEF Restart
    <2> QED BY <2>1, <2>2, <2>3, FS_EmptySet DEF ExactNext
  <1>2. CASE UNCHANGED <<refs, pending, pc, frame, lost>>
    BY <1>2 DEF CountsExact, Referring, Queued, op, sess
  <1>3. ASSUME NEW s \in Sessions, GoIdle(s) PROVE UNCHANGED <<refs, pending, pc, frame, lost>>
    BY <1>3 DEF GoIdle, actorVars
  <1>4. ASSUME NEW c \in Callers, Quiet(c) PROVE CountsExact'
    BY <1>4, QuietSteps, QuietCounts
  <1> QED BY <1>1, <1>2, <1>3, <1>4, ProtocolCounts, NextCases DEF vars

(***************************************************************************)
(* actor_ref_counts and pending_turns count exactly the calls inside, on   *)
(* every way out of a call, plus the waits that were dropped before their  *)
(* guard existed: SessionActorGuard::drop never takes back too much or too *)
(* little, and saturating_sub never hides an underflow.                    *)
(***************************************************************************)
THEOREM CountsAreExact == Spec => []CountsExact
  <1> DEFINE I == AcpInv /\ QueueInv /\ CountsExact
  <1>1. Init => I
    BY QueueInit, CountsInit
  <1>2. I /\ [Next]_vars => I'
    BY QueueStep, CountsStep
  <1>3. I => CountsExact
    OBVIOUS
  <1> HIDE DEF I
  <1> QED BY <1>1, <1>2, <1>3, PTL DEF Spec

-----------------------------------------------------------------------------
(* One thread                                                              *)

\* At most one caller is between two awaits; ...
OneRuns == \A c, d \in Callers : c # d => pc[c] \in Awaits \/ pc[d] \in Awaits
\* ... the count that made it remove the mutex is still 0; ...
RemovesUnused == \A c \in Callers : pc[c] = "remove" => refs[sess(c)] = 0
\* ... and whoever needs a mutex has the registered one.
OneLock == \A c \in Callers : Member(pc[c], frame[c]) => frame[c].lock = actorLock[sess(c)]
ThreadInv == runtime = "current_thread" => OneRuns /\ RemovesUnused /\ OneLock

LEMMA OneRunsStep ==
  ASSUME AcpInv, NEW c \in Callers, NEW p, NEW f, Moves(c, p, f), FrameOK(p, f), MayRun(c),
         runtime = "current_thread"
  PROVE  OneRuns'
  BY MovesFrames DEF MayRun, OneRuns

\* A step that leaves the registries alone.
LEMMA ThreadQuiet ==
  ASSUME AcpInv, ThreadInv, NEW c \in Callers, QuietStep(c) PROVE ThreadInv'
  <1> SUFFICES ASSUME runtime = "current_thread" PROVE (OneRuns /\ RemovesUnused /\ OneLock)'
    BY DEF ThreadInv, QuietStep
  <1>1. PICK p, f : Moves(c, p, f) /\ FrameOK(p, f) /\ Continues(c, p, f)
    BY DEF QuietStep, Inner
  <1>2. /\ pc'[c] = p /\ frame'[c] = f
        /\ \A d \in Callers \ {c} : pc'[d] = pc[d] /\ frame'[d] = frame[d]
    BY <1>1, MovesFrames
  <1>3. UNCHANGED <<refs, actorLock>> /\ MayRun(c) /\ FrameOK(pc[c], frame[c])
    BY FrameFacts DEF QuietStep, actorVars
  <1>4. RemovesUnused'
    BY <1>1, <1>2, <1>3 DEF ThreadInv, RemovesUnused, Continues, sess
  <1>5. OneLock'
    <2> SUFFICES ASSUME NEW d \in Callers, Member(pc'[d], frame'[d])
                 PROVE  frame'[d].lock = actorLock[frame'[d].s]
      BY <1>3 DEF OneLock, sess, Member, InQueue
    <2>1. CASE d # c
      BY <1>2, <2>1 DEF ThreadInv, OneLock, sess
    <2>2. CASE d = c /\ Outside(p, f)
      BY <1>1, <1>2, <2>2 DEF Outside, Member, FrameOK, InQueue, Holding
    <2>3. CASE d = c /\ ~Outside(p, f)
      <3>1. Inside(pc[c], frame[c]) /\ f.s = sess(c) /\ f.lock = frame[c].lock
        BY <1>1, <2>3 DEF Continues
      <3>2. Member(pc[c], frame[c])
        BY <1>3, <3>1 DEF Inside, Member, FrameOK, WithLock, InQueue
      <3> QED BY <1>2, <2>3, <3>1, <3>2 DEF ThreadInv, OneLock, sess
    <2> QED BY <2>1, <2>2, <2>3
  <1> QED BY <1>1, <1>3, <1>4, <1>5, OneRunsStep

\* A step of the protocol that keeps the caller's session: it does not change
\* the registered mutex, and changes the count only of callers that are not
\* about to remove one.
LEMMA ThreadKept ==
  ASSUME AcpInv, ThreadInv, NEW c \in Callers, MayRun(c), NEW p, NEW f, Moves(c, p, f), FrameOK(p, f),
         p # "remove", UNCHANGED <<runtime, actorLock>>,
         Member(p, f) => /\ Member(pc[c], frame[c])
                         /\ f.s = sess(c) /\ f.lock = frame[c].lock
  PROVE  ThreadInv'
  <1> SUFFICES ASSUME runtime = "current_thread" PROVE (OneRuns /\ RemovesUnused /\ OneLock)'
    BY DEF ThreadInv
  <1>1. /\ pc'[c] = p /\ frame'[c] = f
        /\ \A d \in Callers \ {c} : pc'[d] = pc[d] /\ frame'[d] = frame[d]
    BY MovesFrames
  <1>2. \A d \in Callers \ {c} : pc[d] # "remove"
    BY DEF MayRun, Awaits
  <1>3. RemovesUnused'
    BY <1>1, <1>2 DEF RemovesUnused
  <1>4. OneLock'
    BY <1>1 DEF ThreadInv, OneLock, sess, Member, InQueue
  <1> QED BY <1>3, <1>4, OneRunsStep

LEMMA ThreadProtocol ==
  ASSUME AcpInv, QueueInv, CountsExact, ThreadInv, NEW c \in Callers, Protocol(c), ~RemoveActor(c)
  PROVE  ThreadInv'
  <1>1. CASE IncrementRef(c)
    <2> DEFINE p == IF op(c) = "turn" THEN "pend" ELSE "join"
    <2>1. p # "remove" /\ ~Member(p, frame[c])
      BY DEF Member, InQueue, Holding
    <2> HIDE DEF p
    <2>2. Moves(c, p, frame[c]) /\ FrameOK(p, frame[c])
      BY <1>1, IncrementRefMoves DEF p
    <2>3. MayRun(c) /\ UNCHANGED <<runtime, actorLock>>
      BY <1>1 DEF IncrementRef, At
    <2> QED BY <2>1, <2>2, <2>3, ThreadKept
  <1>2. CASE IncrementPending(c)
    <2>1. ~Member("join", frame[c])
      BY DEF Member, InQueue, Holding
    <2>2. MayRun(c) /\ UNCHANGED <<runtime, actorLock>>
      BY <1>2 DEF IncrementPending, At
    <2> QED BY <1>2, <2>1, <2>2, IncrementPendingMoves, ThreadKept
  <1>3. CASE Acquire(c)
    <2>1. Member(pc[c], frame[c])
      BY <1>3, AcquireMoves DEF Member, InQueue
    <2>2. MayRun(c) /\ UNCHANGED <<runtime, actorLock>>
      BY <1>3 DEF Acquire, At, actorVars
    <2> QED BY <1>3, <2>1, <2>2, AcquireMoves, ThreadKept DEF sess
  <1>4. CASE Unlock(c)
    <2> DEFINE p == IF op(c) = "turn" THEN "unpend" ELSE "unref"
    <2>1. p # "remove" /\ ~Member(p, frame[c])
      BY DEF Member, InQueue, Holding
    <2> HIDE DEF p
    <2>2. Moves(c, p, frame[c]) /\ FrameOK(p, frame[c])
      BY <1>4, UnlockMoves DEF p
    <2>3. MayRun(c) /\ UNCHANGED <<runtime, actorLock>>
      BY <1>4 DEF Unlock, At
    <2> QED BY <2>1, <2>2, <2>3, ThreadKept
  <1>5. CASE DecrementPending(c)
    <2>1. ~Member("unref", frame[c])
      BY DEF Member, InQueue, Holding
    <2>2. MayRun(c) /\ UNCHANGED <<runtime, actorLock>>
      BY <1>5 DEF DecrementPending, At
    <2> QED BY <1>5, <2>1, <2>2, DecrementPendingMoves, ThreadKept
  <1>6. CASE DecrementRef(c)
    <2>1. ~Member("check", frame[c])
      BY DEF Member, InQueue, Holding
    <2>2. MayRun(c) /\ UNCHANGED <<runtime, actorLock>>
      BY <1>6 DEF DecrementRef, At
    <2> QED BY <1>6, <2>1, <2>2, DecrementRefMoves, ThreadKept
  <1>7. CASE DropWait(c)
    <2>1. ~Member("idle", NoFrame)
      BY DEF Member, InQueue, Holding
    <2>2. MayRun(c) /\ UNCHANGED <<runtime, actorLock>>
      BY <1>7 DEF DropWait, At
    <2> QED BY <1>7, <2>1, <2>2, DropWaitMoves, ThreadKept
  <1> QED BY <1>1, <1>2, <1>3, <1>4, <1>5, <1>6, <1>7 DEF Protocol

\* The mutex that is removed from the registry is nobody's: the count that
\* CheckActor has read still holds.
LEMMA ThreadRemove ==
  ASSUME AcpInv, CountsExact, ThreadInv, NEW c \in Callers, RemoveActor(c) PROVE ThreadInv'
  <1> SUFFICES ASSUME runtime = "current_thread" PROVE (OneRuns /\ RemovesUnused /\ OneLock)'
    BY DEF ThreadInv, RemoveActor
  <1>1. /\ pc[c] = "remove" /\ sess(c) \in Sessions /\ MayRun(c)
        /\ Moves(c, "idle", NoFrame) /\ FrameOK("idle", NoFrame)
    BY RemoveActorMoves DEF RemoveActor, At
  <1>2. /\ pc'[c] = "idle" /\ frame'[c] = NoFrame
        /\ \A d \in Callers \ {c} : pc'[d] = pc[d] /\ frame'[d] = frame[d]
    BY <1>1, MovesFrames
  <1>3. \A d \in Callers \ {c} : pc[d] # "remove"
    BY <1>1 DEF MayRun, Awaits
  <1>4. RemovesUnused'
    BY <1>2, <1>3 DEF RemovesUnused
  <1>5. refs[sess(c)] = 0
    BY <1>1 DEF ThreadInv, RemovesUnused
  <1>6. OneLock'
    <2> SUFFICES ASSUME NEW d \in Callers, Member(pc'[d], frame'[d])
                 PROVE  frame'[d].lock = actorLock'[frame'[d].s]
      BY DEF OneLock, sess, Member, InQueue
    <2>1. d # c /\ pc'[d] = pc[d] /\ frame'[d] = frame[d]
      BY <1>2 DEF Member, InQueue, Holding
    <2>2. Refers(pc[d], frame[d], sess(d)) /\ sess(d) \in Sessions
      BY <2>1, FrameFacts DEF Member, FrameOK, Refers, InQueue, Holding, sess
    <2>3. sess(d) # sess(c)
      BY <1>5, <2>2, CountsPositive
    <2>4. actorLock'[sess(d)] = actorLock[sess(d)]
      BY <1>1, <2>2, <2>3, InvParts DEF RemoveActor, Registries
    <2> QED BY <2>1, <2>4 DEF ThreadInv, OneLock, sess
  <1> QED BY <1>1, <1>4, <1>6, OneRunsStep

\* The caller that joins gets the registered mutex, and registers one only
\* when nobody has any.
LEMMA ThreadJoin ==
  ASSUME AcpInv, ThreadInv, NEW c \in Callers, Join(c) PROVE ThreadInv'
  <1> SUFFICES ASSUME runtime = "current_thread" PROVE (OneRuns /\ RemovesUnused /\ OneLock)'
    BY DEF ThreadInv, Join
  <1> DEFINE m == ActorFor(sess(c))
             f == Joined(frame[c], m)
  <1>1. /\ sess(c) \in Sessions /\ MayRun(c) /\ Moves(c, "wait", f) /\ FrameOK("wait", f)
        /\ f.s = sess(c) /\ f.lock = m
    BY JoinMoves DEF Join, At
  <1>2. /\ actorLock'[sess(c)] = m
        /\ \A s \in Sessions \ {sess(c)} : actorLock'[s] = actorLock[s]
        /\ actorLock[sess(c)] # 0 => m = actorLock[sess(c)]
    BY <1>1, InvParts DEF Join, Registries, ActorFor
  <1> HIDE DEF m, f
  <1>3. /\ pc'[c] = "wait" /\ frame'[c] = f
        /\ \A d \in Callers \ {c} : pc'[d] = pc[d] /\ frame'[d] = frame[d]
    BY <1>1, MovesFrames
  <1>4. \A d \in Callers \ {c} : pc[d] # "remove"
    BY <1>1 DEF MayRun, Awaits
  <1>5. RemovesUnused'
    BY <1>3, <1>4 DEF RemovesUnused
  <1>6. OneLock'
    <2> SUFFICES ASSUME NEW d \in Callers, Member(pc'[d], frame'[d])
                 PROVE  frame'[d].lock = actorLock'[frame'[d].s]
      BY DEF OneLock, sess, Member, InQueue
    <2>1. CASE d = c
      BY <1>1, <1>2, <1>3, <2>1
    <2>2. CASE d # c
      <3>1. pc'[d] = pc[d] /\ frame'[d] = frame[d]
        BY <1>3, <2>2
      <3>2. frame[d].lock = actorLock[sess(d)] /\ frame[d].lock # 0
        BY <3>1 DEF ThreadInv, OneLock, Member
      <3>3. sess(d) \in Sessions
        BY <3>1, FrameFacts DEF Member, FrameOK, InQueue, Holding, sess
      <3> QED BY <1>2, <3>1, <3>2, <3>3 DEF sess
    <2> QED BY <2>1, <2>2
  <1> QED BY <1>1, <1>5, <1>6, OneRunsStep

CoreInv == AcpInv /\ QueueInv /\ CountsExact /\ ThreadInv

LEMMA CoreInit == ASSUME Init PROVE CoreInv
  <1>1. \A c \in Callers : pc[c] = "idle"
    BY DEF Init
  <1>2. ThreadInv
    BY <1>1 DEF ThreadInv, OneRuns, RemovesUnused, OneLock, Member, InQueue, Holding, Awaits
  <1> QED BY <1>2, QueueInit, CountsInit DEF CoreInv

LEMMA CoreStep == ASSUME CoreInv, [Next]_vars PROVE CoreInv'
  <1>1. AcpInv' /\ QueueInv' /\ CountsExact'
    BY QueueStep, CountsStep DEF CoreInv
  <1>2. ASSUME NEW c \in Callers, Quiet(c) PROVE ThreadInv'
    BY <1>2, QuietSteps, ThreadQuiet DEF CoreInv
  <1>3. ASSUME NEW c \in Callers, Join(c) \/ Protocol(c) PROVE ThreadInv'
    BY <1>3, ThreadJoin, ThreadProtocol, ThreadRemove DEF CoreInv
  <1>4. CASE Restart
    <2>1. \A c \in Callers : pc'[c] = "idle"
      BY <1>4 DEF Restart
    <2>2. OneRuns'
      BY <2>1 DEF OneRuns, Awaits
    <2>3. RemovesUnused'
      BY <2>1 DEF RemovesUnused
    <2>4. OneLock'
      BY <2>1 DEF OneLock, Member, InQueue, Holding
    <2> QED BY <1>1, <2>2, <2>3, <2>4 DEF CoreInv, ThreadInv
  <1>5. CASE UNCHANGED <<runtime, actorLock, refs, pc, frame>>
    <2>1. OneRuns => OneRuns'
      BY <1>5 DEF OneRuns
    <2>2. RemovesUnused => RemovesUnused'
      BY <1>5 DEF RemovesUnused, sess
    <2>3. OneLock => OneLock'
      BY <1>5 DEF OneLock, Member, InQueue, sess
    <2> QED BY <1>1, <1>5, <2>1, <2>2, <2>3 DEF CoreInv, ThreadInv
  <1>6. ASSUME NEW s \in Sessions, GoIdle(s) PROVE UNCHANGED <<runtime, actorLock, refs, pc, frame>>
    BY <1>6 DEF GoIdle, actorVars
  <1> QED BY <1>1, <1>2, <1>3, <1>4, <1>5, <1>6, NextCases DEF CoreInv, vars

\* On one thread two calls never own the guard of a session together.
LEMMA OneOwner ==
  ASSUME CoreInv, runtime = "current_thread", NEW c \in Callers, NEW d \in Callers,
         Inside(pc[c], frame[c]), Inside(pc[d], frame[d]), sess(c) = sess(d)
  PROVE  c = d
  <1>1. ASSUME NEW e \in Callers, Inside(pc[e], frame[e])
        PROVE  frame[e].lock = actorLock[sess(e)] /\ queue[frame[e].lock][1] = e
    <2>1. InQueue(pc[e]) /\ pc[e] # "wait" /\ op(e) \in Guarded
      BY <1>1 DEF Inside, InQueue, Holding, op
    <2>2. queue[frame[e].lock][1] = e
      BY <2>1, InItsQueue DEF CoreInv
    <2>3. Member(pc[e], frame[e])
      BY <1>1, <2>1, FrameFacts DEF CoreInv, Member, FrameOK, Inside, WithLock
    <2> QED BY <2>2, <2>3 DEF CoreInv, ThreadInv, OneLock
  <1> QED BY <1>1

(***************************************************************************)
(* When all callers share one thread the turns and control operations of a *)
(* session are serialized, through drops, evictions, preemption and        *)
(* restarts.  (On several threads they are not: SessionActorGuard::drop    *)
(* reads the count and removes the mutex in two critical sections.)        *)
(***************************************************************************)
THEOREM OneThreadSerializes == Spec => []SerializedOnOneThread
  <1>1. ASSUME CoreInv PROVE SerializedOnOneThread
    <2> SUFFICES ASSUME runtime = "current_thread", NEW s \in Sessions
                 PROVE  Cardinality(InBackend(s)) <= 1
      BY DEF SerializedOnOneThread, TurnsSerialized
    <2>1. ASSUME NEW c \in InBackend(s) PROVE c \in Callers /\ Inside(pc[c], frame[c]) /\ sess(c) = s
      <3>1. c \in Callers /\ sess(c) = s /\ pc[c] \in {"turn", "backend"}
        BY DEF InBackend
      <3>2. FrameOK(pc[c], frame[c])
        BY <1>1, <3>1, FrameFacts DEF CoreInv
      <3> QED BY <3>1, <3>2 DEF FrameOK, Inside, Holding, Guarded
    <2>2. \A c, d \in InBackend(s) : c = d
      BY <1>1, <2>1, OneOwner
    <2>3. CASE InBackend(s) = {}
      BY <2>3, FS_EmptySet
    <2>4. CASE InBackend(s) # {}
      <3>1. PICK c : InBackend(s) = {c}
        BY <2>2, <2>4
      <3>2. Cardinality({c}) = 1
        BY FS_Singleton
      <3> QED BY <3>1, <3>2
    <2> QED BY <2>3, <2>4
  <1> QED BY <1>1, CoreInit, CoreStep, PTL DEF Spec

-----------------------------------------------------------------------------
(* Busy rows                                                               *)

\* A Busy row has a turn or is known to have none; ...
Owned ==
    \A s \in Sessions : store[s] = "Busy" =>
        s \in unowned \/ \E c \in Callers : sess(c) = s /\ pc[c] \in Owning
\* ... the copy of a row that is written back at once is the row; ...
FreshCopy == \A c \in Callers : pc[c] = "touch" => frame[c].st = store[sess(c)]
\* ... and a Busy one that is written back after the backend's answer is nobody's.
CleanCopy == \A c \in Callers : pc[c] = "backend" /\ frame[c].st = "Busy" => sess(c) \in unowned
BusyInv == runtime = "current_thread" => Owned /\ FreshCopy /\ CleanCopy

\* What a step of c has to respect.
Respects(c) ==
    /\ \A s \in Sessions : store'[s] = "Busy" =>
          store[s] = "Busy" \/ s \in unowned' \/ (s = frame'[c].s /\ pc'[c] \in Owning)
    /\ \A s \in unowned : s \in unowned' \/
          /\ s = frame'[c].s /\ pc'[c] \in Owning
          /\ \A d \in Callers \ {c} : pc[d] = "backend" => sess(d) # s
    /\ pc[c] \in Owning =>
          \/ pc'[c] \in Owning /\ frame'[c].s = sess(c)
          \/ store'[sess(c)] # "Busy"
          \/ sess(c) \in unowned'
    /\ pc'[c] = "touch" => frame'[c].st = store'[frame'[c].s]
    /\ pc'[c] = "backend" /\ frame'[c].st = "Busy" => frame'[c].s \in unowned'

LEMMA BusyKept ==
  ASSUME AcpInv, BusyInv, NEW c \in Callers, NEW p, NEW f, Moves(c, p, f), FrameOK(p, f), MayRun(c),
         UNCHANGED runtime, runtime = "current_thread", Respects(c)
  PROVE  BusyInv'
  <1>1. \A d \in Callers \ {c} : pc'[d] = pc[d] /\ frame'[d] = frame[d]
    BY MovesFrames
  <1>2. Owned /\ FreshCopy /\ CleanCopy
    BY DEF BusyInv
  <1>3. Owned'
    <2> SUFFICES ASSUME NEW s \in Sessions, store'[s] = "Busy", s \notin unowned'
                 PROVE  \E d \in Callers : frame'[d].s = s /\ pc'[d] \in Owning
      BY DEF Owned, sess
    <2>1. CASE s = frame'[c].s /\ pc'[c] \in Owning
      BY <2>1
    <2>2. CASE store[s] = "Busy" /\ s \notin unowned
      <3>1. PICK d \in Callers : sess(d) = s /\ pc[d] \in Owning
        BY <1>2, <2>2 DEF Owned
      <3>2. CASE d = c
        BY <3>1, <3>2 DEF Respects
      <3>3. CASE d # c
        BY <1>1, <3>1, <3>3 DEF sess
      <3> QED BY <3>2, <3>3
    <2>3. s \in unowned => s = frame'[c].s /\ pc'[c] \in Owning
      BY DEF Respects
    <2>4. store[s] = "Busy" \/ (s = frame'[c].s /\ pc'[c] \in Owning)
      BY DEF Respects
    <2> QED BY <2>1, <2>2, <2>3, <2>4
  <1>4. FreshCopy'
    <2>1. \A d \in Callers \ {c} : pc[d] # "touch"
      BY DEF MayRun, Awaits
    <2> QED BY <1>1, <2>1 DEF Respects, FreshCopy, sess
  <1>5. CleanCopy'
    <2> SUFFICES ASSUME NEW d \in Callers, pc'[d] = "backend", frame'[d].st = "Busy"
                 PROVE  frame'[d].s \in unowned'
      BY DEF CleanCopy, sess
    <2>1. CASE d = c
      BY <2>1 DEF Respects
    <2>2. CASE d # c
      <3>1. pc[d] = "backend" /\ sess(d) = frame'[d].s /\ sess(d) \in unowned
        BY <1>1, <1>2, <2>2 DEF CleanCopy, sess
      <3> QED BY <2>2, <3>1 DEF Respects
    <2> QED BY <2>1, <2>2
  <1> QED BY <1>3, <1>4, <1>5 DEF BusyInv

\* Most steps respect the rows plainly: they make none Busy, and are neither
\* part of a turn nor lead to a copy.
LEMMA Plain ==
  ASSUME AcpInv, NEW c \in Callers, pc[c] \notin Owning, pc'[c] \notin {"touch", "backend"},
         unowned \subseteq unowned',
         \/ store' = store
         \/ \E x, st : st # "Busy" /\ store' = [store EXCEPT ![x] = st]
  PROVE  Respects(c)
  <1>1. store \in [Sessions -> States]
    BY FrameFacts DEF DataType
  <1> QED BY <1>1 DEF Respects

LEMMA StepOf ==
  ASSUME AcpInv, NEW c \in Callers
  PROVE  /\ \A p : Goto(c, p) => pc'[c] = p
         /\ Finish(c) => pc'[c] = "idle"
         /\ Leave(c) => pc'[c] \in {"unlock", "idle"}
  BY FrameFacts DEF Goto, Finish, Leave

\* Only a turn that marks its session Busy takes it off the history.
LEMMA NotedGrows ==
  ASSUME NEW c \in Callers, NEW st, pc[c] # "busy" PROVE unowned \subseteq Noted(c, st)
  BY DEF Noted

\* A call that is cut off leaves its Busy row behind, and says so.
LEMMA CutOffRespects ==
  ASSUME AcpInv, NEW c \in Callers, Leave(c), unowned' = CutOff(c), UNCHANGED storeVars
  PROVE  Respects(c)
  <1>1. pc'[c] \in {"unlock", "idle"} /\ store' = store
    BY StepOf DEF storeVars
  <1>2. unowned \subseteq unowned' /\ (pc[c] \in Owning => sess(c) \in unowned')
    BY DEF CutOff
  <1> QED BY <1>1, <1>2 DEF Respects

LEMMA CleanupRespects ==
  ASSUME AcpInv, NEW c \in Callers, CleanupStep(c) PROVE Respects(c)
  <1>0. unowned' = unowned
    BY DEF CleanupStep, ListSessions, Inspect, Evict, Cleaned
  <1>1. CASE ListSessions(c)
    <2>1. pc[c] = "clean" /\ pc'[c] = "scan" /\ store' = store
      BY <1>1, StepOf DEF ListSessions, At, storeVars
    <2> QED BY <1>0, <2>1, Plain DEF Owning
  <1>2. ASSUME NEW s \in Sessions, Inspect(c, s) PROVE Respects(c)
    <2>1. pc[c] = "scan" /\ pc'[c] \in {"scan", "evict"} /\ store' = store
      BY <1>2, StepOf DEF Inspect, At, storeVars
    <2> QED BY <1>0, <2>1, Plain DEF Owning
  <1>3. CASE Evict(c)
    <2>1. /\ pc[c] = "evict" /\ pc'[c] = "scan"
          /\ store' = [store EXCEPT ![frame[c].victim] = "none"]
      BY <1>3, StepOf DEF Evict, At
    <2> QED BY <1>0, <2>1, Plain DEF Owning
  <1>4. CASE Cleaned(c)
    <2>1. pc[c] = "scan" /\ op(c) \in Ops
      BY <1>4, FrameFacts DEF Cleaned, At, FrameOK, op
    <2>2. pc'[c] \in {"idle", "control", "resolve", "clean"} /\ store' = store
      BY <1>4, <2>1, StepOf DEF Cleaned, storeVars, Ops, ControlOps
    <2> QED BY <1>0, <2>1, <2>2, Plain DEF Owning
  <1> QED BY <1>1, <1>2, <1>3, <1>4 DEF CleanupStep

\* The turn that marks its session Busy is alone with it.
LEMMA MarkBusyRespects ==
  ASSUME CoreInv, runtime = "current_thread", NEW c \in Callers, MarkBusy(c),
         Wrote(c, "Busy"), Goto(c, "register"), frame' = frame
  PROVE  Respects(c)
  <1> USE DEF CoreInv
  <1>0. /\ FrameOK(pc[c], frame[c]) /\ store \in [Sessions -> States] /\ pc[c] = "busy"
    BY FrameFacts DEF DataType, MarkBusy, At
  <1>1. /\ pc'[c] = "register" /\ sess(c) \in Sessions
        /\ store' = [store EXCEPT ![sess(c)] = "Busy"] /\ unowned' = unowned \ {sess(c)}
    <2>1. pc'[c] = "register" /\ sess(c) \in Sessions
      BY <1>0, StepOf DEF FrameOK, sess
    <2>2. store' = [store EXCEPT ![sess(c)] = "Busy"] /\ unowned' = Noted(c, "Busy")
      BY DEF Wrote
    <2>3. Noted(c, "Busy") = unowned \ {sess(c)}
      BY <1>0 DEF Noted
    <2> QED BY <2>1, <2>2, <2>3
  <1>2. Inside(pc[c], frame[c])
    BY <1>0 DEF FrameOK, Inside, Holding, Guarded
  <1>3. ASSUME NEW d \in Callers \ {c}, pc[d] = "backend" PROVE sess(d) # sess(c)
    <2>1. FrameOK(pc[d], frame[d])
      BY FrameFacts
    <2>2. Inside(pc[d], frame[d])
      BY <1>3, <2>1 DEF FrameOK, Inside, Holding, Guarded
    <2> QED BY <1>2, <2>2, OneOwner
  <1>4. \A s \in Sessions : store'[s] = "Busy" =>
           store[s] = "Busy" \/ (s = frame'[c].s /\ pc'[c] \in Owning)
    BY <1>0, <1>1 DEF Owning, sess
  <1>5. \A s \in unowned : s \in unowned' \/
          /\ s = frame'[c].s /\ pc'[c] \in Owning
          /\ \A d \in Callers \ {c} : pc[d] = "backend" => sess(d) # s
    BY <1>1, <1>3 DEF Owning, sess
  <1> QED BY <1>0, <1>1, <1>4, <1>5 DEF Respects, Owning

LEMMA TurnRespects ==
  ASSUME CoreInv, BusyInv, runtime = "current_thread", NEW c \in Callers, TurnStep(c)
  PROVE  Respects(c)
  <1> USE DEF CoreInv
  <1>0. /\ frame \in [Callers -> Frame] /\ frame[c] \in Frame /\ store \in [Sessions -> States]
        /\ FrameOK(pc[c], frame[c])
    BY FrameFacts DEF DataType
  <1>f. ASSUME FailedToWrite(c) PROVE Respects(c)
    BY <1>f, CutOffRespects DEF FailedToWrite
  <1>1. CASE Resolve(c)
    <2>1. pc[c] = "resolve" /\ store' = store /\ unowned' = unowned
      BY <1>1 DEF Resolve, At, storeVars
    <2>2. CASE Goto(c, "touch")
      <3>1. /\ frame'[c].st = store[sess(c)] /\ frame'[c].s = sess(c)
            /\ pc'[c] = "touch"
        <4>1. pc'[c] = "touch"
          BY <2>2, StepOf
        <4>2. store[sess(c)] \in States
          BY <1>0, <2>1 DEF FrameOK, sess
        <4>3. frame' = [frame EXCEPT ![c] = Resolved(frame[c], store[sess(c)])]
          BY <1>1, <4>1, StepOf DEF Resolve, Resolved
        <4> QED BY <1>0, <4>1, <4>2, <4>3, ResolvedFrame DEF sess
      <3> QED BY <2>1, <3>1 DEF Respects, Owning
    <2>3. CASE Goto(c, "create") \/ Leave(c)
      BY <2>1, <2>3, StepOf, Plain DEF Owning
    <2> QED BY <1>1, <2>2, <2>3 DEF Resolve
  <1>2. CASE Touch(c)
    <2>1. pc[c] = "touch" /\ ((Wrote(c, frame[c].st) /\ Ensured(c)) \/ FailedToWrite(c))
      BY <1>2 DEF Touch, At, Upsert, Wrote, FailedToWrite
    <2>2. CASE Wrote(c, frame[c].st) /\ Ensured(c)
      <3>1. store' = store
        BY <1>0, <2>1, <2>2 DEF BusyInv, FreshCopy, Wrote
      <3>2. pc'[c] \in {"busy", "idle"}
        BY <2>2, StepOf DEF Ensured
      <3>3. unowned \subseteq unowned'
        BY <2>1, <2>2, NotedGrows DEF Wrote
      <3> QED BY <2>1, <3>1, <3>2, <3>3, Plain DEF Owning
    <2> QED BY <1>f, <2>1, <2>2
  <1>3. CASE Create(c)
    <2>1. /\ pc[c] = "create"
          /\ \/ Wrote(c, "Ready") /\ Ensured(c)
             \/ FailedToWrite(c)
             \/ Leave(c) /\ UNCHANGED <<storeVars, faults, unowned>>
      BY <1>3 DEF Create, At, Upsert, Wrote, FailedToWrite
    <2>2. CASE Wrote(c, "Ready") /\ Ensured(c)
      <3>1. store' = [store EXCEPT ![sess(c)] = "Ready"]
        BY <2>2 DEF Wrote
      <3>2. pc'[c] \in {"busy", "idle"}
        BY <2>2, StepOf DEF Ensured
      <3>3. unowned \subseteq unowned'
        BY <2>1, <2>2, NotedGrows DEF Wrote
      <3> QED BY <2>1, <3>1, <3>2, <3>3, Plain DEF Owning
    <2>3. CASE Leave(c) /\ UNCHANGED <<storeVars, faults, unowned>>
      BY <2>1, <2>3, StepOf, Plain DEF Owning, storeVars
    <2> QED BY <1>f, <2>1, <2>2, <2>3
  <1>4. CASE MarkBusy(c)
    <2>1. \/ Wrote(c, "Busy") /\ Goto(c, "register") /\ frame' = frame
          \/ FailedToWrite(c)
      BY <1>4 DEF MarkBusy, Upsert, Wrote, FailedToWrite
    <2> QED BY <1>f, <1>4, <2>1, MarkBusyRespects
  <1>5. CASE RegisterTurn(c)
    <2>1. pc'[c] = "turn" /\ store' = store /\ frame' = frame /\ unowned' = unowned
      BY <1>5, StepOf DEF RegisterTurn, storeVars
    <2> QED BY <2>1 DEF Respects, Owning, sess
  <1>6. ASSUME NEW st \in {"Ready", "Error"}, EndTurn(c, st) PROVE Respects(c)
    <2>1. pc'[c] = "clear" /\ store' = store /\ unowned' = unowned
      BY <1>6, StepOf DEF EndTurn, storeVars
    <2>2. frame'[c].s = sess(c)
      BY <1>0, <1>6 DEF EndTurn, Frame, sess
    <2> QED BY <2>1, <2>2 DEF Respects, Owning
  <1>7. CASE ClearTurn(c)
    <2>1. pc'[c] = "result" /\ store' = store /\ frame' = frame /\ unowned' = unowned
      BY <1>7, StepOf DEF ClearTurn, storeVars
    <2> QED BY <2>1 DEF Respects, Owning, sess
  <1>8. CASE StoreResult(c)
    <2>1. pc[c] = "result" /\ ((Wrote(c, frame[c].st) /\ Leave(c)) \/ FailedToWrite(c))
      BY <1>8 DEF StoreResult, At, Upsert, Wrote, FailedToWrite
    <2>2. CASE Wrote(c, frame[c].st) /\ Leave(c)
      <3>1. frame[c].st # "Busy" /\ sess(c) \in Sessions
        BY <1>0, <2>1 DEF FrameOK, sess
      <3>2. pc'[c] \in {"unlock", "idle"}
        BY <2>2, StepOf
      <3>3. unowned \subseteq unowned'
        BY <2>1, <2>2, NotedGrows DEF Wrote
      <3>4. store' = [store EXCEPT ![sess(c)] = frame[c].st]
        BY <2>2 DEF Wrote
      <3> QED BY <1>0, <3>1, <3>2, <3>3, <3>4 DEF Respects
    <2> QED BY <1>f, <2>1, <2>2
  <1> QED BY <1>1, <1>2, <1>3, <1>4, <1>5, <1>6, <1>7, <1>8 DEF TurnStep

\* A control operation that has the guard sees no Busy row of a turn: the turn
\* would have the guard too.
LEMMA ControlRespects ==
  ASSUME CoreInv, BusyInv, runtime = "current_thread", NEW c \in Callers, ControlStep(c)
  PROVE  Respects(c)
  <1> USE DEF CoreInv
  <1>0. /\ frame \in [Callers -> Frame] /\ frame[c] \in Frame /\ store \in [Sessions -> States]
        /\ FrameOK(pc[c], frame[c])
    BY FrameFacts DEF DataType
  <1>f. ASSUME FailedToWrite(c) PROVE Respects(c)
    BY <1>f, CutOffRespects DEF FailedToWrite
  <1>1. CASE LookForTurn(c)
    <2>1. pc[c] = "look" /\ pc'[c] \in {"preempt", "ref"} /\ store' = store /\ unowned' = unowned
      BY <1>1, StepOf DEF LookForTurn, At, storeVars
    <2> QED BY <2>1, Plain DEF Owning
  <1>w. ASSUME NEW st, st # "Busy" \/ sess(c) \in unowned', Wrote(c, st),
               pc[c] \in {"preempt", "cancelling", "backend"},
               pc'[c] \in {"cancelling", "ref", "idle", "unlock"}
        PROVE  Respects(c)
    <2>1. unowned \subseteq unowned' /\ store' = [store EXCEPT ![sess(c)] = st]
      BY <1>w, NotedGrows DEF Wrote
    <2>2. CASE st # "Busy"
      BY <1>w, <2>1, <2>2, Plain DEF Owning
    <2>3. CASE sess(c) \in unowned'
      BY <1>0, <1>w, <2>1, <2>3 DEF Respects, Owning
    <2> QED BY <1>w, <2>2, <2>3
  <1>2. CASE Preempt(c)
    <2>1. pc[c] = "preempt" /\ ((Wrote(c, "Cancelling") /\ Goto(c, "cancelling")) \/ FailedToWrite(c))
      BY <1>2 DEF Preempt, At, Upsert, Wrote, FailedToWrite
    <2> QED BY <1>f, <1>w, <2>1, StepOf
  <1>3. CASE Preempted(c)
    <2>1. /\ pc[c] = "cancelling"
          /\ \/ (Finish(c) \/ Goto(c, "ref")) /\ UNCHANGED <<storeVars, unowned>>
             \/ Wrote(c, "Error") /\ Finish(c)
             \/ FailedToWrite(c)
      BY <1>3 DEF Preempted, At, Upsert, Wrote, FailedToWrite
    <2>2. CASE (Finish(c) \/ Goto(c, "ref")) /\ UNCHANGED <<storeVars, unowned>>
      BY <2>1, <2>2, StepOf, Plain DEF Owning, storeVars
    <2> QED BY <1>f, <1>w, <2>1, <2>2, StepOf
  <1>4. CASE Control(c)
    <2>1. pc[c] = "control" /\ store' = store /\ unowned' = unowned
      BY <1>4 DEF Control, At, storeVars
    <2>2. CASE Leave(c)
      BY <2>1, <2>2, StepOf, Plain DEF Owning
    <2>3. CASE frame' = [frame EXCEPT ![c].st = store[sess(c)]] /\ Goto(c, "backend")
      <3>1. pc'[c] = "backend" /\ frame'[c].st = store[sess(c)] /\ frame'[c].s = sess(c)
        BY <1>0, <2>3, StepOf DEF Frame, sess
      <3>2. Inside(pc[c], frame[c]) /\ sess(c) \in Sessions
        BY <1>0, <2>1 DEF FrameOK, Inside, Holding, Guarded, sess
      <3>3. store[sess(c)] = "Busy" => sess(c) \in unowned
        <4> SUFFICES ASSUME store[sess(c)] = "Busy", sess(c) \notin unowned PROVE FALSE
          OBVIOUS
        <4>1. PICK d \in Callers : sess(d) = sess(c) /\ pc[d] \in Owning
          BY <3>2 DEF BusyInv, Owned
        <4>2. FrameOK(pc[d], frame[d])
          BY FrameFacts
        <4>3. Inside(pc[d], frame[d])
          BY <4>1, <4>2 DEF FrameOK, Inside, Owning, Holding, Guarded
        <4>4. d = c
          BY <3>2, <4>1, <4>3, OneOwner
        <4> QED BY <2>1, <4>1, <4>4 DEF Owning
      <3> QED BY <2>1, <3>1, <3>3 DEF Respects, Owning
    <2> QED BY <1>4, <2>2, <2>3 DEF Control
  <1>5. CASE Answered(c)
    <2>1. pc[c] = "backend" /\ op(c) \in ControlOps
      BY <1>0, <1>5 DEF Answered, At, FrameOK, op
    <2>2. \/ \E st \in StatesAfter(c) \cup {"Error"} : Wrote(c, st) /\ Leave(c)
          \/ FailedToWrite(c)
          \/ Leave(c) /\ UNCHANGED <<storeVars, faults, unowned>>
      BY <1>5 DEF Answered, Upsert, Wrote, FailedToWrite
    <2>3. ASSUME NEW st \in StatesAfter(c) \cup {"Error"}, Wrote(c, st), Leave(c)
          PROVE  Respects(c)
      <3>1. st = "Busy" => sess(c) \in unowned'
        <4> SUFFICES ASSUME st = "Busy" PROVE sess(c) \in unowned'
          OBVIOUS
        <4>1. CASE op(c) = "status"
          BY <2>1, <2>3, <4>1 DEF Wrote, Noted
        <4>2. CASE op(c) = "mode"
          <5>1. frame[c].st = "Busy"
            BY <2>3, <4>2 DEF StatesAfter
          <5>2. sess(c) \in unowned
            BY <2>1, <5>1 DEF BusyInv, CleanCopy
          <5> QED BY <2>1, <2>3, <5>2, NotedGrows DEF Wrote
        <4>3. CASE op(c) \in {"cancel", "close"}
          BY <2>3, <4>3 DEF StatesAfter
        <4> QED BY <2>1, <4>1, <4>2, <4>3 DEF ControlOps
      <3> QED BY <1>w, <2>1, <2>3, <3>1, StepOf
    <2>4. CASE Leave(c) /\ UNCHANGED <<storeVars, faults, unowned>>
      BY <2>1, <2>4, StepOf, Plain DEF Owning, storeVars
    <2> QED BY <1>f, <2>2, <2>3, <2>4
  <1>6. CASE Closed(c)
    <2>1. /\ pc[c] = "backend" /\ Leave(c) /\ store' = [store EXCEPT ![sess(c)] = "none"]
          /\ unowned' = unowned
      BY <1>6 DEF Closed, At
    <2> QED BY <2>1, StepOf, Plain DEF Owning
  <1> QED BY <1>1, <1>2, <1>3, <1>4, <1>5, <1>6 DEF ControlStep

LEMMA ProtocolRespects ==
  ASSUME CoreInv, NEW c \in Callers, Protocol(c) \/ Join(c)
  PROVE  /\ Respects(c) /\ MayRun(c) /\ UNCHANGED runtime
         /\ \E p, f : Moves(c, p, f) /\ FrameOK(p, f)
  <1> USE DEF CoreInv
  <1>1. /\ pc[c] \notin Owning /\ pc'[c] \notin {"touch", "backend"} /\ store' = store
        /\ MayRun(c) /\ UNCHANGED <<runtime, unowned>>
    <2>1. MayRun(c) /\ UNCHANGED <<runtime, unowned>> /\ store' = store
      BY DEF Protocol, IncrementRef, IncrementPending, Join, Acquire, Unlock, DecrementPending,
         DecrementRef, RemoveActor, DropWait, At, storeVars
    <2>2. pc[c] \notin Owning
      BY DEF Protocol, IncrementRef, IncrementPending, Join, Acquire, Unlock, DecrementPending,
         DecrementRef, RemoveActor, DropWait, At, Owning
    <2>3. pc'[c] \notin {"touch", "backend"}
      BY StepOf DEF Protocol, IncrementRef, IncrementPending, Join, Acquire, Unlock, DecrementPending,
         DecrementRef, RemoveActor, DropWait
    <2> QED BY <2>1, <2>2, <2>3
  <1>2. \E p, f : Moves(c, p, f) /\ FrameOK(p, f)
    <2>1. CASE Join(c)
      BY <2>1, JoinMoves
    <2>2. CASE IncrementRef(c)
      BY <2>2, IncrementRefMoves
    <2>3. CASE Unlock(c)
      BY <2>3, UnlockMoves
    <2>4. CASE Protocol(c) /\ ~IncrementRef(c) /\ ~Unlock(c)
      BY <2>4, IncrementPendingMoves, AcquireMoves, DecrementPendingMoves, DecrementRefMoves,
         RemoveActorMoves, DropWaitMoves DEF Protocol
    <2> QED BY <2>1, <2>2, <2>3, <2>4
  <1> QED BY <1>1, <1>2, Plain

LEMMA BusyStep == ASSUME CoreInv, BusyInv, [Next]_vars PROVE BusyInv'
  <1> USE DEF CoreInv
  <1> SUFFICES ASSUME runtime' = "current_thread" PROVE BusyInv'
    BY DEF BusyInv
  <1>2. ASSUME NEW c \in Callers, Quiet(c) PROVE BusyInv'
    <2>1. QuietStep(c)
      BY <1>2, QuietSteps
    <2>2. MayRun(c) /\ UNCHANGED runtime /\ \E p, f : Moves(c, p, f) /\ FrameOK(p, f)
      BY <2>1 DEF QuietStep, Inner
    <2>3. runtime = "current_thread"
      BY <2>2
    <2>4. CASE \E o \in Ops, s \in Sessions : Start(c, o, s)
      <3>1. PICK o \in Ops, s \in Sessions : Start(c, o, s)
        BY <2>4
      <3>2. pc[c] = "idle" /\ store' = store /\ unowned' = unowned
        BY <3>1 DEF Start, At, storeVars
      <3>3. pc'[c] \in {"look", "ref", "clean"}
        BY <3>1, StepOf DEF Start, Ops
      <3>4. Respects(c)
        BY <3>2, <3>3, Plain DEF Owning
      <3> QED BY <2>2, <2>3, <3>4, BusyKept
    <2>5. CASE CheckActor(c)
      <3>1. pc[c] = "check" /\ pc'[c] \in {"remove", "idle"} /\ UNCHANGED <<store, unowned>>
        BY <2>5, StepOf DEF CheckActor, At, storeVars
      <3>2. Respects(c)
        BY <3>1, Plain DEF Owning
      <3> QED BY <2>2, <2>3, <3>2, BusyKept
    <2>6. CASE CleanupStep(c) \/ TurnStep(c) \/ ControlStep(c)
      BY <2>2, <2>3, <2>6, CleanupRespects, TurnRespects, ControlRespects, BusyKept
    <2>7. CASE DropCall(c)
      <3>1. Respects(c)
        BY <2>7, CutOffRespects DEF DropCall, storeVars
      <3> QED BY <2>2, <2>3, <3>1, BusyKept
    <2> QED BY <1>2, <2>4, <2>5, <2>6, <2>7 DEF Quiet
  <1>3. ASSUME NEW c \in Callers, Protocol(c) \/ Join(c) PROVE BusyInv'
    BY <1>3, ProtocolRespects, BusyKept
  <1>4. CASE UNCHANGED <<runtime, store, pc, frame, unowned>>
    <2>1. Owned => Owned'
      BY <1>4 DEF Owned, sess
    <2>2. FreshCopy => FreshCopy'
      BY <1>4 DEF FreshCopy, sess
    <2>3. CleanCopy => CleanCopy'
      BY <1>4 DEF CleanCopy, sess
    <2> QED BY <1>4, <2>1, <2>2, <2>3 DEF BusyInv
  <1>5. ASSUME NEW s \in Sessions, GoIdle(s) PROVE UNCHANGED <<runtime, store, pc, frame, unowned>>
    BY <1>5 DEF GoIdle
  <1>6. CASE Restart
    <2>1. \A c \in Callers : pc'[c] = "idle"
      BY <1>6 DEF Restart
    <2>2. \A s \in Sessions : store'[s] = "Busy" => s \in unowned'
      BY <1>6 DEF Restart, storeVars
    <2> QED BY <2>1, <2>2 DEF BusyInv, Owned, FreshCopy, CleanCopy
  <1> QED BY <1>2, <1>3, <1>4, <1>5, <1>6, NextCases DEF vars

(***************************************************************************)
(* On one thread a Busy row has a turn that will overwrite it, or the      *)
(* backend reported Busy, or the turn that wrote it was cut off: the       *)
(* copies that ensure_session, set_mode and set_config_option write back   *)
(* never bring the Busy of a turn back that has ended.                     *)
(***************************************************************************)
THEOREM BusyIsOwned == Spec => []BusyHasOwner
  <1> DEFINE I == CoreInv /\ BusyInv
  <1>1. Init => I
    <2> SUFFICES ASSUME Init PROVE I
      OBVIOUS
    <2>1. (\A s \in Sessions : store[s] = "none") /\ (\A c \in Callers : pc[c] = "idle")
      BY DEF Init
    <2>2. BusyInv
      BY <2>1 DEF BusyInv, Owned, FreshCopy, CleanCopy
    <2> QED BY <2>2, CoreInit
  <1>2. I /\ [Next]_vars => I'
    BY CoreStep, BusyStep
  <1>3. I => BusyHasOwner
    BY DEF BusyInv, BusyHasOwner, Owned
  <1> HIDE DEF I
  <1> QED BY <1>1, <1>2, <1>3, PTL DEF Spec
-----------------------------------------------------------------------------
(* One line per session                                                    *)

\* No two sessions have a mutex in common.
LocksApart == \A s, t \in Sessions : actorLock[s] # 0 /\ actorLock[s] = actorLock[t] => s = t

LineInv == CoreInv /\ LocksApart

\* What the steps of the protocol do to the registry of mutexes: a new one is
\* nobody's, and the removed one is gone.
LEMMA LocksApartStep == ASSUME AcpInv, LocksApart, [Next]_vars PROVE LocksApart'
  <1>k. ASSUME actorLock' = actorLock PROVE LocksApart'
    BY <1>k DEF LocksApart
  <1>1. ASSUME NEW c \in Callers, Quiet(c) PROVE actorLock' = actorLock
    BY <1>1, QuietSteps DEF QuietStep, actorVars
  <1>2. ASSUME NEW c \in Callers, Join(c) PROVE LocksApart'
    <2> DEFINE x == sess(c)
               l == ActorFor(x)
    <2>1. x \in Sessions /\ frame[c].lock = 0
      BY <1>2, JoinMoves
    <2>2. actorLock[x] = l \/ \A s \in Sessions : actorLock[s] # l
      BY <2>1, FreshLockExists DEF ActorFor
    <2>3. /\ actorLock'[x] = l
          /\ \A s \in Sessions \ {x} : actorLock'[s] = actorLock[s]
      BY <1>2, <2>1, InvParts DEF Join, Registries
    <2> HIDE DEF x, l
    <2> QED BY <2>1, <2>2, <2>3 DEF LocksApart
  <1>3. ASSUME NEW c \in Callers, RemoveActor(c) PROVE LocksApart'
    <2>1. sess(c) \in Sessions
      BY <1>3, RemoveActorMoves
    <2>2. /\ actorLock'[sess(c)] = 0
          /\ \A s \in Sessions \ {sess(c)} : actorLock'[s] = actorLock[s]
      BY <1>3, <2>1, InvParts DEF RemoveActor, Registries
    <2> QED BY <2>1, <2>2 DEF LocksApart
  <1>4. ASSUME NEW c \in Callers, Protocol(c), ~RemoveActor(c) PROVE actorLock' = actorLock
    BY <1>4 DEF Protocol, IncrementRef, IncrementPending, Acquire, Unlock, DecrementPending,
                DecrementRef, DropWait, actorVars
  <1>5. CASE Restart
    <2>1. \A s \in Sessions : actorLock'[s] = 0
      BY <1>5 DEF Restart
    <2> QED BY <2>1 DEF LocksApart
  <1>6. (\E s \in Sessions : GoIdle(s)) \/ UNCHANGED vars => actorLock' = actorLock
    BY DEF GoIdle, actorVars, vars
  <1> QED BY <1>k, <1>1, <1>2, <1>3, <1>4, <1>5, <1>6, NextCases

\* The flavour of the runtime never changes.
LEMMA RuntimeKept == ASSUME AcpInv, [Next]_vars PROVE runtime' = runtime
  <1>1. ASSUME NEW c \in Callers, Quiet(c) PROVE runtime' = runtime
    BY <1>1, QuietSteps DEF QuietStep
  <1>2. ASSUME NEW c \in Callers, Join(c) \/ Protocol(c) PROVE runtime' = runtime
    BY <1>2 DEF Join, Protocol, IncrementRef, IncrementPending, Acquire, Unlock, DecrementPending,
                DecrementRef, RemoveActor, DropWait
  <1>3. (\E s \in Sessions : GoIdle(s)) \/ Restart \/ UNCHANGED vars => runtime' = runtime
    BY DEF GoIdle, Restart, vars
  <1> QED BY <1>1, <1>2, <1>3, NextCases

\* The abstract state.
Lines == [s \in Sessions |-> Line(s)]
Owners == [s \in Sessions |-> Within(s)]

\* Who is inside after a step of caller c.
LEMMA WithinMoves ==
  ASSUME AcpInv, OneThread, runtime' = runtime, NEW c \in Callers, NEW p, NEW f,
         Moves(c, p, f), FrameOK(p, f), NEW s \in Sessions
  PROVE  Within(s)' = (Within(s) \ {c}) \cup (IF f.s = s /\ Inside(p, f) THEN {c} ELSE {})
  <1>1. /\ pc'[c] = p /\ frame'[c] = f
        /\ \A d \in Callers \ {c} : pc'[d] = pc[d] /\ frame'[d] = frame[d]
    BY MovesFrames
  <1>2. Within(s) = {d \in Callers : frame[d].s = s /\ Inside(pc[d], frame[d])}
    BY DEF Within, OneThread, Inside, sess, op
  <1>3. Within(s)' = {d \in Callers : frame'[d].s = s /\ Inside(pc'[d], frame'[d])}
    BY DEF Within, OneThread, Inside, sess, op
  <1> QED BY <1>1, <1>2, <1>3

\* ... and when it owns the same session before and after, or none.
LEMMA WithinKept ==
  ASSUME AcpInv, OneThread, runtime' = runtime, NEW c \in Callers, NEW p, NEW f,
         Moves(c, p, f), FrameOK(p, f),
         \/ ~Inside(pc[c], frame[c]) /\ ~Inside(p, f)
         \/ Inside(pc[c], frame[c]) /\ Inside(p, f) /\ f.s = sess(c)
  PROVE  \A s \in Sessions : Within(s)' = Within(s)
  <1> TAKE s \in Sessions
  <1>1. Within(s)' = (Within(s) \ {c}) \cup (IF f.s = s /\ Inside(p, f) THEN {c} ELSE {})
    BY WithinMoves
  <1>2. c \in Within(s) <=> sess(c) = s /\ Inside(pc[c], frame[c])
    BY DEF Within, OneThread, Inside, sess, op
  <1> QED BY <1>1, <1>2

\* A step that changes neither the registry nor the queues keeps the lines.
LEMMA LineKept ==
  ASSUME UNCHANGED <<runtime, actorLock, queue>> PROVE \A s \in Sessions : Line(s)' = Line(s)
  BY DEF Line, OneThread

\* The functions follow from their values.
LEMMA LinesSet ==
  ASSUME NEW x \in Sessions, NEW q, Line(x)' = q, \A s \in Sessions \ {x} : Line(s)' = Line(s)
  PROVE  Lines' = [Lines EXCEPT ![x] = q]
  BY DEF Lines

LEMMA OwnersSet ==
  ASSUME NEW x \in Sessions, NEW S, Within(x)' = S, \A s \in Sessions \ {x} : Within(s)' = Within(s)
  PROVE  Owners' = [Owners EXCEPT ![x] = S]
  BY DEF Owners

LEMMA Unmoved ==
  ASSUME \A s \in Sessions : Line(s)' = Line(s) /\ Within(s)' = Within(s)
  PROVE  Lines' = Lines /\ Owners' = Owners
  BY DEF Lines, Owners

\* On one thread whoever waits for a session or owns it is in its line, and
\* the owner is the first; the lines are sequences of callers.
LEMMA InItsLine ==
  ASSUME LineInv, OneThread, NEW c \in Callers, Member(pc[c], frame[c])
  PROVE  /\ sess(c) \in Sessions /\ frame[c].lock \in LockIds
         /\ frame[c].lock = actorLock[sess(c)] /\ actorLock[sess(c)] # 0
         /\ Line(sess(c)) = queue[frame[c].lock] /\ Line(sess(c)) \in Seq(Callers)
         /\ \E k \in DOMAIN Line(sess(c)) : Line(sess(c))[k] = c /\ (pc[c] # "wait" => k = 1)
  <1>1. op(c) \in Guarded /\ InQueue(pc[c]) /\ sess(c) \in Sessions
    BY FrameFacts DEF LineInv, CoreInv, FrameOK, Member, InQueue, Holding, op, sess
  <1>2. frame[c].lock = actorLock[sess(c)] /\ frame[c].lock # 0
    BY DEF LineInv, CoreInv, ThreadInv, OneThread, OneLock, Member
  <1>3. Line(sess(c)) = queue[frame[c].lock]
    BY <1>2 DEF Line
  <1> QED BY <1>1, <1>2, <1>3, InItsQueue DEF LineInv, CoreInv

LEMMA OwnerFirst ==
  ASSUME LineInv, OneThread, NEW s \in Sessions, NEW c \in Within(s)
  PROVE  /\ c \in Callers /\ sess(c) = s /\ Inside(pc[c], frame[c]) /\ Member(pc[c], frame[c])
         /\ Line(s) # <<>> /\ Head(Line(s)) = c
  <1>1. c \in Callers /\ sess(c) = s /\ Inside(pc[c], frame[c])
    BY DEF Within, OneThread, Inside, op
  <1>2. Member(pc[c], frame[c]) /\ pc[c] # "wait"
    BY <1>1, FrameFacts DEF LineInv, CoreInv, Member, FrameOK, Inside, WithLock, InQueue, Holding
  <1>3. Line(s) \in Seq(Callers) /\ 1 \in DOMAIN Line(s) /\ Line(s)[1] = c
    BY <1>1, <1>2, InItsLine
  <1> QED BY <1>1, <1>2, <1>3

\* A caller leaves its line, and no other line changes.
LEMMA LineLeft ==
  ASSUME LineInv, OneThread, NEW c \in Callers, Member(pc[c], frame[c]), LeavesQueue(c),
         UNCHANGED <<runtime, actorLock>>, NEW x, x = sess(c)
  PROVE  /\ Line(x)' = Without(Line(x), c)
         /\ \A s \in Sessions \ {x} : Line(s)' = Line(s)
  <1> DEFINE l == frame[c].lock
  <1>1. x \in Sessions /\ l \in LockIds /\ l = actorLock[x] /\ l # 0 /\ Line(x) = queue[l]
    BY InItsLine
  <1>2. queue'[l] = Without(queue[l], c) /\ \A m \in LockIds \ {l} : queue'[m] = queue[m]
    BY <1>1, InvParts DEF LeavesQueue, LineInv, CoreInv, Registries
  <1>3. \A s \in Sessions \ {x} : actorLock[s] # l
    BY <1>1 DEF LineInv, LocksApart
  <1>4. \A s \in Sessions : actorLock[s] \in LockIds \cup {0}
    BY InvParts DEF LineInv, CoreInv, Registries
  <1>t. OneThread'
    BY DEF OneThread
  <1>5. Line(x)' = queue'[l]
    BY <1>1, <1>t DEF Line
  <1>6. ASSUME NEW s \in Sessions \ {x} PROVE Line(s)' = Line(s)
    <2>1. actorLock'[s] = actorLock[s]
      OBVIOUS
    <2>2. CASE actorLock[s] = 0
      BY <2>1, <2>2 DEF Line
    <2>3. CASE actorLock[s] # 0
      <3>1. queue'[actorLock[s]] = queue[actorLock[s]]
        BY <1>2, <1>3, <1>4, <1>6, <2>3
      <3> QED BY <1>t, <2>1, <2>3, <3>1 DEF Line
    <2> QED BY <2>2, <2>3
  <1> HIDE DEF l
  <1> QED BY <1>1, <1>2, <1>5, <1>6

\* The place of c in a sequence of distinct callers is unique.
LEMMA WithoutPlace ==
  ASSUME NEW q \in Seq(Callers), NEW k \in DOMAIN q, NEW c, q[k] = c,
         \A i, j \in DOMAIN q : q[i] = q[j] => i = j
  PROVE  Without(q, c) = [i \in 1..Len(q) - 1 |-> IF i < k THEN q[i] ELSE q[i + 1]]
  <1>1. (CHOOSE i \in DOMAIN q : q[i] = c) = k
    OBVIOUS
  <1> QED BY <1>1, Zenon DEF Without

LEMMA WithoutFirst ==
  ASSUME NEW q \in Seq(Callers), q # <<>>, NEW c, q[1] = c,
         \A i, j \in DOMAIN q : q[i] = q[j] => i = j
  PROVE  Without(q, c) = Tail(q)
  <1> DEFINE n == Len(q)
             w == [i \in 1..n - 1 |-> IF i < 1 THEN q[i] ELSE q[i + 1]]
  <1>1. n \in Nat /\ n >= 1 /\ DOMAIN q = 1..n /\ 1 \in DOMAIN q
    OBVIOUS
  <1>2. Without(q, c) = w
    BY <1>1, WithoutPlace
  <1>3. Tail(q) \in Seq(Callers) /\ Len(Tail(q)) = n - 1 /\ \A i \in 1..n - 1 : Tail(q)[i] = q[i + 1]
    BY <1>1
  <1>4. Without(q, c) \in Seq(Callers)
    BY <1>1, WithoutFacts
  <1>5. DOMAIN w = 1..n - 1 /\ \A i \in 1..n - 1 : w[i] = q[i + 1]
    BY <1>1
  <1> HIDE DEF w, n
  <1>6. w \in Seq(Callers) /\ Len(w) = n - 1
    BY <1>1, <1>2, <1>4, <1>5
  <1>7. w = Tail(q)
    BY <1>3, <1>5, <1>6, SeqEqual
  <1> QED BY <1>2, <1>7

\* No line holds a caller twice.
LEMMA LineDistinct ==
  ASSUME LineInv, NEW s \in Sessions, NEW i \in DOMAIN Line(s), NEW j \in DOMAIN Line(s),
         Line(s)[i] = Line(s)[j]
  PROVE  i = j
  <1>1. CASE Line(s) = <<>>
    BY <1>1
  <1>2. CASE actorLock[s] \in LockIds /\ Line(s) = queue[actorLock[s]]
    BY <1>2 DEF LineInv, CoreInv, QueueInv, QueuedOnce
  <1>3. actorLock[s] \in LockIds \cup {0}
    BY InvParts DEF LineInv, CoreInv, Registries
  <1> QED BY <1>1, <1>2, <1>3 DEF Line

\* The steps of one caller, on one thread.
LEMMA LineQuiet ==
  ASSUME LineInv, OneThread, NEW c \in Callers, Quiet(c)
  PROVE  Lines' = Lines /\ Owners' = Owners
  <1>1. AcpInv /\ QuietStep(c)
    BY QuietSteps DEF LineInv, CoreInv
  <1>2. UNCHANGED <<runtime, actorLock, queue>>
    BY <1>1 DEF QuietStep, actorVars
  <1>3. PICK p, f : Moves(c, p, f) /\ FrameOK(p, f) /\ Continues(c, p, f)
    BY <1>1 DEF QuietStep, Inner
  <1>4. \/ ~Inside(pc[c], frame[c]) /\ ~Inside(p, f)
        \/ Inside(pc[c], frame[c]) /\ Inside(p, f) /\ f.s = sess(c)
    BY <1>3 DEF Continues, Outside, Inside, Holding
  <1>5. \A s \in Sessions : Within(s)' = Within(s)
    BY <1>1, <1>2, <1>3, <1>4, WithinKept
  <1> QED BY <1>2, <1>5, LineKept, Unmoved

\* A step of the protocol between two places outside the guard.
LEMMA LinePassive ==
  ASSUME LineInv, OneThread, NEW c \in Callers, NEW p, NEW f, Moves(c, p, f), FrameOK(p, f),
         ~Inside(pc[c], frame[c]), ~Inside(p, f), UNCHANGED <<runtime, actorLock, queue>>
  PROVE  Lines' = Lines /\ Owners' = Owners
  <1>1. \A s \in Sessions : Within(s)' = Within(s)
    BY WithinKept DEF LineInv, CoreInv
  <1> QED BY <1>1, LineKept, Unmoved

LEMMA LineCounts ==
  ASSUME LineInv, OneThread, NEW c \in Callers,
         IncrementRef(c) \/ IncrementPending(c) \/ DecrementPending(c) \/ DecrementRef(c)
  PROVE  Lines' = Lines /\ Owners' = Owners
  <1>0. AcpInv
    BY DEF LineInv, CoreInv
  <1>1. CASE IncrementRef(c)
    <2> DEFINE p == IF op(c) = "turn" THEN "pend" ELSE "join"
    <2>1. ~Inside(pc[c], frame[c]) /\ ~Inside(p, frame[c])
      BY <1>0, <1>1, IncrementRefMoves DEF Inside, Holding
    <2> HIDE DEF p
    <2>2. Moves(c, p, frame[c]) /\ FrameOK(p, frame[c])
      BY <1>0, <1>1, IncrementRefMoves DEF p
    <2>3. UNCHANGED <<runtime, actorLock, queue>>
      BY <1>1 DEF IncrementRef
    <2> QED BY <2>1, <2>2, <2>3, LinePassive
  <1>2. CASE IncrementPending(c)
    <2>1. ~Inside(pc[c], frame[c]) /\ ~Inside("join", frame[c])
      BY <1>0, <1>2, IncrementPendingMoves DEF Inside, Holding
    <2>2. UNCHANGED <<runtime, actorLock, queue>>
      BY <1>2 DEF IncrementPending
    <2> QED BY <1>0, <1>2, <2>1, <2>2, IncrementPendingMoves, LinePassive
  <1>3. CASE DecrementPending(c)
    <2>1. ~Inside(pc[c], frame[c]) /\ ~Inside("unref", frame[c])
      BY <1>0, <1>3, DecrementPendingMoves DEF Inside, Holding
    <2>2. UNCHANGED <<runtime, actorLock, queue>>
      BY <1>3 DEF DecrementPending
    <2> QED BY <1>0, <1>3, <2>1, <2>2, DecrementPendingMoves, LinePassive
  <1>4. CASE DecrementRef(c)
    <2>1. ~Inside(pc[c], frame[c]) /\ ~Inside("check", frame[c])
      BY <1>0, <1>4, DecrementRefMoves DEF Inside, Holding
    <2>2. UNCHANGED <<runtime, actorLock, queue>>
      BY <1>4 DEF DecrementRef
    <2> QED BY <1>0, <1>4, <2>1, <2>2, DecrementRefMoves, LinePassive
  <1> QED BY <1>1, <1>2, <1>3, <1>4

LEMMA NobodyInIt ==
  ASSUME NEW q \in Seq(Callers), \A i \in DOMAIN q : FALSE
  PROVE  q = <<>>
  <1>1. Len(q) \in Nat /\ DOMAIN q = 1..Len(q)
    OBVIOUS
  <1>2. 1 \notin DOMAIN q
    OBVIOUS
  <1>3. Len(q) = 0
    BY <1>1, <1>2
  <1> QED BY <1>3, EmptySeq

\* The mutex that is removed has an empty queue, so the line stays as it is.
LEMMA LineRemove ==
  ASSUME LineInv, OneThread, NEW c \in Callers, RemoveActor(c)
  PROVE  Lines' = Lines /\ Owners' = Owners
  <1>0. AcpInv /\ QueueInv /\ CountsExact /\ LocksApart /\ OneLock /\ RemovesUnused /\ Registries
    BY InvParts DEF LineInv, CoreInv, ThreadInv, OneThread
  <1>1. /\ pc[c] = "remove" /\ sess(c) \in Sessions
        /\ Moves(c, "idle", NoFrame) /\ FrameOK("idle", NoFrame)
    BY <1>0, RemoveActorMoves
  <1>2. ~Inside(pc[c], frame[c]) /\ ~Inside("idle", NoFrame) /\ UNCHANGED <<runtime, queue>>
    BY <1>1 DEF Inside, Holding, RemoveActor
  <1>3. \A s \in Sessions : Within(s)' = Within(s)
    BY <1>0, <1>1, <1>2, WithinKept
  <1>4. PICK x \in Sessions : x = sess(c)
    BY <1>1
  <1>5. actorLock'[x] = 0 /\ \A s \in Sessions \ {x} : actorLock'[s] = actorLock[s]
    BY <1>0, <1>1, <1>4 DEF RemoveActor, Registries
  <1>6. ASSUME actorLock[x] # 0 PROVE queue[actorLock[x]] = <<>>
    <2> DEFINE l == actorLock[x]
    <2>1. l \in LockIds /\ queue[l] \in Seq(Callers)
      BY <1>0, <1>6 DEF Registries
    <2>2. ASSUME NEW i \in DOMAIN queue[l] PROVE FALSE
      <3>1. PICK d \in Callers : d = queue[l][i]
        BY <2>1
      <3>2. frame[d].lock = l /\ Member(pc[d], frame[d])
        BY <1>0, <1>6, <2>1, <3>1 DEF QueueInv, QueuedOK, Member
      <3>3. Refers(pc[d], frame[d], sess(d)) /\ sess(d) \in Sessions
        BY <1>0, <3>2, FrameFacts DEF Member, FrameOK, Refers, InQueue, Holding, sess
      <3>4. sess(d) = x
        BY <1>0, <1>6, <3>2, <3>3 DEF OneLock, LocksApart
      <3>5. refs[x] >= 1 /\ refs[x] = 0
        BY <1>0, <1>1, <1>4, <3>3, <3>4, CountsPositive DEF RemovesUnused
      <3> QED BY <3>5
    <2> QED BY <2>1, <2>2, NobodyInIt
  <1>7. \A s \in Sessions : Line(s)' = Line(s)
    BY <1>2, <1>5, <1>6 DEF Line, OneThread
  <1> QED BY <1>3, <1>7, Unmoved

\* The first of the line is handed the mutex, and nobody is inside.
LEMMA LineEnter ==
  ASSUME LineInv, OneThread, NEW c \in Callers, Acquire(c)
  PROVE  \E s \in Sessions : Turns!Enter(c, s)
  <1>0. AcpInv
    BY DEF LineInv, CoreInv
  <1>1. /\ pc[c] = "wait" /\ op(c) \in Guarded /\ sess(c) \in Sessions /\ frame[c].lock # 0
        /\ Moves(c, "clean", frame[c]) /\ FrameOK("clean", frame[c])
    BY <1>0, AcquireMoves
  <1>2. PICK x \in Sessions : x = sess(c)
    BY <1>1
  <1>3. Member(pc[c], frame[c]) /\ Inside("clean", frame[c]) /\ ~Inside(pc[c], frame[c])
    BY <1>1 DEF Member, InQueue, Inside, Holding, op
  <1>4. Line(x) # <<>> /\ Head(Line(x)) = c
    BY <1>2, <1>3, InItsLine DEF Acquire
  <1>5. Within(x) = {}
    <2> SUFFICES ASSUME NEW d \in Within(x) PROVE FALSE
      OBVIOUS
    <2>1. Inside(pc[d], frame[d]) /\ d = c
      BY <1>4, OwnerFirst
    <2> QED BY <1>3, <2>1
  <1>6. UNCHANGED <<runtime, actorLock, queue>>
    BY DEF Acquire, actorVars
  <1>7. Within(x)' = {c} /\ \A s \in Sessions \ {x} : Within(s)' = Within(s)
    <2>1. \A s \in Sessions : Within(s)' = (Within(s) \ {c}) \cup (IF frame[c].s = s THEN {c} ELSE {})
      BY <1>0, <1>1, <1>3, <1>6, WithinMoves
    <2>2. \A s \in Sessions : c \notin Within(s)
      BY <1>3, OwnerFirst
    <2>3. frame[c].s = x
      BY <1>2 DEF sess
    <2>4. Within(x)' = {c}
      BY <1>5, <2>1, <2>3
    <2>5. \A s \in Sessions \ {x} : Within(s)' = Within(s)
      BY <2>1, <2>2, <2>3
    <2> QED BY <2>4, <2>5
  <1>8. Owners' = [Owners EXCEPT ![x] = {c}]
    BY <1>7, OwnersSet
  <1>9. Lines' = Lines
    BY <1>6, LineKept DEF Lines
  <1>10. Lines[x] = Line(x) /\ Owners[x] = Within(x)
    BY DEF Lines, Owners
  <1>11. Turns!Enter(c, x)
    BY <1>4, <1>5, <1>8, <1>9, <1>10 DEF Turns!Enter, Lines, Owners
  <1> QED BY <1>11

\* The owner comes out, and leaves the line at its head.
LEMMA LineOut ==
  ASSUME LineInv, OneThread, NEW c \in Callers, Unlock(c)
  PROVE  \E s \in Sessions : Turns!ComeOut(c, s)
  <1>0. AcpInv /\ QueueInv /\ CoreInv
    BY DEF LineInv, CoreInv
  <1> DEFINE p == IF op(c) = "turn" THEN "unpend" ELSE "unref"
  <1>1. pc[c] = "unlock" /\ op(c) \in Guarded /\ sess(c) \in Sessions
    BY <1>0, UnlockMoves
  <1>2. ~Inside(p, frame[c]) /\ Inside(pc[c], frame[c])
    BY <1>1 DEF Inside, Holding, op
  <1> HIDE DEF p
  <1>3. Moves(c, p, frame[c]) /\ FrameOK(p, frame[c]) /\ LeavesQueue(c)
    BY <1>0, UnlockMoves DEF p
  <1>4. PICK x \in Sessions : x = sess(c)
    BY <1>1
  <1>5. c \in Within(x)
    BY <1>2, <1>4 DEF Within, OneThread, Inside, op
  <1>6. Member(pc[c], frame[c]) /\ Line(x) # <<>> /\ Head(Line(x)) = c
    BY <1>5, OwnerFirst
  <1>7. Within(x) = {c}
    BY <1>5, <1>6, OwnerFirst
  <1>8. UNCHANGED <<runtime, actorLock>>
    BY DEF Unlock
  <1>9. Line(x)' = Without(Line(x), c) /\ \A s \in Sessions \ {x} : Line(s)' = Line(s)
    BY <1>4, <1>6, <1>8, <1>3, LineLeft
  <1>10. Line(x) \in Seq(Callers) /\ Line(x)[1] = c
    BY <1>4, <1>6, InItsLine
  <1>11. Without(Line(x), c) = Tail(Line(x))
    BY <1>6, <1>10, WithoutFirst, LineDistinct
  <1>12. Within(x)' = {} /\ \A s \in Sessions \ {x} : Within(s)' = Within(s)
    <2>1. \A s \in Sessions : Within(s)' = Within(s) \ {c}
      BY <1>0, <1>2, <1>3, <1>8, WithinMoves
    <2>2. \A s \in Sessions \ {x} : c \notin Within(s)
      BY <1>4, OwnerFirst
    <2> QED BY <1>7, <2>1, <2>2
  <1>13. Owners' = [Owners EXCEPT ![x] = {}]
    BY <1>12, OwnersSet
  <1>14. Lines' = [Lines EXCEPT ![x] = Tail(Line(x))]
    BY <1>9, <1>11, LinesSet
  <1>15. Lines[x] = Line(x) /\ Owners[x] = Within(x)
    BY DEF Lines, Owners
  <1>16. Turns!ComeOut(c, x)
    BY <1>6, <1>7, <1>13, <1>14, <1>15 DEF Turns!ComeOut, Lines, Owners
  <1> QED BY <1>16

\* A caller that comes stands behind the queue of the registered mutex, or
\* alone at a new one.
LEMMA LineJoin ==
  ASSUME LineInv, OneThread, NEW c \in Callers, Join(c)
  PROVE  \E s \in Sessions : Turns!Arrive(c, s)
  <1>0. AcpInv /\ QueueInv /\ LocksApart /\ Registries
    BY InvParts DEF LineInv, CoreInv
  <1>1. PICK x \in Sessions : x = sess(c)
    BY <1>0, JoinMoves
  <1>2. PICK l \in LockIds : l = ActorFor(sess(c))
    BY <1>0, JoinMoves
  <1>3. pc[c] = "join" /\ frame[c].lock = 0
    BY <1>0, JoinMoves
  <1>4. PICK f : Moves(c, "wait", f) /\ FrameOK("wait", f)
    BY <1>0, JoinMoves
  <1>5. UNCHANGED runtime /\ OneThread'
    BY DEF Join, OneThread
  <1>6. \A s \in Sessions : Within(s)' = Within(s)
    <2>1. ~Inside(pc[c], frame[c]) /\ ~Inside("wait", f)
      BY <1>3 DEF Inside, Holding
    <2> QED BY <1>0, <1>4, <1>5, <2>1, WithinKept
  <1>7. /\ actorLock'[x] = l /\ \A s \in Sessions \ {x} : actorLock'[s] = actorLock[s]
        /\ queue'[l] = Append(queue[l], c) /\ \A m \in LockIds \ {l} : queue'[m] = queue[m]
    BY <1>0, <1>1, <1>2 DEF Join, Registries
  <1>8. \A s \in Sessions \ {x} : actorLock[s] # l
    BY <1>0, <1>1, <1>2, <1>3, FreshLockExists DEF ActorFor, LocksApart
  <1>9. Line(x) = queue[l]
    <2>1. CASE actorLock[x] # 0
      BY <1>1, <1>2, <2>1 DEF ActorFor, Line
    <2>2. CASE actorLock[x] = 0
      <3>1. \A d \in Callers : frame[d].lock # l
        BY <1>0, <1>1, <1>2, <1>3, <2>2, FreshLockExists DEF ActorFor
      <3>2. queue[l] \in Seq(Callers)
        BY <1>0 DEF Registries
      <3>3. ASSUME NEW i \in DOMAIN queue[l] PROVE FALSE
        <4>1. queue[l][i] \in Callers
          BY <3>2
        <4> QED BY <1>0, <3>1, <4>1 DEF QueueInv, QueuedOK
      <3>4. queue[l] = <<>>
        BY <3>2, <3>3, NobodyInIt
      <3> QED BY <2>2, <3>4 DEF Line
    <2> QED BY <2>1, <2>2
  <1>10. Line(x)' = Append(Line(x), c)
    <2>1. Line(x)' = queue'[l]
      BY <1>5, <1>7 DEF Line, LockIds
    <2> QED BY <1>7, <1>9, <2>1
  <1>11. ASSUME NEW s \in Sessions \ {x} PROVE Line(s)' = Line(s)
    <2>1. CASE actorLock[s] = 0
      BY <1>7, <2>1 DEF Line
    <2>2. CASE actorLock[s] # 0
      <3>1. actorLock[s] \in LockIds \ {l}
        BY <1>0, <1>8, <2>2 DEF Registries
      <3> QED BY <1>5, <1>7, <3>1 DEF Line
    <2> QED BY <2>1, <2>2
  <1>12. ASSUME NEW s \in Sessions, NEW i \in DOMAIN Line(s), Line(s)[i] = c PROVE FALSE
    <2>1. CASE Line(s) = <<>>
      BY <1>12, <2>1
    <2>2. CASE Line(s) # <<>>
      <3>1. actorLock[s] \in LockIds /\ Line(s) = queue[actorLock[s]]
        BY <1>0, <2>2 DEF Line, Registries
      <3>2. frame[c].lock = actorLock[s]
        BY <1>0, <1>12, <3>1 DEF QueueInv, QueuedOK
      <3> QED BY <1>3, <3>1, <3>2 DEF LockIds
    <2> QED BY <2>1, <2>2
  <1>13. Lines' = [Lines EXCEPT ![x] = Append(Line(x), c)]
    BY <1>10, <1>11, LinesSet
  <1>14. Owners' = Owners
    BY <1>6 DEF Owners
  <1>15. \A s \in Sessions : Lines[s] = Line(s)
    BY DEF Lines
  <1>16. \A t \in Sessions : ~Turns!InLine(c, t)
    BY <1>12 DEF Turns!InLine
  <1>17. Turns!Arrive(c, x)
    BY <1>13, <1>14, <1>15, <1>16 DEF Turns!Arrive, Lines, Owners
  <1> QED BY <1>17

\* A caller gives up before it has the mutex; the others keep their order.
LEMMA LineGiveUp ==
  ASSUME LineInv, OneThread, NEW c \in Callers, DropWait(c)
  PROVE  \E s \in Sessions : Turns!GiveUp(c, s)
  <1>0. AcpInv /\ QueueInv
    BY DEF LineInv, CoreInv
  <1>1. /\ pc[c] = "wait" /\ LeavesQueue(c)
        /\ Moves(c, "idle", NoFrame) /\ FrameOK("idle", NoFrame)
    BY <1>0, DropWaitMoves
  <1>2. Member(pc[c], frame[c]) /\ ~Inside(pc[c], frame[c]) /\ ~Inside("idle", NoFrame)
    BY <1>0, <1>1, FrameFacts DEF Member, FrameOK, WithLock, InQueue, Inside, Holding
  <1>3. PICK x \in Sessions : x = sess(c)
    BY <1>2, InItsLine
  <1>4. UNCHANGED <<runtime, actorLock>>
    BY DEF DropWait
  <1>5. \A s \in Sessions : Within(s)' = Within(s)
    BY <1>0, <1>1, <1>2, <1>4, WithinKept
  <1>6. Line(x)' = Without(Line(x), c) /\ \A s \in Sessions \ {x} : Line(s)' = Line(s)
    BY <1>1, <1>2, <1>3, <1>4, LineLeft
  <1>7. Line(x) \in Seq(Callers) /\ \E k \in DOMAIN Line(x) : Line(x)[k] = c
    BY <1>2, <1>3, InItsLine
  <1>8. PICK k \in DOMAIN Line(x) : Line(x)[k] = c
    BY <1>7
  <1>9. Without(Line(x), c) =
          [i \in 1..Len(Line(x)) - 1 |-> IF i < k THEN Line(x)[i] ELSE Line(x)[i + 1]]
    BY <1>7, <1>8, WithoutPlace, LineDistinct
  <1>10. c \notin Within(x)
    BY <1>2, OwnerFirst
  <1>11. Lines' = [Lines EXCEPT ![x] = Without(Line(x), c)] /\ Owners' = Owners
    BY <1>5, <1>6, LinesSet DEF Owners
  <1>12. Lines[x] = Line(x) /\ Owners[x] = Within(x)
    BY DEF Lines, Owners
  <1>13. \E i \in DOMAIN Lines[x] :
            /\ Lines[x][i] = c
            /\ Lines' = [Lines EXCEPT ![x] =
                          [j \in 1..Len(Lines[x]) - 1 |->
                             IF j < i THEN Lines[x][j] ELSE Lines[x][j + 1]]]
    <2>1. k \in DOMAIN Lines[x] /\ Lines[x][k] = c
      BY <1>8, <1>12
    <2>2. Lines' = [Lines EXCEPT ![x] =
                      [j \in 1..Len(Lines[x]) - 1 |->
                         IF j < k THEN Lines[x][j] ELSE Lines[x][j + 1]]]
      BY <1>9, <1>11, <1>12, Zenon
    <2> QED BY <2>1, <2>2, Zenon
  <1>14. c \notin Owners[x] /\ Owners' = Owners
    BY <1>10, <1>11, <1>12
  <1>15. Turns!GiveUp(c, x)
    BY <1>13, <1>14, Zenon DEF Turns!GiveUp, Lines, Owners
  <1> QED BY <1>15

\* Nobody is left after a restart.
LEMMA LineClear == ASSUME Restart PROVE Turns!Clear
  <1>1. \A s \in Sessions : actorLock'[s] = 0
    BY DEF Restart
  <1>2. \A s \in Sessions : Line(s)' = <<>>
    BY <1>1 DEF Line
  <1>3. \A c \in Callers : pc'[c] = "idle"
    BY DEF Restart
  <1>4. \A s \in Sessions : Within(s)' = {}
    BY <1>3 DEF Within, Holding
  <1> QED BY <1>2, <1>4 DEF Turns!Clear

LEMMA LineStep ==
  ASSUME LineInv, [Next]_vars
  PROVE  [Turns!LineNext]_(Turns!lineVars)
  <1>0. AcpInv
    BY DEF LineInv, CoreInv
  <1>k. ASSUME Lines' = Lines, Owners' = Owners PROVE UNCHANGED Turns!lineVars
    BY <1>k DEF Turns!lineVars, Lines, Owners
  <1>1. CASE ~OneThread
    <2>1. ~OneThread'
      BY <1>0, <1>1, RuntimeKept DEF OneThread
    <2>2. \A s \in Sessions : Line(s)' = Line(s) /\ Within(s)' = Within(s)
      BY <1>1, <2>1 DEF Line, Within
    <2> QED BY <1>k, <2>2, Unmoved
  <1>2. CASE OneThread
    <2>1. ASSUME NEW c \in Callers, Join(c) PROVE Turns!LineNext
      BY <1>2, <2>1, LineJoin DEF Turns!LineNext
    <2>2. ASSUME NEW c \in Callers, Acquire(c) PROVE Turns!LineNext
      BY <1>2, <2>2, LineEnter DEF Turns!LineNext
    <2>3. ASSUME NEW c \in Callers, Unlock(c) PROVE Turns!LineNext
      BY <1>2, <2>3, LineOut DEF Turns!LineNext
    <2>4. ASSUME NEW c \in Callers, DropWait(c) PROVE Turns!LineNext
      BY <1>2, <2>4, LineGiveUp DEF Turns!LineNext
    <2>5. CASE Restart
      BY <2>5, LineClear DEF Turns!LineNext
    <2>6. ASSUME NEW c \in Callers, Quiet(c) PROVE UNCHANGED Turns!lineVars
      BY <1>k, <1>2, <2>6, LineQuiet
    <2>7. ASSUME NEW c \in Callers,
                 IncrementRef(c) \/ IncrementPending(c) \/ DecrementPending(c) \/ DecrementRef(c)
          PROVE  UNCHANGED Turns!lineVars
      BY <1>k, <1>2, <2>7, LineCounts
    <2>8. ASSUME NEW c \in Callers, RemoveActor(c) PROVE UNCHANGED Turns!lineVars
      BY <1>k, <1>2, <2>8, LineRemove
    <2>9. CASE (\E s \in Sessions : GoIdle(s)) \/ UNCHANGED vars
      <3>1. UNCHANGED <<runtime, actorLock, queue, pc, frame>>
        BY <2>9 DEF GoIdle, actorVars, vars
      <3>2. \A s \in Sessions : Line(s)' = Line(s) /\ Within(s)' = Within(s)
        BY <3>1 DEF Line, Within, OneThread, sess, op
      <3> QED BY <1>k, <3>2, Unmoved
    <2> QED BY <2>1, <2>2, <2>3, <2>4, <2>5, <2>6, <2>7, <2>8, <2>9, NextCases DEF Protocol
  <1> QED BY <1>1, <1>2

(***************************************************************************)
(* On one thread the manager is one first-come-first-served line per       *)
(* session: although SessionActorGuard::drop prunes the registry of        *)
(* mutexes by reference counts read in a critical section of their own, no *)
(* caller ever waits at a mutex that get_or_insert_session_actor would not *)
(* return, so callers own a session one at a time and in the order in      *)
(* which they came; a dropped wait takes out the one that gave up.         *)
(***************************************************************************)
THEOREM SessionsAreLines == Spec => FifoOnOneThread
  <1>1. Init => LineInv
    <2>1. Init => LocksApart
      BY DEF Init, LocksApart
    <2> QED BY <2>1, CoreInit DEF LineInv
  <1>2. LineInv /\ [Next]_vars => LineInv'
    BY CoreStep, LocksApartStep DEF LineInv, CoreInv
  <1>3. Init => Turns!LineInit
    <2> SUFFICES ASSUME Init PROVE Turns!LineInit
      OBVIOUS
    <2>1. \A s \in Sessions : Line(s) = <<>>
      BY DEF Init, Line
    <2>2. \A s \in Sessions : Within(s) = {}
      BY DEF Init, Within, Holding
    <2> QED BY <2>1, <2>2 DEF Turns!LineInit
  <1>4. LineInv /\ [Next]_vars => [Turns!LineNext]_(Turns!lineVars)
    BY LineStep
  <1> QED BY <1>1, <1>2, <1>3, <1>4, PTL DEF Spec, FifoOnOneThread, Turns!LineSpec

=============================================================================
