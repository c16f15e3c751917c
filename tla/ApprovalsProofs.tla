-------------------------- MODULE ApprovalsProofs --------------------------
(***************************************************************************)
(* The approval runtime keeps its promises for any number of calls,        *)
(* scopes and resolvers.  ApprovalInv is inductive: CallSound ties the     *)
(* columns of a row, the grants and the history of a call together,        *)
(* TaskSound says what a resolver may rely on between two of its           *)
(* statements, and OneExecutor is what makes that reliance safe: the row   *)
(* of a resolver past its decision changes by nobody else.                 *)
(***************************************************************************)
EXTENDS Approvals, TLAPS

Working == {"grant", "begin", "replay", "await", "finish"}

CallSound(c) ==
    /\ status[c] \in {"absent", "Pending"} <=> decision[c] = "open"
    /\ status[c] = "Denied" <=> decision[c] = "Deny"
    /\ replays[c] \in {0, 1}
    /\ replays[c] = 1 => status[c] \in {"Executing", "Executed"}
    /\ decision[c] = "ApproveAlways" /\ status[c] \in {"Executing", "Executed"}
          => Scope[c] \in grants
    /\ outcome[c] \in Answered => replays[c] = 1
    /\ status[c] = "Executed" /\ ~lastError[c] => outcome[c] \in Answered
    /\ turn[c] = "run" => Scope[c] \in grants

TaskSound(r) ==
    LET c == task[r].call
        step == task[r].step
    IN  /\ step = "grant" => status[c] = "Approved" /\ decision[c] = "ApproveAlways"
        /\ step = "begin" =>
              /\ status[c] = "Approved"
              /\ decision[c] = "ApproveAlways" => Scope[c] \in grants
        /\ step = "replay" => status[c] = "Executing" /\ replays[c] = 0
        /\ step = "await" => status[c] = "Executing" /\ replays[c] = 1
        /\ step = "finish" => status[c] = "Executing" /\ outcome[c] \in ReplayResults

ApprovalInv ==
    /\ TypeOK
    /\ \A c \in Calls : CallSound(c)
    /\ \A r \in Resolvers : TaskSound(r)
    /\ OneExecutor

USE ScopeAssumption DEF ApprovalRequestStatus, ApprovalDecision, TurnSteps, ResolveSteps,
                        Task, Working, Answered, ReplayResults

-----------------------------------------------------------------------------
(* Lemmas                                                                  *)

\* A resolver that has returned is well typed.
LEMMA NoTaskType == NoTask \in Task
  BY CallsAssumption DEF NoTask

\* What a conditional update changes, and what it leaves alone.
Moved(c, from, to, dec, err) ==
    /\ status' \in [Calls -> ApprovalRequestStatus]
    /\ decision' \in [Calls -> ApprovalDecision \cup {"open"}]
    /\ lastError' \in [Calls -> BOOLEAN]
    /\ status[c] = from /\ status'[c] = to
    /\ decision'[c] = (IF dec = "none" THEN decision[c] ELSE dec)
    /\ lastError'[c] = err
    /\ \A d \in Calls : d # c => /\ status'[d] = status[d]
                                 /\ decision'[d] = decision[d]
                                 /\ lastError'[d] = lastError[d]

\* A conditional update that finds its row moves it.
LEMMA TransitionEffect ==
    ASSUME TypeOK, NEW c \in Calls, NEW from, NEW to \in ApprovalRequestStatus,
           NEW dec \in ApprovalDecision \cup {"none"}, NEW err \in BOOLEAN,
           Transition(c, from, to, dec, err)
    PROVE  Moved(c, from, to, dec, err)
  <1>1. lastError' \in [Calls -> BOOLEAN]
    <2>1. lastError \in [Calls -> BOOLEAN] /\ lastError' = [lastError EXCEPT ![c] = err]
      BY DEF TypeOK, Transition
    <2> QED BY <2>1
  <1>2. lastError'[c] = err /\ \A d \in Calls : d # c => lastError'[d] = lastError[d]
    BY DEF TypeOK, Transition
  <1>3. /\ status' \in [Calls -> ApprovalRequestStatus]
        /\ decision' \in [Calls -> ApprovalDecision \cup {"open"}]
    BY DEF TypeOK, Transition
  <1>4. /\ decision'[c] = (IF dec = "none" THEN decision[c] ELSE dec)
        /\ \A d \in Calls : d # c => status'[d] = status[d] /\ decision'[d] = decision[d]
    BY DEF TypeOK, Transition
  <1>5. status[c] = from /\ status'[c] = to
    BY DEF TypeOK, Transition
  <1> QED BY <1>1, <1>2, <1>3, <1>4, <1>5 DEF Moved

\* A step that touches no row, no grant and no history, and at most sends
\* resolvers home or back to the decision, keeps the invariant.
LEMMA Quiet ==
    ASSUME ApprovalInv, UNCHANGED <<rows, grants, replays, outcome>>, TypeOK',
           \A c \in Calls : turn'[c] = turn[c] \/ (turn'[c] = "run" => Scope[c] \in grants),
           \A r \in Resolvers : task'[r] = task[r] \/ task'[r].step \in {"idle", "decide"}
    PROVE  ApprovalInv'
  <1>1. \A c \in Calls : CallSound(c)'
    BY DEF ApprovalInv, CallSound, rows
  <1>2. \A r \in Resolvers : TaskSound(r)'
    <2> SUFFICES ASSUME NEW r \in Resolvers PROVE TaskSound(r)'
      OBVIOUS
    <2>1. CASE task'[r] = task[r]
      BY <2>1 DEF ApprovalInv, TaskSound, rows
    <2>2. CASE task'[r].step \in {"idle", "decide"}
      BY <2>2 DEF TaskSound
    <2> QED BY <2>1, <2>2
  <1>3. OneExecutor'
    BY DEF ApprovalInv, OneExecutor
  <1> QED BY <1>1, <1>2, <1>3 DEF ApprovalInv

\* A resolver r that writes only the row and the history of its own request
\* keeps the invariant if it does for that request and for itself: the others
\* work on other requests.
LEMMA Alone ==
    ASSUME ApprovalInv, TypeOK', turn' = turn, grants \subseteq grants',
           NEW r \in Resolvers, NEW c \in Calls, task[r].call = c,
           \A d \in Calls : d # c =>
               /\ status'[d] = status[d] /\ decision'[d] = decision[d]
               /\ lastError'[d] = lastError[d] /\ replays'[d] = replays[d]
               /\ outcome'[d] = outcome[d],
           \A s \in Resolvers : s # r => task'[s] = task[s],
           \A s \in Resolvers : s # r /\ task[s].call = c => task[s].step \notin Working,
           task'[r].call = c \/ task'[r].step = "idle",
           CallSound(c)', TaskSound(r)'
    PROVE  ApprovalInv'
  <1>1. \A d \in Calls : CallSound(d)'
    <2> SUFFICES ASSUME NEW d \in Calls, d # c PROVE CallSound(d)'
      OBVIOUS
    <2>1. CallSound(d)
      BY DEF ApprovalInv
    <2> QED BY <2>1 DEF CallSound
  <1>2. \A s \in Resolvers : TaskSound(s)'
    <2> SUFFICES ASSUME NEW s \in Resolvers, s # r PROVE TaskSound(s)'
      OBVIOUS
    <2>1. TaskSound(s) /\ task'[s] = task[s] /\ task[s].call \in Calls
      BY DEF ApprovalInv, TypeOK
    <2>2. CASE task[s].call = c
      BY <2>1, <2>2 DEF TaskSound
    <2>3. CASE task[s].call # c
      BY <2>1, <2>3 DEF TaskSound
    <2> QED BY <2>2, <2>3
  <1>3. OneExecutor'
    BY DEF ApprovalInv, OneExecutor
  <1> QED BY <1>1, <1>2, <1>3 DEF ApprovalInv

\* Nobody else works on the request of a resolver past its decision, and
\* nobody at all on one that is still pending.
LEMMA NoRival ==
    ASSUME ApprovalInv, NEW r \in Resolvers,
           task[r].step \in Working \/ status[task[r].call] = "Pending"
    PROVE  \A s \in Resolvers : s # r /\ task[s].call = task[r].call
                                   => task[s].step \notin Working
  <1>1. CASE task[r].step \in Working
    BY <1>1 DEF ApprovalInv, OneExecutor
  <1>2. CASE status[task[r].call] = "Pending"
    BY <1>2 DEF ApprovalInv, TaskSound
  <1> QED BY <1>1, <1>2

-----------------------------------------------------------------------------
(* The inductive step                                                      *)

\* Every action of a turn keeps the invariant.
LEMMA TurnStep ==
    ASSUME ApprovalInv, NEW c \in Calls,
           LookupGrant(c) \/ EnsureRequest(c) \/ RunTool(c) \/ EndTurn(c)
    PROVE  ApprovalInv'
  <1> USE DEF history, rows
  <1>0. TypeOK
    BY DEF ApprovalInv
  <1>1. CASE LookupGrant(c)
    <2>1. TypeOK'
      BY <1>0, <1>1 DEF LookupGrant, TypeOK
    <2> QED BY <1>0, <1>1, <2>1, Quiet DEF LookupGrant, TypeOK
  <1>2. CASE EnsureRequest(c)
    <2>1. TypeOK'
      BY <1>0, <1>2 DEF EnsureRequest, TypeOK
    <2>2. CASE UNCHANGED status
      BY <1>0, <1>2, <2>1, <2>2, Quiet DEF EnsureRequest, TypeOK
    <2>3. CASE status[c] = "absent" /\ status' = [status EXCEPT ![c] = "Pending"]
      <3>1. \A d \in Calls : CallSound(d)'
        BY <1>0, <1>2, <2>3 DEF EnsureRequest, ApprovalInv, CallSound, TypeOK
      <3>2. \A r \in Resolvers : TaskSound(r)'
        BY <1>0, <1>2, <2>3 DEF EnsureRequest, ApprovalInv, TaskSound, TypeOK
      <3>3. OneExecutor'
        BY <1>2 DEF EnsureRequest, ApprovalInv, OneExecutor
      <3> QED BY <2>1, <3>1, <3>2, <3>3 DEF ApprovalInv
    <2> QED BY <1>2, <2>2, <2>3 DEF EnsureRequest
  <1>3. CASE RunTool(c)
    <2>1. direct' \in [Calls -> BOOLEAN]
      BY <1>0, <1>3 DEF RunTool, TypeOK
    <2>2. TypeOK'
      BY <1>0, <1>3, <2>1 DEF RunTool, TypeOK
    <2> QED BY <1>0, <1>3, <2>2, Quiet DEF RunTool, TypeOK
  <1>4. CASE EndTurn(c)
    <2>1. TypeOK'
      BY <1>0, <1>4 DEF EndTurn, TypeOK
    <2> QED BY <1>0, <1>4, <2>1, Quiet DEF EndTurn, TypeOK
  <1> QED BY <1>1, <1>2, <1>3, <1>4

\* A resolver that returns without having written anything keeps it too.
LEMMA ReturnStep ==
    ASSUME ApprovalInv, NEW r \in Resolvers, Return(r),
           UNCHANGED <<rows, grants, turn, history>>
    PROVE  ApprovalInv'
  <1>0. TypeOK
    BY DEF ApprovalInv
  <1>1. TypeOK'
    BY <1>0, NoTaskType DEF Return, TypeOK, rows, history
  <1>2. \A s \in Resolvers : task'[s] = task[s] \/ task'[s].step = "idle"
    BY <1>0 DEF Return, NoTask, TypeOK
  <1> QED BY <1>0, <1>1, <1>2, Quiet DEF history

\* Loading a request and deciding it.
LEMMA DecideStep ==
    ASSUME ApprovalInv, NEW r \in Resolvers,
           \/ \E c \in Calls, dec \in ApprovalDecision : LoadRequest(r, c, dec)
           \/ DenyRequest(r)
           \/ ApproveRequest(r)
    PROVE  ApprovalInv'
  <1>0. TypeOK
    BY DEF ApprovalInv
  <1> DEFINE t == task[r].call
  <1>c. t \in Calls /\ CallSound(t)
    BY <1>0 DEF ApprovalInv, TypeOK
  <1>1. CASE \E c \in Calls, dec \in ApprovalDecision : LoadRequest(r, c, dec)
    <2>1. TypeOK'
      BY <1>0, <1>1 DEF LoadRequest, TypeOK, rows, history
    <2>2. \A s \in Resolvers : task'[s] = task[s] \/ task'[s].step = "decide"
      BY <1>0, <1>1 DEF LoadRequest, TypeOK
    <2> QED BY <1>0, <1>1, <2>1, <2>2, Quiet DEF LoadRequest, history
  <1>2. CASE DenyRequest(r)
    <2>1. CASE UNCHANGED rows
      BY <1>2, <2>1, ReturnStep DEF DenyRequest
    <2>2. CASE Transition(t, "Pending", "Denied", "Deny", FALSE)
      <3>1. PICK c \in Calls : c = t
        BY <1>c
      <3>2. /\ status[c] = "Pending" /\ status'[c] = "Denied"
            /\ decision'[c] = "Deny"
            /\ status' \in [Calls -> ApprovalRequestStatus]
            /\ decision' \in [Calls -> ApprovalDecision \cup {"open"}]
            /\ lastError' \in [Calls -> BOOLEAN]
            /\ \A d \in Calls : d # c => /\ status'[d] = status[d]
                                         /\ decision'[d] = decision[d]
                                         /\ lastError'[d] = lastError[d]
        <4>1. Transition(c, "Pending", "Denied", "Deny", FALSE)
          BY <2>2, <3>1
        <4>2. Moved(c, "Pending", "Denied", "Deny", FALSE)
          BY <1>0, <4>1, TransitionEffect
        <4> QED BY <4>2 DEF Moved
      <3>3. task' = [task EXCEPT ![r] = NoTask] /\ UNCHANGED <<grants, turn, history>>
        BY <1>2 DEF DenyRequest, Return
      <3>4. TypeOK'
        BY <1>0, <3>2, <3>3, NoTaskType DEF TypeOK, history
      <3>5. CallSound(c)' /\ TaskSound(r)'
        BY <1>0, <1>c, <3>1, <3>2, <3>3 DEF CallSound, TaskSound, TypeOK, NoTask, history
      <3>6. \A s \in Resolvers : s # r /\ task[s].call = c => task[s].step \notin Working
        BY <3>1, <3>2, NoRival
      <3> QED BY <1>0, <3>1, <3>2, <3>3, <3>4, <3>5, <3>6, Alone DEF TypeOK, NoTask, history
    <2> QED BY <1>2, <2>1, <2>2 DEF DenyRequest
  <1>3. CASE ApproveRequest(r)
    <2>1. CASE UNCHANGED rows /\ Return(r)
      BY <1>3, <2>1, ReturnStep DEF ApproveRequest
    <2>2. CASE /\ Transition(t, "Pending", "Approved", task[r].dec, FALSE)
               /\ \/ Goto(r, IF task[r].dec = "ApproveAlways" THEN "grant" ELSE "begin")
                  \/ Return(r)
      <3>1. PICK c \in Calls : c = t
        BY <1>c
      <3>d. task[r].dec \in {"ApproveOnce", "ApproveAlways"} /\ task[r] \in Task
        BY <1>0, <1>3 DEF ApproveRequest, TypeOK
      <3>2. /\ status[c] = "Pending" /\ status'[c] = "Approved"
            /\ decision'[c] = task[r].dec
            /\ status' \in [Calls -> ApprovalRequestStatus]
            /\ decision' \in [Calls -> ApprovalDecision \cup {"open"}]
            /\ lastError' \in [Calls -> BOOLEAN]
            /\ \A d \in Calls : d # c => /\ status'[d] = status[d]
                                         /\ decision'[d] = decision[d]
                                         /\ lastError'[d] = lastError[d]
        <4>1. Transition(c, "Pending", "Approved", task[r].dec, FALSE)
          BY <2>2, <3>1
        <4>2. Moved(c, "Pending", "Approved", task[r].dec, FALSE)
          BY <1>0, <4>1, <3>d, TransitionEffect
        <4> QED BY <4>2, <3>d DEF Moved
      <3>3. /\ UNCHANGED <<grants, turn, history>>
            /\ \A s \in Resolvers : s # r => task'[s] = task[s]
            /\ task' \in [Resolvers -> Task]
            /\ \/ task'[r] = NoTask
               \/ /\ task'[r].call = c
                  /\ task'[r].step =
                        IF task[r].dec = "ApproveAlways" THEN "grant" ELSE "begin"
        BY <1>0, <1>3, <2>2, <3>1, NoTaskType DEF ApproveRequest, Goto, Return, TypeOK
      <3>4. TypeOK'
        BY <1>0, <3>2, <3>3 DEF TypeOK, history
      <3>5. CallSound(c)'
        BY <1>c, <3>1, <3>2, <3>3, <3>d DEF CallSound, history
      <3>6. TaskSound(r)'
        <4>1. CASE task'[r] = NoTask
          BY <4>1 DEF TaskSound, NoTask
        <4>2. CASE task'[r] # NoTask
          BY <4>2, <3>2, <3>3, <3>d DEF TaskSound
        <4> QED BY <4>1, <4>2
      <3>7. \A s \in Resolvers : s # r /\ task[s].call = c => task[s].step \notin Working
        BY <3>1, <3>2, NoRival
      <3> QED BY <3>1, <3>2, <3>3, <3>4, <3>5, <3>6, <3>7, Alone DEF NoTask, history
    <2> QED BY <1>3, <2>1, <2>2 DEF ApproveRequest, Attempt
  <1> QED BY <1>1, <1>2, <1>3

\* The grant of an "always": it touches no row, and every row is as sound with
\* more grants as with fewer.
LEMMA GrantStep ==
    ASSUME ApprovalInv, NEW r \in Resolvers, PersistGrant(r)
    PROVE  ApprovalInv'
  <1>0. TypeOK
    BY DEF ApprovalInv
  <1>1. CASE UNCHANGED grants /\ Return(r)
    BY <1>1, ReturnStep DEF PersistGrant
  <1>2. CASE /\ grants' = grants \cup {Scope[task[r].call]}
             /\ Goto(r, "begin") \/ Return(r)
    <2>1. PICK c \in Calls : c = task[r].call
      BY <1>0 DEF TypeOK
    <2>2. /\ UNCHANGED <<rows, turn, history>>
          /\ \A s \in Resolvers : s # r => task'[s] = task[s]
          /\ task' \in [Resolvers -> Task]
          /\ \/ task'[r] = NoTask
             \/ task'[r].call = c /\ task'[r].step = "begin"
      BY <1>0, <1>2, <2>1, NoTaskType, PersistGrant(r)
         DEF PersistGrant, Goto, Return, TypeOK
    <2>3. TypeOK'
      BY <1>0, <1>2, <2>1, <2>2 DEF TypeOK, rows, history
    <2>4. CallSound(c)'
      <3>1. CallSound(c)
        BY DEF ApprovalInv
      <3> QED BY <1>2, <2>2, <3>1 DEF CallSound, rows, history
    <2>5. TaskSound(r)'
      <3>1. task[r].step = "grant" /\ TaskSound(r)
        BY DEF ApprovalInv, PersistGrant
      <3>2. CASE task'[r] = NoTask
        BY <3>2 DEF TaskSound, NoTask
      <3>3. CASE task'[r].call = c /\ task'[r].step = "begin"
        BY <1>2, <2>1, <2>2, <3>1, <3>3 DEF TaskSound, rows
      <3> QED BY <2>2, <3>2, <3>3
    <2>6. \A s \in Resolvers : s # r /\ task[s].call = c => task[s].step \notin Working
      BY <2>1, NoRival DEF PersistGrant
    <2>7. grants \subseteq grants'
      BY <1>2
    <2> QED BY <2>1, <2>2, <2>3, <2>4, <2>5, <2>6, <2>7, Alone DEF NoTask, rows, history
  <1> QED BY <1>1, <1>2 DEF PersistGrant

\* Approved -> Executing.
LEMMA BeginStep ==
    ASSUME ApprovalInv, NEW r \in Resolvers, BeginExecution(r)
    PROVE  ApprovalInv'
  <1>0. TypeOK
    BY DEF ApprovalInv
  <1>1. CASE UNCHANGED rows /\ Return(r)
    BY <1>1, ReturnStep DEF BeginExecution
  <1>2. CASE /\ Transition(task[r].call, "Approved", "Executing", "none", FALSE)
             /\ Goto(r, "replay") \/ Return(r)
    <2>1. PICK c \in Calls : c = task[r].call
      BY <1>0 DEF TypeOK
    <2>2. Moved(c, "Approved", "Executing", "none", FALSE)
      BY <1>0, <1>2, <2>1, TransitionEffect
    <2>3. /\ UNCHANGED <<grants, turn, history>>
          /\ \A s \in Resolvers : s # r => task'[s] = task[s]
          /\ task' \in [Resolvers -> Task]
          /\ \/ task'[r] = NoTask
             \/ task'[r].call = c /\ task'[r].step = "replay"
      BY <1>0, <1>2, <2>1, NoTaskType DEF BeginExecution, Goto, Return, TypeOK
    <2>4. TypeOK'
      BY <1>0, <2>2, <2>3 DEF TypeOK, Moved, history
    <2>5. CallSound(c) /\ TaskSound(r) /\ task[r].step = "begin"
      BY DEF ApprovalInv, BeginExecution
    <2>6. CallSound(c)'
      BY <2>1, <2>2, <2>3, <2>5 DEF CallSound, TaskSound, Moved, history
    <2>7. TaskSound(r)'
      <3>1. CASE task'[r] = NoTask
        BY <3>1 DEF TaskSound, NoTask
      <3>2. CASE task'[r].call = c /\ task'[r].step = "replay"
        BY <2>1, <2>2, <2>3, <2>5, <3>2 DEF TaskSound, CallSound, Moved, history
      <3> QED BY <2>3, <3>1, <3>2
    <2>8. \A s \in Resolvers : s # r /\ task[s].call = c => task[s].step \notin Working
      BY <2>1, <2>5, NoRival
    <2> QED BY <2>1, <2>2, <2>3, <2>4, <2>6, <2>7, <2>8, Alone DEF NoTask, Moved, history
  <1> QED BY <1>1, <1>2 DEF BeginExecution, Attempt

\* The replay: what the resolver alone knows about its own request.
LEMMA ReplayStep ==
    ASSUME ApprovalInv, NEW r \in Resolvers,
           \/ ReplayRefused(r) \/ ReplayTool(r)
           \/ \E res \in ReplayResults : ToolReturns(r, res)
    PROVE  ApprovalInv'
  <1>0. TypeOK
    BY DEF ApprovalInv
  <1>1. PICK c \in Calls : c = task[r].call
    BY <1>0 DEF TypeOK
  <1>2. CallSound(c) /\ TaskSound(r) /\ task[r].step \in {"replay", "await"}
    BY DEF ApprovalInv, ReplayRefused, ReplayTool, ToolReturns
  <1>g. /\ UNCHANGED <<rows, grants, turn, direct>>
        /\ \E step \in {"await", "finish"} : Goto(r, step)
        /\ outcome' = outcome \/ \E res \in ReplayResults :
                                    outcome' = [outcome EXCEPT ![c] = res]
        /\ replays' = replays \/ replays' = [replays EXCEPT ![c] = @ + 1]
    BY <1>1 DEF ReplayRefused, ReplayTool, ToolReturns
  <1>3. /\ UNCHANGED <<rows, grants, turn, direct>>
        /\ \A s \in Resolvers : s # r => task'[s] = task[s]
        /\ task' \in [Resolvers -> Task]
        /\ task'[r].call = c
    BY <1>0, <1>1, <1>g DEF Goto, TypeOK
  <1>4. /\ replays' \in [Calls -> Nat] /\ outcome' \in [Calls -> ReplayResults \cup {"none"}]
        /\ \A d \in Calls : d # c => replays'[d] = replays[d] /\ outcome'[d] = outcome[d]
        /\ \/ /\ task[r].step = "replay" /\ task'[r].step = "finish"
              /\ replays'[c] = replays[c] /\ outcome'[c] = "error"
           \/ /\ task[r].step = "replay" /\ task'[r].step = "await"
              /\ replays'[c] = replays[c] + 1 /\ outcome'[c] = outcome[c]
           \/ /\ task[r].step = "await" /\ task'[r].step = "finish"
              /\ replays'[c] = replays[c] /\ outcome'[c] \in ReplayResults
    <2>1. CASE ReplayRefused(r)
      BY <1>0, <1>1, <2>1 DEF ReplayRefused, Goto, TypeOK
    <2>2. CASE ReplayTool(r)
      BY <1>0, <1>1, <2>2 DEF ReplayTool, Goto, TypeOK
    <2>3. ASSUME NEW res \in ReplayResults, ToolReturns(r, res)
          PROVE  /\ task[r].step = "await" /\ task'[r].step = "finish"
                 /\ outcome'[c] = res /\ replays' = replays
                 /\ \A d \in Calls : d # c => outcome'[d] = outcome[d]
                 /\ outcome' \in [Calls -> ReplayResults \cup {"none"}]
      BY <1>0, <1>1, <2>3 DEF ToolReturns, Goto, TypeOK
    <2> QED BY <1>0, <2>1, <2>2, <2>3 DEF TypeOK
  <1>5. TypeOK'
    BY <1>0, <1>3, <1>4 DEF TypeOK, rows
  <1>6. CallSound(c)'
    BY <1>1, <1>2, <1>3, <1>4 DEF CallSound, TaskSound, rows
  <1>7. TaskSound(r)'
    BY <1>1, <1>2, <1>3, <1>4 DEF CallSound, TaskSound, rows
  <1>8. \A s \in Resolvers : s # r /\ task[s].call = c => task[s].step \notin Working
    BY <1>1, <1>2, NoRival
  <1> QED BY <1>1, <1>3, <1>4, <1>5, <1>6, <1>7, <1>8, Alone DEF rows

\* Executing -> Executed.
LEMMA FinishStep ==
    ASSUME ApprovalInv, NEW r \in Resolvers, FinishExecution(r)
    PROVE  ApprovalInv'
  <1>0. TypeOK
    BY DEF ApprovalInv
  <1>1. CASE UNCHANGED rows
    BY <1>1, ReturnStep DEF FinishExecution
  <1>2. CASE Transition(task[r].call, "Executing", "Executed", "none",
                        outcome[task[r].call] = "error")
    <2>1. PICK c \in Calls : c = task[r].call
      BY <1>0 DEF TypeOK
    <2>e. PICK err \in BOOLEAN : err = (outcome[c] = "error")
      OBVIOUS
    <2>2. Moved(c, "Executing", "Executed", "none", err)
      <3>1. Transition(c, "Executing", "Executed", "none", err)
        BY <1>2, <2>1, <2>e
      <3> QED BY <1>0, <3>1, TransitionEffect
    <2>3. /\ UNCHANGED <<grants, turn, history>>
          /\ \A s \in Resolvers : s # r => task'[s] = task[s]
          /\ task' \in [Resolvers -> Task]
          /\ task'[r] = NoTask
      BY <1>0, NoTaskType DEF FinishExecution, Return, TypeOK
    <2>4. TypeOK'
      BY <1>0, <2>2, <2>3 DEF TypeOK, Moved, history
    <2>5. CallSound(c) /\ TaskSound(r) /\ task[r].step = "finish"
      BY DEF ApprovalInv, FinishExecution
    <2>6. ~lastError'[c] => outcome[c] \in Answered
      BY <2>1, <2>2, <2>5, <2>e DEF Moved, TaskSound
    <2>7. CallSound(c)'
      BY <2>1, <2>2, <2>3, <2>5, <2>6 DEF CallSound, TaskSound, Moved, history
    <2>8. TaskSound(r)'
      BY <2>3 DEF TaskSound, NoTask
    <2>9. \A s \in Resolvers : s # r /\ task[s].call = c => task[s].step \notin Working
      BY <2>1, <2>5, NoRival
    <2> QED BY <2>1, <2>2, <2>3, <2>4, <2>7, <2>8, <2>9, Alone DEF NoTask, Moved, history
  <1> QED BY <1>1, <1>2 DEF FinishExecution

-----------------------------------------------------------------------------
(* The theorems                                                            *)

\* ApprovalInv is preserved by every step.
LEMMA InvStep ==
    ASSUME ApprovalInv, [Next]_vars
    PROVE  ApprovalInv'
  <1>0. TypeOK
    BY DEF ApprovalInv
  <1>1. ASSUME NEW r \in Resolvers, DropResolver(r) PROVE ApprovalInv'
    BY <1>1, ReturnStep DEF DropResolver
  <1>2. CASE Crash
    <2>1. TypeOK'
      BY <1>0, <1>2, NoTaskType DEF Crash, TypeOK, rows, history
    <2>2. \A r \in Resolvers : task'[r].step = "idle"
      BY <1>2 DEF Crash, NoTask
    <2>3. \A c \in Calls : turn'[c] = "idle"
      BY <1>2 DEF Crash
    <2> QED BY <1>0, <1>2, <2>1, <2>2, <2>3, Quiet DEF Crash, history
  <1>3. CASE UNCHANGED vars
    <2>1. TypeOK'
      BY <1>0, <1>3 DEF TypeOK, vars
    <2> QED BY <1>0, <1>3, <2>1, Quiet DEF vars, rows
  <1> QED
    BY <1>1, <1>2, <1>3, TurnStep, DecideStep, GrantStep, BeginStep, ReplayStep, FinishStep
       DEF Next

\* ApprovalInv holds in every reachable state of the approval runtime.
THEOREM ApprovalInvariant == Spec => []ApprovalInv
  <1>1. Init => ApprovalInv
    <2> SUFFICES ASSUME Init PROVE ApprovalInv
      OBVIOUS
    <2>1. TypeOK
      BY NoTaskType DEF Init, TypeOK
    <2>2. \A c \in Calls : CallSound(c)
      BY DEF Init, CallSound
    <2>3. \A r \in Resolvers : TaskSound(r)
      BY DEF Init, TaskSound, NoTask
    <2>4. OneExecutor
      BY DEF Init, OneExecutor, NoTask
    <2> QED BY <2>1, <2>2, <2>3, <2>4 DEF ApprovalInv
  <1>2. ApprovalInv /\ [Next]_vars => ApprovalInv'
    BY InvStep
  <1> QED BY <1>1, <1>2, PTL DEF Spec

\* The rows, the grants and the resolvers keep their types.
THEOREM ApprovalsTypeCorrect == Spec => []TypeOK
  BY ApprovalInvariant, PTL DEF ApprovalInv

\* Two resolvers are never past the decision on the same request.
THEOREM ExecutorIsUnique == Spec => []OneExecutor
  BY ApprovalInvariant, PTL DEF ApprovalInv

\* An approved request without a signal was replayed once, its tool came back
\* with an outcome (not with an Err), and it has the grant it promised.
THEOREM CleanRequestsAreDone == Spec => []CleanMeansDone
  <1>1. ApprovalInv => CleanMeansDone
    <2> SUFFICES ASSUME ApprovalInv, NEW c \in Calls,
                        decision[c] \in {"ApproveOnce", "ApproveAlways"}, Signals(c) = {}
                 PROVE  /\ replays[c] = 1 /\ outcome[c] \in Answered
                        /\ decision[c] = "ApproveAlways" => Scope[c] \in grants
      BY DEF CleanMeansDone
    <2>1. CallSound(c) /\ status[c] \in ApprovalRequestStatus
      BY DEF ApprovalInv, TypeOK
    <2>2. ExecutionSignals(c) = {} /\ GrantSignals(c) = {}
      BY DEF Signals
    <2>3. status[c] = "Executed"
      BY <2>1, <2>2 DEF ExecutionSignals, CallSound
    <2>4. ~lastError[c]
      BY <2>2, <2>3 DEF ExecutionSignals
    <2> QED BY <2>1, <2>2, <2>3, <2>4 DEF CallSound, GrantSignals
  <1> QED BY <1>1, ApprovalInvariant, PTL

\* A step of the approval runtime is a step of ConsentGate or changes nothing
\* that ConsentGate speaks of.
LEMMA GateStep ==
    ASSUME ApprovalInv, [Next]_vars
    PROVE  [Gate!GateNext]_(Gate!gateVars)
  <1> USE DEF Gate!gateVars
  <1>0. TypeOK
    BY DEF ApprovalInv
  <1>t. \A r \in Resolvers : task[r].call \in Calls /\ task[r].dec \in ApprovalDecision
    BY <1>0 DEF TypeOK
  <1>1. ASSUME NEW c \in Calls, RunTool(c) PROVE Gate!RunGranted(c)
    <2>1. CallSound(c)
      BY DEF ApprovalInv
    <2> QED BY <1>1, <2>1 DEF RunTool, CallSound, Gate!RunGranted, rows
  <1>2. ASSUME NEW c \in Calls, LookupGrant(c) \/ EnsureRequest(c) \/ EndTurn(c)
        PROVE  UNCHANGED Gate!gateVars
    BY <1>2 DEF LookupGrant, EnsureRequest, EndTurn, rows, history
  <1>3. ASSUME NEW r \in Resolvers, DenyRequest(r)
        PROVE  Gate!Decide(task[r].call, "Deny") \/ UNCHANGED Gate!gateVars
    <2>1. CASE UNCHANGED rows
      BY <1>3, <2>1 DEF DenyRequest, rows, history
    <2>2. CASE Transition(task[r].call, "Pending", "Denied", "Deny", FALSE)
      <3>1. CallSound(task[r].call)
        BY <1>t DEF ApprovalInv
      <3> QED BY <1>3, <2>2, <3>1 DEF DenyRequest, Transition, CallSound, Gate!Decide, history
    <2> QED BY <1>3, <2>1, <2>2 DEF DenyRequest
  <1>4. ASSUME NEW r \in Resolvers, ApproveRequest(r)
        PROVE  Gate!Decide(task[r].call, task[r].dec) \/ UNCHANGED Gate!gateVars
    <2>1. CASE UNCHANGED rows
      BY <1>4, <2>1 DEF ApproveRequest, rows, history
    <2>2. CASE Transition(task[r].call, "Pending", "Approved", task[r].dec, FALSE)
      <3>1. CallSound(task[r].call) /\ task[r].dec # "none"
        BY <1>t DEF ApprovalInv
      <3> QED BY <1>4, <2>2, <3>1
              DEF ApproveRequest, Transition, CallSound, Gate!Decide, history
    <2> QED BY <1>4, <2>1, <2>2 DEF ApproveRequest, Attempt
  <1>5. ASSUME NEW r \in Resolvers, PersistGrant(r)
        PROVE  Gate!Grant(task[r].call) \/ UNCHANGED Gate!gateVars
    <2>1. TaskSound(r)
      BY DEF ApprovalInv
    <2> QED BY <1>5, <2>1 DEF PersistGrant, TaskSound, Gate!Grant, rows, history
  <1>6. ASSUME NEW r \in Resolvers, BeginExecution(r) \/ FinishExecution(r)
        PROVE  UNCHANGED Gate!gateVars
    <2>1. decision' = decision
      BY <1>0, <1>6 DEF BeginExecution, FinishExecution, Attempt, Transition, rows, TypeOK
    <2> QED BY <1>6, <2>1 DEF BeginExecution, FinishExecution, history
  <1>7. ASSUME NEW r \in Resolvers, ReplayTool(r) PROVE Gate!Replay(task[r].call)
    <2>1. /\ TaskSound(r) /\ CallSound(task[r].call)
          /\ decision[task[r].call] \in ApprovalDecision \cup {"open"}
      BY <1>t, <1>0 DEF ApprovalInv, TypeOK
    <2>2. replays[task[r].call] = 0 /\ replays' = [replays EXCEPT ![task[r].call] = 1]
      <3>1. replays[task[r].call] = 0 /\ replays[task[r].call] + 1 = 1
        BY <1>7, <2>1 DEF ReplayTool, TaskSound
      <3>2. replays' = [replays EXCEPT ![task[r].call] = replays[task[r].call] + 1]
        BY <1>7 DEF ReplayTool
      <3> QED BY <3>1, <3>2
    <2> QED BY <1>7, <2>1, <2>2 DEF ReplayTool, TaskSound, CallSound, Gate!Replay, rows
  <1>8. ASSUME NEW r \in Resolvers,
               \/ \E c \in Calls, dec \in ApprovalDecision : LoadRequest(r, c, dec)
               \/ ReplayRefused(r)
               \/ \E res \in ReplayResults : ToolReturns(r, res)
               \/ DropResolver(r)
        PROVE  UNCHANGED Gate!gateVars
    BY <1>8 DEF LoadRequest, ReplayRefused, ToolReturns, DropResolver, rows, history
  <1>9. ASSUME Crash \/ UNCHANGED vars PROVE UNCHANGED Gate!gateVars
    BY <1>9 DEF Crash, vars, rows, history
  <1>10. ASSUME NEW c \in Calls, NEW v \in ApprovalDecision, Gate!Decide(c, v)
         PROVE  Gate!GateNext
    BY <1>10 DEF Gate!GateNext, Gate!Verdicts
  <1>11. ASSUME NEW c \in Calls, Gate!Grant(c) \/ Gate!Replay(c) \/ Gate!RunGranted(c)
         PROVE  Gate!GateNext
    BY <1>11 DEF Gate!GateNext
  <1> HIDE DEF Gate!gateVars
  <1>12. CASE Next
    BY <1>12, <1>t, <1>1, <1>2, <1>3, <1>4, <1>5, <1>6, <1>7, <1>8, <1>9, <1>10, <1>11
       DEF Next
  <1> QED BY <1>9, <1>12

\* The approval runtime implements ConsentGate: one decision per request, at
\* most one replay and only with consent, grants only from an "always", and no
\* other run of a governed call without a grant of its scope.
THEOREM ConsentIsKept == Spec => KeepsConsent
  <1>1. Init => Gate!GateInit
    BY DEF Init, Gate!GateInit
  <1>2. ApprovalInv /\ [Next]_vars => [Gate!GateNext]_(Gate!gateVars)
    BY GateStep
  <1> QED BY <1>1, <1>2, ApprovalInvariant, PTL DEF Spec, KeepsConsent, Gate!GateSpec
=============================================================================
