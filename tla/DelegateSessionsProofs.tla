----------------------- MODULE DelegateSessionsProofs -----------------------
(***************************************************************************)
(* Safety of the delegate children, for any number of children and         *)
(* operators, any limit and any timeout.                                   *)
(***************************************************************************)
EXTENDS DelegateSessions, FiniteSetTheorems, TLAPS

-----------------------------------------------------------------------------
(* The inductive invariant, child by child and operator by operator        *)

\* A row that is not terminal has no outcome and no terminal event, there is
\* never a second terminal event, and each outcome goes with its state.
RowSound(c) ==
    /\ state[c] = "absent" => mode[c] = "none"
    /\ state[c] \notin TerminalStates =>
          outcome[c] = "none" /\ log[c] \cap TerminalEvents = {}
    /\ \A e, f \in log[c] \cap TerminalEvents : e = f
    /\ outcome[c] = "ok" <=> "delegate_completed" \in log[c]
    /\ outcome[c] = "ok" => state[c] = "Completed"
    /\ outcome[c] = "timeout" => state[c] = "TimedOut"
    /\ outcome[c] = "error" => state[c] = "Failed"
    /\ state[c] \in {"Completed", "TimedOut"} => outcome[c] # "none"
    /\ state[c] \in {"absent", "Ready"} => "delegate_started" \notin log[c]
    /\ "delegate_cancelled" \in log[c] => "delegate_started" \notin log[c]

\* What the place of a worker says about its row and its hooks.
WorkerSound(c) ==
    /\ worker[c] \in {"none", "create"} => state[c] = "absent"
    /\ worker[c] \in {"none", "queued"} => hook[c] = "none"
    /\ worker[c] \in {"spawn_failed", "spawn_recover", "spawn_mark", "gone"} =>
          hook[c] # "prepared"
    /\ worker[c] \in {"queued", "start"} => mode[c] = "async"
    /\ worker[c] = "turn" => "delegate_started" \in log[c]
    /\ worker[c] = "finalize" => result[c] \in TerminalStates

\* Nobody else writes the row of an inline child: until its worker finalizes
\* it the row is Running, and a worker that ends without an error has stored
\* its result.
InlineSound(c) ==
    /\ mode[c] = "inline" /\ worker[c] \in {"turn", "finalize"} => state[c] = "Running"
    /\ mode[c] = "inline" /\ worker[c] = "mark" => failed[c]
    /\ mode[c] = "inline" /\ worker[c] = "end" /\ ~failed[c] =>
          result[c] \in TerminalStates /\ state[c] = result[c]
    /\ reported[c] # "absent" => state[c] = reported[c]

ChildSound(c) == RowSound(c) /\ WorkerSound(c) /\ InlineSound(c)

\* Cancel and recover plans are about async children, and what a plan has seen
\* is a state its tool accepts.
PlanSound(o) ==
    LET p == plan[o] IN
    /\ p.tool # "none" => p.child \in Children
    /\ p.tool \in {"cancel", "recover"} =>
          p.from \in Active /\ mode[p.child] = "async"
    /\ p.tool = "archive" => p.from \in TerminalStates

DelegateInv ==
    /\ TypeOK
    /\ \A c \in Children : ChildSound(c)
    /\ \A o \in Operators : PlanSound(o)

-----------------------------------------------------------------------------
(* Type correctness                                                        *)

USE DEF Active, TerminalStates, States, Modes, Outcomes, TerminalEvents, EventKinds,
        WorkerSteps

\* Setting a flag of one child keeps the function of flags well typed.
LEMMA FlagSet ==
    ASSUME failed \in [Children -> BOOLEAN], NEW c \in Children
    PROVE  [failed EXCEPT ![c] = TRUE] \in [Children -> BOOLEAN]
  OBVIOUS

\* TypeOK is not inductive by itself: EventOf needs a result, and a write
\* needs a child.
LEMMA TypeStep ==
    ASSUME DelegateInv, [Next]_vars PROVE TypeOK'
  <1> USE TimeoutAssumption
  <1>0. TypeOK
    BY DEF DelegateInv
  <1> USE <1>0
  <1>p. ASSUME NEW o \in Operators, plan[o].tool # "none" PROVE plan[o].child \in Children
    BY <1>p DEF DelegateInv, PlanSound
  <1>1. ASSUME NEW c \in Children, PrepareInline(c) PROVE TypeOK'
    BY <1>1 DEF PrepareInline, TypeOK, rows, Goto
  <1>2. ASSUME NEW c \in Children, QueueAsync(c) PROVE TypeOK'
    BY <1>2 DEF QueueAsync, Insert, TypeOK, Goto
  <1>3. ASSUME NEW c \in Children, CreateInline(c) PROVE TypeOK'
    <2>f. failed' \in [Children -> BOOLEAN]
      <3>1. failed' = failed \/ failed' = [failed EXCEPT ![c] = TRUE]
        BY <1>3 DEF CreateInline
      <3>2. failed \in [Children -> BOOLEAN]
        BY DEF TypeOK
      <3> QED BY <3>1, <3>2, FlagSet
    <2>w. /\ worker' \in [Children -> WorkerSteps]
          /\ UNCHANGED <<result, reported, hook, plan>>
      BY <1>3 DEF CreateInline, TypeOK, Goto
    <2>1. CASE NoWrite
      BY <2>f, <2>w, <2>1 DEF NoWrite, rows, TypeOK
    <2>2. CASE Insert(c, "inline", "Running", "delegate_started")
      <3>1. /\ state' \in [Children -> States] /\ mode' \in [Children -> Modes]
            /\ age' \in [Children -> 0..(Timeout + 1)]
            /\ outcome' \in [Children -> Outcomes]
            /\ log' \in [Children -> SUBSET EventKinds]
        BY <2>2 DEF Insert, TypeOK
      <3> QED
        BY <3>1, <2>f, <2>w DEF TypeOK
    <2> QED
      BY <1>3, <2>1, <2>2 DEF CreateInline
  <1>4. ASSUME NEW c \in Children, PrepareAsync(c) PROVE TypeOK'
    BY <1>4 DEF PrepareAsync, TypeOK, rows, Goto
  <1>5. ASSUME NEW c \in Children, StartAsync(c) PROVE TypeOK'
    <2>f. failed' \in [Children -> BOOLEAN]
      <3>1. failed' = failed \/ failed' = [failed EXCEPT ![c] = TRUE]
        BY <1>5 DEF StartAsync
      <3>2. failed \in [Children -> BOOLEAN]
        BY DEF TypeOK
      <3> QED BY <3>1, <3>2, FlagSet
    <2>w. /\ worker' \in [Children -> WorkerSteps]
          /\ UNCHANGED <<result, reported, hook, plan>>
      BY <1>5 DEF StartAsync, SkippedStart, TypeOK, Goto
    <2>1. CASE NoWrite
      BY <2>f, <2>w, <2>1 DEF NoWrite, rows, TypeOK
    <2>2. CASE /\ WriteIfCurrent(c, "Ready", "Running", "delegate_started", "none")
               /\ age' = [age EXCEPT ![c] = 0]
      <3>1. /\ state' \in [Children -> States] /\ mode' \in [Children -> Modes]
            /\ age' \in [Children -> 0..(Timeout + 1)]
            /\ outcome' \in [Children -> Outcomes]
            /\ log' \in [Children -> SUBSET EventKinds]
        BY <2>2 DEF WriteIfCurrent, Put, TypeOK
      <3> QED
        BY <3>1, <2>f, <2>w DEF TypeOK
    <2> QED
      BY <1>5, <2>1, <2>2 DEF StartAsync
  <1>6. ASSUME NEW c \in Children, NEW res \in TerminalStates, EndTurn(c, res)
        PROVE TypeOK'
    BY <1>6 DEF EndTurn, TypeOK, rows, Goto
  <1>7. ASSUME NEW c \in Children, AbandonTurn(c) PROVE TypeOK'
    BY <1>7 DEF AbandonTurn, TypeOK, rows, Goto
  <1>8. ASSUME NEW c \in Children, Finalize(c) PROVE TypeOK'
    <2>1. result[c] \in TerminalStates
      BY <1>8 DEF Finalize, DelegateInv, ChildSound, WorkerSound
    <2>2. EventOf(result[c]) \in EventKinds /\ OutcomeOf(result[c]) \in Outcomes
      BY <2>1 DEF EventOf, OutcomeOf
    <2> QED
      BY <1>8, <2>1, <2>2
         DEF Finalize, Attempt, WriteIfCurrent, Put, NoWrite, rows, Goto, TypeOK
  <1>9. ASSUME NEW c \in Children, RecoverFinalize(c) PROVE TypeOK'
    BY <1>9
       DEF RecoverFinalize, Attempt, WriteIfCurrent, Put, NoWrite, rows, Goto,
           TypeOK
  <1>10. ASSUME NEW c \in Children, MarkFailed(c) PROVE TypeOK'
    BY <1>10 DEF MarkFailed, Attempt, WriteIfCurrent, Put, NoWrite, rows, Goto, TypeOK
  <1>11. ASSUME NEW c \in Children, EndHook(c) PROVE TypeOK'
    BY <1>11 DEF EndHook, TypeOK, rows, Goto
  <1>12. ASSUME NEW c \in Children, SpawnFailed(c) PROVE TypeOK'
    BY <1>12 DEF SpawnFailed, Attempt, WriteIfCurrent, Put, NoWrite, rows, Goto, TypeOK
  <1>13. ASSUME NEW c \in Children, SpawnRecover(c) PROVE TypeOK'
    BY <1>13 DEF SpawnRecover, Attempt, WriteIfCurrent, Put, NoWrite, rows, Goto, TypeOK
  <1>14. ASSUME NEW c \in Children, SpawnMark(c) PROVE TypeOK'
    BY <1>14 DEF SpawnMark, Attempt, WriteIfCurrent, Put, NoWrite, rows, Goto, TypeOK
  <1>15. ASSUME NEW c \in Children, DropInline(c) PROVE TypeOK'
    BY <1>15 DEF DropInline, TypeOK, rows, Goto
  <1>16. ASSUME NEW o \in Operators, NEW c \in Children,
                NEW tool \in {"cancel", "recover", "archive"}, Inspect(o, c, tool)
         PROVE TypeOK'
    BY <1>16 DEF Inspect, TypeOK, rows, Plan
  <1>17. ASSUME NEW o \in Operators, ApplyCancel(o) PROVE TypeOK'
    <2>1. plan[o].child \in Children
      BY <1>17, <1>p DEF ApplyCancel
    <2>2. plan' \in [Operators -> Plan]
      BY <1>17 DEF ApplyCancel, TypeOK, Plan, NoPlan
    <2> QED
      BY <1>17, <2>1, <2>2 DEF ApplyCancel, WriteIfCurrent, Put, TypeOK
  <1>18. ASSUME NEW o \in Operators, ApplyRecover(o) PROVE TypeOK'
    BY <1>18, <1>p DEF ApplyRecover, WriteIfCurrent, Put, TypeOK, Plan, NoPlan
  <1>19. ASSUME NEW o \in Operators, ApplyArchive(o) PROVE TypeOK'
    BY <1>19, <1>p DEF ApplyArchive, WriteIfCurrent, Put, TypeOK, Plan, NoPlan
  <1>20. ASSUME NEW o \in Operators, ApplyFails(o) PROVE TypeOK'
    BY <1>20 DEF ApplyFails, TypeOK, rows, Plan, NoPlan
  <1>21. CASE Tick
    BY <1>21 DEF Tick, TypeOK
  <1>22. CASE Crash
    BY <1>22 DEF Crash, TypeOK, rows, Plan, NoPlan
  <1>23. CASE UNCHANGED vars
    BY <1>23 DEF vars, TypeOK
  <1> QED
    BY <1>1, <1>2, <1>3, <1>4, <1>5, <1>6, <1>7, <1>8, <1>9, <1>10, <1>11, <1>12,
       <1>13, <1>14, <1>15, <1>16, <1>17, <1>18, <1>19, <1>20, <1>21, <1>22, <1>23
       DEF Next, WorkerStep, ToolStep, ApplyStep

-----------------------------------------------------------------------------
(* One step, seen from one child                                           *)

\* The step does not touch child d (time may pass).
Same(d) ==
    /\ state'[d] = state[d] /\ mode'[d] = mode[d] /\ outcome'[d] = outcome[d]
    /\ log'[d] = log[d] /\ worker'[d] = worker[d] /\ result'[d] = result[d]
    /\ failed'[d] = failed[d] /\ reported'[d] = reported[d] /\ hook'[d] = hook[d]

\* The step keeps child d sound, a terminal row final and an async child async.
Good(d) ==
    /\ ChildSound(d)'
    /\ state[d] \in TerminalStates =>
          state'[d] = state[d] /\ outcome'[d] = outcome[d]
    /\ mode[d] = "async" => mode'[d] = "async"

\* Every step is good for every child.
LEMMA ChildStep ==
    ASSUME DelegateInv, [Next]_vars PROVE \A d \in Children : Good(d)
  <1>0. TypeOK
    BY DEF DelegateInv
  <1> USE <1>0
  <1>c. ASSUME NEW d \in Children PROVE RowSound(d) /\ WorkerSound(d) /\ InlineSound(d)
    BY DEF DelegateInv, ChildSound
  <1>s. ASSUME NEW d \in Children, Same(d) PROVE Good(d)
    BY <1>c, <1>s DEF Same, Good, ChildSound, RowSound, WorkerSound, InlineSound
  <1>1. ASSUME NEW c \in Children, PrepareInline(c) PROVE \A d \in Children : Good(d)
    <2>1. ASSUME NEW d \in Children, d # c PROVE Same(d)
      BY <1>1, <2>1 DEF PrepareInline, rows, Goto, Same, TypeOK
    <2>2. RowSound(c)'
      BY <1>1, <1>c
         DEF PrepareInline, rows, Goto, TypeOK, RowSound, WorkerSound, InlineSound
    <2>3. WorkerSound(c)'
      BY <1>1, <1>c DEF PrepareInline, rows, Goto, TypeOK, RowSound, WorkerSound
    <2>4. InlineSound(c)'
      BY <1>1, <1>c
         DEF PrepareInline, rows, Goto, TypeOK, RowSound, WorkerSound, InlineSound
    <2>5. Good(c)
      BY <1>1, <1>c, <2>2, <2>3, <2>4
         DEF PrepareInline, rows, Goto, TypeOK, Good, ChildSound, RowSound,
             WorkerSound
    <2> QED
      BY <2>1, <2>5, <1>s
  <1>2. ASSUME NEW c \in Children, QueueAsync(c) PROVE \A d \in Children : Good(d)
    <2>1. ASSUME NEW d \in Children, d # c PROVE Same(d)
      BY <1>2, <2>1 DEF QueueAsync, Insert, Goto, Same, TypeOK
    <2>2. RowSound(c)'
      BY <1>2, <1>c
         DEF QueueAsync, Insert, Goto, TypeOK, RowSound, WorkerSound, InlineSound
    <2>3. WorkerSound(c)'
      BY <1>2, <1>c DEF QueueAsync, Insert, Goto, TypeOK, RowSound, WorkerSound
    <2>4. InlineSound(c)'
      BY <1>2, <1>c
         DEF QueueAsync, Insert, Goto, TypeOK, RowSound, WorkerSound, InlineSound
    <2>5. Good(c)
      BY <1>2, <1>c, <2>2, <2>3, <2>4
         DEF QueueAsync, Insert, Goto, TypeOK, Good, ChildSound, RowSound,
             WorkerSound
    <2> QED
      BY <2>1, <2>5, <1>s
  <1>3. ASSUME NEW c \in Children, CreateInline(c) PROVE \A d \in Children : Good(d)
    <2>1. ASSUME NEW d \in Children, d # c PROVE Same(d)
      BY <1>3, <2>1 DEF CreateInline, Insert, NoWrite, rows, Goto, Same, TypeOK
    <2>2. RowSound(c)'
      BY <1>3, <1>c
         DEF CreateInline, Insert, NoWrite, rows, Goto, TypeOK, RowSound,
             WorkerSound, InlineSound
    <2>3. WorkerSound(c)'
      BY <1>3, <1>c
         DEF CreateInline, Insert, NoWrite, rows, Goto, TypeOK, RowSound,
             WorkerSound
    <2>4. InlineSound(c)'
      BY <1>3, <1>c
         DEF CreateInline, Insert, NoWrite, rows, Goto, TypeOK, RowSound,
             WorkerSound, InlineSound
    <2>5. Good(c)
      BY <1>3, <1>c, <2>2, <2>3, <2>4
         DEF CreateInline, Insert, NoWrite, rows, Goto, TypeOK, Good, ChildSound,
             RowSound, WorkerSound
    <2> QED
      BY <2>1, <2>5, <1>s
  <1>4. ASSUME NEW c \in Children, PrepareAsync(c) PROVE \A d \in Children : Good(d)
    <2>1. ASSUME NEW d \in Children, d # c PROVE Same(d)
      BY <1>4, <2>1 DEF PrepareAsync, rows, Goto, Same, TypeOK
    <2>2. RowSound(c)'
      BY <1>4, <1>c
         DEF PrepareAsync, rows, Goto, TypeOK, RowSound, WorkerSound, InlineSound
    <2>3. WorkerSound(c)'
      BY <1>4, <1>c DEF PrepareAsync, rows, Goto, TypeOK, RowSound, WorkerSound
    <2>4. InlineSound(c)'
      BY <1>4, <1>c
         DEF PrepareAsync, rows, Goto, TypeOK, RowSound, WorkerSound, InlineSound
    <2>5. Good(c)
      BY <1>4, <1>c, <2>2, <2>3, <2>4
         DEF PrepareAsync, rows, Goto, TypeOK, Good, ChildSound, RowSound,
             WorkerSound
    <2> QED
      BY <2>1, <2>5, <1>s
  <1>5. ASSUME NEW c \in Children, StartAsync(c) PROVE \A d \in Children : Good(d)
    <2>1. ASSUME NEW d \in Children, d # c PROVE Same(d)
      BY <1>5, <2>1
         DEF StartAsync, WriteIfCurrent, Put, NoWrite, rows, SkippedStart, Goto,
             Same, TypeOK
    <2>2. RowSound(c)'
      BY <1>5, <1>c
         DEF StartAsync, WriteIfCurrent, Put, NoWrite, rows, SkippedStart, Goto,
             TypeOK, RowSound, WorkerSound, InlineSound
    <2>3. WorkerSound(c)'
      BY <1>5, <1>c
         DEF StartAsync, WriteIfCurrent, Put, NoWrite, rows, SkippedStart, Goto,
             TypeOK, RowSound, WorkerSound
    <2>4. InlineSound(c)'
      BY <1>5, <1>c
         DEF StartAsync, WriteIfCurrent, Put, NoWrite, rows, SkippedStart, Goto,
             TypeOK, RowSound, WorkerSound, InlineSound
    <2>5. Good(c)
      BY <1>5, <1>c, <2>2, <2>3, <2>4
         DEF StartAsync, WriteIfCurrent, Put, NoWrite, rows, SkippedStart, Goto,
             TypeOK, Good, ChildSound, RowSound, WorkerSound
    <2> QED
      BY <2>1, <2>5, <1>s
  <1>6. ASSUME NEW c \in Children, NEW res \in TerminalStates, EndTurn(c, res)
        PROVE \A d \in Children : Good(d)
    <2>1. ASSUME NEW d \in Children, d # c PROVE Same(d)
      BY <1>6, <2>1 DEF EndTurn, rows, Goto, Same, TypeOK
    <2>2. RowSound(c)'
      BY <1>6, <1>c DEF EndTurn, rows, Goto, TypeOK, RowSound, WorkerSound, InlineSound
    <2>3. WorkerSound(c)'
      BY <1>6, <1>c DEF EndTurn, rows, Goto, TypeOK, RowSound, WorkerSound
    <2>4. InlineSound(c)'
      BY <1>6, <1>c DEF EndTurn, rows, Goto, TypeOK, RowSound, WorkerSound, InlineSound
    <2>5. Good(c)
      BY <1>6, <1>c, <2>2, <2>3, <2>4
         DEF EndTurn, rows, Goto, TypeOK, Good, ChildSound, RowSound, WorkerSound
    <2> QED
      BY <2>1, <2>5, <1>s
  <1>7. ASSUME NEW c \in Children, AbandonTurn(c) PROVE \A d \in Children : Good(d)
    <2>1. ASSUME NEW d \in Children, d # c PROVE Same(d)
      BY <1>7, <2>1 DEF AbandonTurn, rows, Goto, Same, TypeOK
    <2>2. RowSound(c)'
      BY <1>7, <1>c
         DEF AbandonTurn, rows, Goto, TypeOK, RowSound, WorkerSound, InlineSound
    <2>3. WorkerSound(c)'
      BY <1>7, <1>c DEF AbandonTurn, rows, Goto, TypeOK, RowSound, WorkerSound
    <2>4. InlineSound(c)'
      <3>1. worker'[c] = "end" /\ mode'[c] = mode[c] /\ state'[c] = state[c]
              /\ reported'[c] = reported[c]
        BY <1>7 DEF AbandonTurn, rows, Goto, TypeOK
      <3>2. mode[c] = "inline" => failed'[c]
        BY <1>7 DEF AbandonTurn, TypeOK
      <3> QED BY <3>1, <3>2, <1>c DEF InlineSound
    <2>5. Good(c)
      BY <1>7, <1>c, <2>2, <2>3, <2>4
         DEF AbandonTurn, rows, Goto, TypeOK, Good, ChildSound, RowSound,
             WorkerSound
    <2> QED
      BY <2>1, <2>5, <1>s
  <1>8. ASSUME NEW c \in Children, Finalize(c) PROVE \A d \in Children : Good(d)
    <2>1. ASSUME NEW d \in Children, d # c PROVE Same(d)
      BY <1>8, <2>1
         DEF Finalize, EventOf, OutcomeOf, Attempt, WriteIfCurrent, Put, NoWrite,
             rows, Goto, Same, TypeOK
    <2>2. RowSound(c)'
      BY <1>8, <1>c
         DEF Finalize, EventOf, OutcomeOf, Attempt, WriteIfCurrent, Put, NoWrite,
             rows, Goto, TypeOK, RowSound, WorkerSound, InlineSound
    <2>3. WorkerSound(c)'
      BY <1>8, <1>c
         DEF Finalize, EventOf, OutcomeOf, Attempt, WriteIfCurrent, Put, NoWrite,
             rows, Goto, TypeOK, RowSound, WorkerSound
    <2>4. InlineSound(c)'
      BY <1>8, <1>c
         DEF Finalize, EventOf, OutcomeOf, Attempt, WriteIfCurrent, Put, NoWrite,
             rows, Goto, TypeOK, RowSound, WorkerSound, InlineSound
    <2>5. Good(c)
      BY <1>8, <1>c, <2>2, <2>3, <2>4
         DEF Finalize, EventOf, OutcomeOf, Attempt, WriteIfCurrent, Put, NoWrite,
             rows, Goto, TypeOK, Good, ChildSound, RowSound, WorkerSound
    <2> QED
      BY <2>1, <2>5, <1>s
  <1>9. ASSUME NEW c \in Children, RecoverFinalize(c) PROVE \A d \in Children : Good(d)
    <2>1. ASSUME NEW d \in Children, d # c PROVE Same(d)
      BY <1>9, <2>1
         DEF RecoverFinalize, Attempt, WriteIfCurrent, Put, NoWrite, rows, Goto,
             Same, TypeOK
    <2>2. RowSound(c)'
      BY <1>9, <1>c
         DEF RecoverFinalize, Attempt, WriteIfCurrent, Put, NoWrite, rows, Goto,
             TypeOK, RowSound, WorkerSound, InlineSound
    <2>3. WorkerSound(c)'
      BY <1>9, <1>c
         DEF RecoverFinalize, Attempt, WriteIfCurrent, Put, NoWrite, rows, Goto,
             TypeOK, RowSound, WorkerSound
    <2>4. InlineSound(c)'
      <3>1. mode[c] = "inline" => failed'[c]
        BY <1>9 DEF RecoverFinalize, TypeOK
      <3>2. /\ mode'[c] = mode[c] /\ worker'[c] \in {"mark", "end"}
            /\ reported'[c] = reported[c]
            /\ state[c] # "Running" => state'[c] = state[c]
        BY <1>9
           DEF RecoverFinalize, Attempt, WriteIfCurrent, Put, NoWrite, rows, Goto,
               TypeOK
      <3>3. reported[c] # "absent" => state[c] # "Running"
        BY <1>c DEF InlineSound, TypeOK
      <3> QED
        BY <1>c, <3>1, <3>2, <3>3 DEF InlineSound
    <2>5. Good(c)
      BY <1>9, <1>c, <2>2, <2>3, <2>4
         DEF RecoverFinalize, Attempt, WriteIfCurrent, Put, NoWrite, rows, Goto,
             TypeOK, Good, ChildSound, RowSound, WorkerSound
    <2> QED
      BY <2>1, <2>5, <1>s
  <1>10. ASSUME NEW c \in Children, MarkFailed(c) PROVE \A d \in Children : Good(d)
    <2>1. ASSUME NEW d \in Children, d # c PROVE Same(d)
      BY <1>10, <2>1
         DEF MarkFailed, Attempt, WriteIfCurrent, Put, NoWrite, rows, Goto, Same,
             TypeOK
    <2>2. RowSound(c)'
      BY <1>10, <1>c
         DEF MarkFailed, Attempt, WriteIfCurrent, Put, NoWrite, rows, Goto, TypeOK,
             RowSound, WorkerSound, InlineSound
    <2>3. WorkerSound(c)'
      BY <1>10, <1>c
         DEF MarkFailed, Attempt, WriteIfCurrent, Put, NoWrite, rows, Goto, TypeOK,
             RowSound, WorkerSound
    <2>4. InlineSound(c)'
      BY <1>10, <1>c
         DEF MarkFailed, Attempt, WriteIfCurrent, Put, NoWrite, rows, Goto, TypeOK,
             RowSound, WorkerSound, InlineSound
    <2>5. Good(c)
      BY <1>10, <1>c, <2>2, <2>3, <2>4
         DEF MarkFailed, Attempt, WriteIfCurrent, Put, NoWrite, rows, Goto, TypeOK,
             Good, ChildSound, RowSound, WorkerSound
    <2> QED
      BY <2>1, <2>5, <1>s
  <1>11. ASSUME NEW c \in Children, EndHook(c) PROVE \A d \in Children : Good(d)
    <2>1. ASSUME NEW d \in Children, d # c PROVE Same(d)
      BY <1>11, <2>1 DEF EndHook, rows, Goto, Same, TypeOK
    <2>2. RowSound(c)'
      BY <1>11, <1>c DEF EndHook, rows, Goto, TypeOK, RowSound, WorkerSound, InlineSound
    <2>3. WorkerSound(c)'
      BY <1>11, <1>c DEF EndHook, rows, Goto, TypeOK, RowSound, WorkerSound
    <2>4. InlineSound(c)'
      BY <1>11, <1>c DEF EndHook, rows, Goto, TypeOK, RowSound, WorkerSound, InlineSound
    <2>5. Good(c)
      BY <1>11, <1>c, <2>2, <2>3, <2>4
         DEF EndHook, rows, Goto, TypeOK, Good, ChildSound, RowSound, WorkerSound
    <2> QED
      BY <2>1, <2>5, <1>s
  <1>12. ASSUME NEW c \in Children, SpawnFailed(c) PROVE \A d \in Children : Good(d)
    <2>1. ASSUME NEW d \in Children, d # c PROVE Same(d)
      BY <1>12, <2>1
         DEF SpawnFailed, Attempt, WriteIfCurrent, Put, NoWrite, rows, Goto, Same,
             TypeOK
    <2>2. RowSound(c)'
      BY <1>12, <1>c
         DEF SpawnFailed, Attempt, WriteIfCurrent, Put, NoWrite, rows, Goto,
             TypeOK, RowSound, WorkerSound, InlineSound
    <2>3. WorkerSound(c)'
      BY <1>12, <1>c
         DEF SpawnFailed, Attempt, WriteIfCurrent, Put, NoWrite, rows, Goto,
             TypeOK, RowSound, WorkerSound
    <2>4. InlineSound(c)'
      BY <1>12, <1>c
         DEF SpawnFailed, Attempt, WriteIfCurrent, Put, NoWrite, rows, Goto,
             TypeOK, RowSound, WorkerSound, InlineSound
    <2>5. Good(c)
      BY <1>12, <1>c, <2>2, <2>3, <2>4
         DEF SpawnFailed, Attempt, WriteIfCurrent, Put, NoWrite, rows, Goto,
             TypeOK, Good, ChildSound, RowSound, WorkerSound
    <2> QED
      BY <2>1, <2>5, <1>s
  <1>13. ASSUME NEW c \in Children, SpawnRecover(c) PROVE \A d \in Children : Good(d)
    <2>1. ASSUME NEW d \in Children, d # c PROVE Same(d)
      BY <1>13, <2>1
         DEF SpawnRecover, Attempt, WriteIfCurrent, Put, NoWrite, rows, Goto, Same,
             TypeOK
    <2>2. RowSound(c)'
      BY <1>13, <1>c
         DEF SpawnRecover, Attempt, WriteIfCurrent, Put, NoWrite, rows, Goto,
             TypeOK, RowSound, WorkerSound, InlineSound
    <2>3. WorkerSound(c)'
      BY <1>13, <1>c
         DEF SpawnRecover, Attempt, WriteIfCurrent, Put, NoWrite, rows, Goto,
             TypeOK, RowSound, WorkerSound
    <2>4. InlineSound(c)'
      BY <1>13, <1>c
         DEF SpawnRecover, Attempt, WriteIfCurrent, Put, NoWrite, rows, Goto,
             TypeOK, RowSound, WorkerSound, InlineSound
    <2>5. Good(c)
      BY <1>13, <1>c, <2>2, <2>3, <2>4
         DEF SpawnRecover, Attempt, WriteIfCurrent, Put, NoWrite, rows, Goto,
             TypeOK, Good, ChildSound, RowSound, WorkerSound
    <2> QED
      BY <2>1, <2>5, <1>s
  <1>14. ASSUME NEW c \in Children, SpawnMark(c) PROVE \A d \in Children : Good(d)
    <2>1. ASSUME NEW d \in Children, d # c PROVE Same(d)
      BY <1>14, <2>1
         DEF SpawnMark, Attempt, WriteIfCurrent, Put, NoWrite, rows, Goto, Same,
             TypeOK
    <2>2. RowSound(c)'
      BY <1>14, <1>c
         DEF SpawnMark, Attempt, WriteIfCurrent, Put, NoWrite, rows, Goto, TypeOK,
             RowSound, WorkerSound, InlineSound
    <2>3. WorkerSound(c)'
      BY <1>14, <1>c
         DEF SpawnMark, Attempt, WriteIfCurrent, Put, NoWrite, rows, Goto, TypeOK,
             RowSound, WorkerSound
    <2>4. InlineSound(c)'
      BY <1>14, <1>c
         DEF SpawnMark, Attempt, WriteIfCurrent, Put, NoWrite, rows, Goto, TypeOK,
             RowSound, WorkerSound, InlineSound
    <2>5. Good(c)
      BY <1>14, <1>c, <2>2, <2>3, <2>4
         DEF SpawnMark, Attempt, WriteIfCurrent, Put, NoWrite, rows, Goto, TypeOK,
             Good, ChildSound, RowSound, WorkerSound
    <2> QED
      BY <2>1, <2>5, <1>s
  <1>15. ASSUME NEW c \in Children, DropInline(c) PROVE \A d \in Children : Good(d)
    <2>1. ASSUME NEW d \in Children, d # c PROVE Same(d)
      BY <1>15, <2>1 DEF DropInline, rows, Goto, Same, TypeOK
    <2>2. RowSound(c)'
      BY <1>15, <1>c
         DEF DropInline, rows, Goto, TypeOK, RowSound, WorkerSound, InlineSound
    <2>3. WorkerSound(c)'
      BY <1>15, <1>c DEF DropInline, rows, Goto, TypeOK, RowSound, WorkerSound
    <2>4. InlineSound(c)'
      BY <1>15, <1>c
         DEF DropInline, rows, Goto, TypeOK, RowSound, WorkerSound, InlineSound
    <2>5. Good(c)
      BY <1>15, <1>c, <2>2, <2>3, <2>4
         DEF DropInline, rows, Goto, TypeOK, Good, ChildSound, RowSound,
             WorkerSound
    <2> QED
      BY <2>1, <2>5, <1>s
  <1>16. ASSUME NEW o \in Operators, ApplyCancel(o) PROVE \A d \in Children : Good(d)
    <2>p. plan[o].child \in Children /\ PlanSound(o)
      BY <1>16 DEF ApplyCancel, DelegateInv, PlanSound
    <2> PICK c \in Children : c = plan[o].child
      BY <2>p
    <2>1. ASSUME NEW d \in Children, d # c PROVE Same(d)
      BY <1>16, <2>1 DEF ApplyCancel, WriteIfCurrent, Put, Same, TypeOK
    <2>2. RowSound(c)'
      BY <1>16, <1>c, <2>p
         DEF ApplyCancel, WriteIfCurrent, Put, TypeOK, RowSound, PlanSound
    <2>3. WorkerSound(c)'
      BY <1>16, <1>c, <2>p
         DEF ApplyCancel, WriteIfCurrent, Put, TypeOK, RowSound, WorkerSound,
             PlanSound
    <2>4. InlineSound(c)'
      BY <1>16, <1>c, <2>p
         DEF ApplyCancel, WriteIfCurrent, Put, TypeOK, InlineSound, PlanSound
    <2>5. Good(c)
      BY <1>16, <2>p, <2>2, <2>3, <2>4
         DEF ApplyCancel, WriteIfCurrent, Put, TypeOK, Good, ChildSound, PlanSound
    <2> QED
      BY <2>1, <2>5, <2>p, <1>s
  <1>17. ASSUME NEW o \in Operators, ApplyRecover(o) PROVE \A d \in Children : Good(d)
    <2>p. plan[o].child \in Children /\ PlanSound(o)
      BY <1>17 DEF ApplyRecover, DelegateInv, PlanSound
    <2> PICK c \in Children : c = plan[o].child
      BY <2>p
    <2>1. ASSUME NEW d \in Children, d # c PROVE Same(d)
      BY <1>17, <2>1 DEF ApplyRecover, WriteIfCurrent, Put, Same, TypeOK
    <2>2. RowSound(c)'
      BY <1>17, <1>c, <2>p
         DEF ApplyRecover, WriteIfCurrent, Put, TypeOK, RowSound, PlanSound
    <2>3. WorkerSound(c)'
      BY <1>17, <1>c, <2>p
         DEF ApplyRecover, WriteIfCurrent, Put, TypeOK, RowSound, WorkerSound,
             PlanSound
    <2>4. InlineSound(c)'
      BY <1>17, <1>c, <2>p
         DEF ApplyRecover, WriteIfCurrent, Put, TypeOK, InlineSound, PlanSound
    <2>5. Good(c)
      BY <1>17, <2>p, <2>2, <2>3, <2>4
         DEF ApplyRecover, WriteIfCurrent, Put, TypeOK, Good, ChildSound, PlanSound
    <2> QED
      BY <2>1, <2>5, <2>p, <1>s
  <1>18. ASSUME NEW o \in Operators, ApplyArchive(o) PROVE \A d \in Children : Good(d)
    <2>p. plan[o].child \in Children /\ PlanSound(o)
      BY <1>18 DEF ApplyArchive, DelegateInv, PlanSound
    <2> PICK c \in Children : c = plan[o].child
      BY <2>p
    <2>1. ASSUME NEW d \in Children, d # c PROVE Same(d)
      BY <1>18, <2>1 DEF ApplyArchive, WriteIfCurrent, Put, Same, TypeOK
    <2>2. RowSound(c)'
      BY <1>18, <1>c, <2>p
         DEF ApplyArchive, WriteIfCurrent, Put, TypeOK, RowSound, PlanSound
    <2>3. WorkerSound(c)'
      BY <1>18, <1>c, <2>p
         DEF ApplyArchive, WriteIfCurrent, Put, TypeOK, RowSound, WorkerSound,
             PlanSound
    <2>4. InlineSound(c)'
      BY <1>18, <1>c, <2>p
         DEF ApplyArchive, WriteIfCurrent, Put, TypeOK, InlineSound, PlanSound
    <2>5. Good(c)
      BY <1>18, <2>p, <2>2, <2>3, <2>4
         DEF ApplyArchive, WriteIfCurrent, Put, TypeOK, Good, ChildSound, PlanSound
    <2> QED
      BY <2>1, <2>5, <2>p, <1>s
  <1>19. ASSUME NEW o \in Operators, ApplyFails(o) PROVE \A d \in Children : Good(d)
    BY <1>19, <1>s DEF ApplyFails, rows, Same
  <1>20. ASSUME NEW o \in Operators, NEW c \in Children,
                NEW tool \in {"cancel", "recover", "archive"}, Inspect(o, c, tool)
         PROVE \A d \in Children : Good(d)
    BY <1>20, <1>s DEF Inspect, rows, Same
  <1>21. CASE Tick
    BY <1>21, <1>s DEF Tick, Same
  <1>22. CASE Crash
    <2> SUFFICES ASSUME NEW d \in Children PROVE Good(d)
      OBVIOUS
    <2>1. RowSound(d)' /\ WorkerSound(d)' /\ InlineSound(d)'
      BY <1>22, <1>c DEF Crash, rows, Gone, TypeOK, RowSound, WorkerSound, InlineSound
    <2> QED
      BY <1>22, <2>1 DEF Crash, rows, Good, ChildSound
  <1>23. CASE UNCHANGED vars
    BY <1>23, <1>s DEF vars, Same
  <1> QED
    BY <1>1, <1>2, <1>3, <1>4, <1>5, <1>6, <1>7, <1>8, <1>9, <1>10, <1>11, <1>12,
       <1>13, <1>14, <1>15, <1>16, <1>17, <1>18, <1>19, <1>20, <1>21, <1>22, <1>23
       DEF Next, WorkerStep, ToolStep, ApplyStep

\* Plans stay sound: the child of a plan keeps its mode.
LEMMA PlanStep ==
    ASSUME DelegateInv, [Next]_vars PROVE \A o \in Operators : PlanSound(o)'
  <1> SUFFICES ASSUME NEW o \in Operators PROVE PlanSound(o)'
    OBVIOUS
  <1>0. TypeOK /\ PlanSound(o) /\ \A d \in Children : mode[d] = "async" => mode'[d] = "async"
    BY ChildStep DEF DelegateInv, Good
  <1>1. CASE plan'[o] = plan[o]
    BY <1>0, <1>1 DEF PlanSound
  <1>2. CASE plan'[o] = NoPlan
    BY <1>2 DEF PlanSound, NoPlan
  <1>3. ASSUME NEW c \in Children, NEW tool \in {"cancel", "recover", "archive"},
               Inspect(o, c, tool)
        PROVE PlanSound(o)'
    BY <1>0, <1>3
       DEF Inspect, Cancellable, Recoverable, Archivable, PlanSound, TypeOK, rows
  <1>4. \/ plan'[o] = plan[o] \/ plan'[o] = NoPlan
        \/ \E c \in Children, tool \in {"cancel", "recover", "archive"} : Inspect(o, c, tool)
    <2>1. ASSUME NEW c \in Children,
                 PrepareInline(c) \/ QueueAsync(c) \/ WorkerStep(c) \/ DropInline(c)
          PROVE plan' = plan
      BY <2>1 DEF PrepareInline, QueueAsync, WorkerStep, DropInline, CreateInline,
                  PrepareAsync, StartAsync, EndTurn, AbandonTurn, Finalize,
                  RecoverFinalize, MarkFailed, EndHook, SpawnFailed, SpawnRecover,
                  SpawnMark
    <2>2. ASSUME NEW u \in Operators, ApplyStep(u)
          PROVE plan'[o] \in {plan[o], NoPlan}
      BY <2>2, <1>0
         DEF ApplyStep, ApplyCancel, ApplyRecover, ApplyArchive, ApplyFails, TypeOK
    <2>3. ASSUME NEW u \in Operators, NEW c \in Children,
                 NEW tool \in {"cancel", "recover", "archive"}, Inspect(u, c, tool), u # o
          PROVE plan'[o] = plan[o]
      BY <2>3, <1>0 DEF Inspect, TypeOK
    <2>4. Tick \/ UNCHANGED vars => plan' = plan
      BY DEF Tick, vars
    <2>5. Crash => plan'[o] = NoPlan
      BY DEF Crash
    <2> QED
      BY <2>1, <2>2, <2>3, <2>4, <2>5 DEF Next, ToolStep
  <1> QED
    BY <1>1, <1>2, <1>3, <1>4

-----------------------------------------------------------------------------
(* Theorems                                                                *)

\* No child, no worker and no plan: the invariant holds at the start.
LEMMA DelegateInvInit == Init => DelegateInv
  BY TimeoutAssumption
     DEF Init, DelegateInv, TypeOK, ChildSound, RowSound, WorkerSound, InlineSound,
         PlanSound, Plan, NoPlan

\* DelegateInv holds in every reachable state.
THEOREM DelegateInvariant == Spec => []DelegateInv
  <1>1. DelegateInv /\ [Next]_vars => DelegateInv'
    BY TypeStep, ChildStep, PlanStep DEF DelegateInv, Good
  <1> QED
    BY <1>1, DelegateInvInit, PTL DEF Spec

\* Type correctness of the rows, the workers and the plans.
THEOREM DelegateTypeCorrect == Spec => []TypeOK
  BY DelegateInvariant, PTL DEF DelegateInv

\* The row, the outcome and the events of a child tell one story.
THEOREM OneStoryHolds == Spec => []OneStory
  <1>1. DelegateInv => OneStory
    <2> SUFFICES ASSUME DelegateInv, NEW c \in Children
                 PROVE  /\ RowSound(c)
                        /\ Cardinality(log[c] \cap TerminalEvents) <= 1
      BY DEF OneStory, RowSound
    <2>1. RowSound(c)
      BY DEF DelegateInv, ChildSound
    <2>2. CASE log[c] \cap TerminalEvents = {}
      BY <2>1, <2>2, FS_EmptySet
    <2>3. CASE log[c] \cap TerminalEvents # {}
      <3>1. PICK e : e \in log[c] \cap TerminalEvents
        BY <2>3
      <3>2. log[c] \cap TerminalEvents = {e}
        BY <2>1, <3>1 DEF RowSound
      <3>3. Cardinality({e}) = 1
        BY FS_Singleton
      <3> QED
        BY <2>1, <3>2, <3>3
    <2> QED
      BY <2>2, <2>3
  <1> QED
    BY <1>1, DelegateInvariant, PTL

\* A child cancelled while queued never runs.
THEOREM CancelledChildrenNeverStart == Spec => []CancelledNeverStarts
  <1>1. DelegateInv => CancelledNeverStarts
    BY DEF DelegateInv, ChildSound, RowSound, WorkerSound, CancelledNeverStarts
  <1> QED
    BY <1>1, DelegateInvariant, PTL

\* What an inline delegate reported to its parent is what its row says.
THEOREM ReportsAreStored == Spec => []ReportedIsStored
  <1>1. DelegateInv => ReportedIsStored
    BY DEF DelegateInv, ChildSound, InlineSound, ReportedIsStored
  <1> QED
    BY <1>1, DelegateInvariant, PTL

\* A prepared subagent is told that it has ended before its worker is gone.
THEOREM HooksArePaired == Spec => []HooksPaired
  <1>1. DelegateInv => HooksPaired
    BY DEF DelegateInv, ChildSound, WorkerSound, HooksPaired
  <1> QED
    BY <1>1, DelegateInvariant, PTL

\* No step of a late worker or of a stale plan changes a terminal row.
THEOREM TerminalRowsFinal == Spec => TerminalFinal
  <1>1. DelegateInv /\ [Next]_vars =>
          [ \A c \in Children : state[c] \in TerminalStates =>
                state'[c] = state[c] /\ outcome'[c] = outcome[c] ]_vars
    BY ChildStep DEF Good
  <1> QED
    BY <1>1, DelegateInvariant, PTL DEF Spec, TerminalFinal

-----------------------------------------------------------------------------
(* The limit on active children                                            *)

\* Children may be infinite, so the count needs the set to be finite.
LimitInv == IsFiniteSet(ActiveChildren) /\ LimitRespected

\* Apart from an insert, no step makes a child active.
LEMMA EntryStep ==
    ASSUME DelegateInv, [Next]_vars
    PROVE  \/ \A d \in Children : state'[d] \in Active => state[d] \in Active
           \/ WithinLimit /\ \E c \in Children : \E st : state' = [state EXCEPT ![c] = st]
  <1> DEFINE Quiet == \A d \in Children : state'[d] \in Active => state[d] \in Active
  <1>0. TypeOK
    BY DEF DelegateInv
  <1>w. ASSUME NEW c, NEW from \in Active, NEW to, NEW ev, NEW out,
               WriteIfCurrent(c, from, to, ev, out)
        PROVE Quiet
    BY <1>w, <1>0 DEF WriteIfCurrent, Put, TypeOK
  <1>n. ASSUME NoWrite PROVE Quiet
    BY <1>n DEF NoWrite, rows
  <1>1. ASSUME NEW c \in Children, QueueAsync(c)
        PROVE WithinLimit /\ \E st : state' = [state EXCEPT ![c] = st]
    BY <1>1 DEF QueueAsync, Insert
  <1>2. ASSUME NEW c \in Children, CreateInline(c)
        PROVE \/ Quiet
              \/ WithinLimit /\ \E st : state' = [state EXCEPT ![c] = st]
    <2>1. CASE NoWrite
      BY <1>n, <2>1
    <2>2. CASE Insert(c, "inline", "Running", "delegate_started")
      BY <2>2 DEF Insert
    <2> QED
      BY <1>2, <2>1, <2>2 DEF CreateInline
  <1>3. ASSUME NEW c \in Children, StartAsync(c) PROVE Quiet
    BY <1>3, <1>w, <1>n DEF StartAsync
  <1>4. ASSUME NEW c \in Children,
               \/ Finalize(c) \/ RecoverFinalize(c) \/ MarkFailed(c)
               \/ SpawnFailed(c) \/ SpawnRecover(c) \/ SpawnMark(c)
        PROVE Quiet
    BY <1>4, <1>w, <1>n DEF Finalize, RecoverFinalize, MarkFailed, SpawnFailed,
                            SpawnRecover, SpawnMark, Attempt
  <1>5. ASSUME NEW c \in Children,
               \/ PrepareInline(c) \/ PrepareAsync(c) \/ AbandonTurn(c) \/ EndHook(c)
               \/ DropInline(c) \/ \E res \in TerminalStates : EndTurn(c, res)
        PROVE state' = state
    BY <1>5
       DEF PrepareInline, PrepareAsync, AbandonTurn, EndHook, DropInline, EndTurn,
           rows
  <1>6. ASSUME NEW o \in Operators, ApplyCancel(o) \/ ApplyRecover(o) \/ ApplyArchive(o)
        PROVE Quiet
    <2>1. PlanSound(o)
      BY DEF DelegateInv
    <2>2. CASE ApplyCancel(o)
      BY <2>2, <1>w DEF ApplyCancel
    <2>3. CASE ApplyRecover(o)
      BY <2>1, <2>3, <1>w DEF ApplyRecover, PlanSound
    <2>4. CASE ApplyArchive(o)
      BY <2>1, <2>4, <1>0 DEF ApplyArchive, PlanSound, WriteIfCurrent, Put, TypeOK
    <2> QED
      BY <1>6, <2>2, <2>3, <2>4
  <1>7. ASSUME NEW o \in Operators,
               \/ ApplyFails(o)
               \/ \E c \in Children, tool \in {"cancel", "recover", "archive"} :
                     Inspect(o, c, tool)
        PROVE state' = state
    BY <1>7 DEF ApplyFails, Inspect, rows
  <1>8. Tick \/ Crash \/ UNCHANGED vars => state' = state
    BY DEF Tick, Crash, vars, rows
  <1> QED
    BY <1>1, <1>2, <1>3, <1>4, <1>5, <1>6, <1>7, <1>8
       DEF Next, WorkerStep, ToolStep, ApplyStep

\* The limit is tested and the row inserted in one transaction.
LEMMA LimitStep ==
    ASSUME DelegateInv, LimitInv, [Next]_vars PROVE LimitInv'
  <1>0. MaxActiveChildren \in Nat /\ Cardinality(ActiveChildren) \in Nat
    BY MaxActiveChildrenAssumption, FS_CardinalityType DEF LimitInv
  <1>1. CASE \A d \in Children : state'[d] \in Active => state[d] \in Active
    <2>1. ActiveChildren' \subseteq ActiveChildren
      BY <1>1 DEF ActiveChildren
    <2>2. /\ IsFiniteSet(ActiveChildren')
          /\ Cardinality(ActiveChildren') <= Cardinality(ActiveChildren)
      BY <2>1, FS_Subset DEF LimitInv
    <2>3. Cardinality(ActiveChildren') \in Nat
      BY <2>2, FS_CardinalityType
    <2> QED
      BY <1>0, <2>2, <2>3 DEF LimitInv, LimitRespected
  <1>2. CASE WithinLimit /\ \E c \in Children : \E st : state' = [state EXCEPT ![c] = st]
    <2>1. PICK c \in Children : \E st : state' = [state EXCEPT ![c] = st]
      BY <1>2
    <2>2. ActiveChildren' \subseteq ActiveChildren \cup {c}
      BY <2>1 DEF ActiveChildren, DelegateInv, TypeOK
    <2>3. /\ IsFiniteSet(ActiveChildren \cup {c})
          /\ Cardinality(ActiveChildren \cup {c}) <= Cardinality(ActiveChildren) + 1
      BY <1>0, FS_AddElement DEF LimitInv
    <2>4. /\ IsFiniteSet(ActiveChildren')
          /\ Cardinality(ActiveChildren') <= Cardinality(ActiveChildren \cup {c})
      BY <2>2, <2>3, FS_Subset
    <2>5. Cardinality(ActiveChildren') \in Nat /\ Cardinality(ActiveChildren \cup {c}) \in Nat
      BY <2>3, <2>4, FS_CardinalityType
    <2> QED
      BY <1>0, <1>2, <2>3, <2>4, <2>5 DEF LimitInv, LimitRespected, WithinLimit
  <1> QED
    BY <1>1, <1>2, EntryStep

\* max_active_children is never exceeded, for any number of children.
THEOREM LimitHolds == Spec => []LimitRespected
  <1>1. Init => LimitInv
    <2> SUFFICES ASSUME Init PROVE LimitInv
      OBVIOUS
    <2>1. ActiveChildren = {}
      BY DEF Init, ActiveChildren
    <2> QED
      BY <2>1, FS_EmptySet, MaxActiveChildrenAssumption DEF LimitInv, LimitRespected
  <1>2. LimitInv => LimitRespected
    BY DEF LimitInv
  <1> QED
    BY <1>1, <1>2, LimitStep, DelegateInvariant, PTL DEF Spec

-----------------------------------------------------------------------------
(* The abstract lifecycle                                                  *)

\* A parent is answered by the last step of the child's worker.
AnsweredLast == \A c \in Children : reported[c] # "absent" => worker[c] = "gone"

LEMMA AnsweredStep ==
    ASSUME TypeOK, AnsweredLast, [Next]_vars PROVE AnsweredLast'
  <1>g. ASSUME NEW c \in Children, NEW step \in WorkerSteps, worker[c] # "gone",
               Goto(c, step), UNCHANGED reported
        PROVE  AnsweredLast'
    BY <1>g DEF Goto, TypeOK, AnsweredLast
  <1>1. ASSUME NEW c \in Children, PrepareInline(c) \/ QueueAsync(c) \/ PrepareAsync(c)
        PROVE  AnsweredLast'
    BY <1>1, <1>g DEF PrepareInline, QueueAsync, PrepareAsync
  <1>2. ASSUME NEW c \in Children, CreateInline(c) \/ StartAsync(c)
        PROVE  AnsweredLast'
    BY <1>2, <1>g DEF CreateInline, StartAsync, SkippedStart
  <1>3. ASSUME NEW c \in Children,
               \/ AbandonTurn(c) \/ DropInline(c) \/ \E res \in TerminalStates : EndTurn(c, res)
        PROVE  AnsweredLast'
    BY <1>3, <1>g DEF AbandonTurn, DropInline, EndTurn
  <1>4. ASSUME NEW c \in Children, Finalize(c) \/ RecoverFinalize(c) \/ MarkFailed(c)
        PROVE  AnsweredLast'
    BY <1>4, <1>g DEF Finalize, RecoverFinalize, MarkFailed, Attempt
  <1>5. ASSUME NEW c \in Children, SpawnFailed(c) \/ SpawnRecover(c) \/ SpawnMark(c)
        PROVE  AnsweredLast'
    BY <1>5, <1>g DEF SpawnFailed, SpawnRecover, SpawnMark, Attempt
  <1>6. ASSUME NEW c \in Children, EndHook(c) PROVE AnsweredLast'
    <2>1. /\ \A d \in Children \ {c} : worker'[d] = worker[d] /\ reported'[d] = reported[d]
          /\ worker'[c] = "gone" \/ (mode[c] = "async" /\ reported'[c] = reported[c])
      BY <1>6 DEF EndHook, Goto, TypeOK
    <2>2. reported[c] = "absent"
      BY <1>6 DEF EndHook, AnsweredLast
    <2> QED BY <2>1, <2>2 DEF AnsweredLast
  <1>7. ASSUME NEW o \in Operators, ToolStep(o) PROVE UNCHANGED <<worker, reported>>
    BY <1>7 DEF ToolStep, Inspect, ApplyStep, ApplyCancel, ApplyRecover, ApplyArchive,
                ApplyFails
  <1>8. CASE Tick \/ UNCHANGED vars \/ \E o \in Operators : ToolStep(o)
    <2>1. UNCHANGED <<worker, reported>>
      BY <1>7, <1>8 DEF Tick, vars
    <2> QED BY <2>1 DEF AnsweredLast
  <1>9. CASE Crash
    BY <1>9 DEF Crash, Gone, AnsweredLast, TypeOK
  <1> QED
    BY <1>1, <1>2, <1>3, <1>4, <1>5, <1>6, <1>8, <1>9 DEF Next, WorkerStep

\* A conditional write that ends an active row settles the child.
LEMMA SettleLife ==
    ASSUME TypeOK, NEW c \in Children, RowSound(c), UNCHANGED reported,
           NEW from \in Active, NEW to \in TerminalStates, NEW ev, NEW out \in Outcomes,
           from = "Ready" => to = "Failed", out \in Life!Accounts(to),
           WriteIfCurrent(c, from, to, ev, out)
    PROVE  Life!LifeNext
  <1>1. state[c] = from /\ outcome[c] = "none"
    BY DEF WriteIfCurrent, RowSound
  <1>2. outcome' = [outcome EXCEPT ![c] = out]
    <2>1. CASE out = "none"
      BY <1>1, <2>1 DEF WriteIfCurrent, Put
    <2>2. CASE out # "none"
      BY <2>2 DEF WriteIfCurrent, Put
    <2> QED BY <2>1, <2>2
  <1>3. state' = [state EXCEPT ![c] = to]
    BY DEF WriteIfCurrent, Put
  <1>4. Life!Settle(c, to, out)
    BY <1>1, <1>2, <1>3 DEF Life!Settle, Life!Alive
  <1> QED BY <1>4 DEF Life!LifeNext, Life!Ends

\* An insert admits the child.
LEMMA AdmitLife ==
    ASSUME TypeOK, NEW c \in Children, UNCHANGED reported, state[c] = "absent",
           NEW m, NEW st \in Active, NEW ev, Insert(c, m, st, ev)
    PROVE  Life!LifeNext
  <1>0. ActiveChildren = {d \in Children : state[d] \in Life!Alive}
    BY DEF ActiveChildren, Life!Alive
  <1>1. Cardinality({d \in Children : state[d] \in Life!Alive}) < MaxActiveChildren
    BY <1>0, Zenon DEF Insert, WithinLimit
  <1>2. Life!Admit(c, st)
    BY <1>1, Zenon DEF Insert, Life!Admit, Cardinality, Life!Cardinality
  <1> QED BY <1>2 DEF Life!LifeNext, Life!Alive

\* What the three attempts of a worker may do to the lifecycle.
LEMMA AttemptLife ==
    ASSUME TypeOK, NEW c \in Children, RowSound(c), UNCHANGED reported,
           NEW from \in Active, NEW to \in TerminalStates, NEW ev, NEW out \in Outcomes,
           from = "Ready" => to = "Failed", out \in Life!Accounts(to),
           NEW ok, NEW skipped, NEW err, Attempt(c, from, to, ev, out, ok, skipped, err)
    PROVE  [Life!LifeNext]_(Life!lifeVars)
  <1>1. CASE WriteIfCurrent(c, from, to, ev, out)
    BY <1>1, SettleLife
  <1>2. CASE NoWrite
    BY <1>2 DEF NoWrite, rows, Life!lifeVars
  <1> QED BY <1>1, <1>2 DEF Attempt

LEMMA LifeStep ==
    ASSUME DelegateInv, AnsweredLast, [Next]_vars
    PROVE  [Life!LifeNext]_(Life!lifeVars)
  <1>0. TypeOK /\ \A c \in Children : RowSound(c) /\ WorkerSound(c) /\ InlineSound(c)
    BY DEF DelegateInv, ChildSound
  <1>s. UNCHANGED <<state, outcome, reported>> => [Life!LifeNext]_(Life!lifeVars)
    BY DEF Life!lifeVars
  <1>1. ASSUME NEW c \in Children, QueueAsync(c) PROVE Life!LifeNext
    BY <1>0, <1>1, AdmitLife DEF QueueAsync
  <1>2. ASSUME NEW c \in Children, CreateInline(c) PROVE [Life!LifeNext]_(Life!lifeVars)
    <2>1. state[c] = "absent" /\ UNCHANGED reported
      BY <1>0, <1>2 DEF CreateInline, WorkerSound
    <2>2. CASE Insert(c, "inline", "Running", "delegate_started")
      BY <1>0, <2>1, <2>2, AdmitLife
    <2>3. CASE NoWrite
      BY <1>s, <2>1, <2>3 DEF NoWrite, rows
    <2> QED BY <1>2, <2>2, <2>3 DEF CreateInline
  <1>3. ASSUME NEW c \in Children, StartAsync(c) PROVE [Life!LifeNext]_(Life!lifeVars)
    <2>1. UNCHANGED reported
      BY <1>3 DEF StartAsync
    <2>2. CASE WriteIfCurrent(c, "Ready", "Running", "delegate_started", "none")
      <3>1. outcome' = outcome
        BY <1>0, <2>2 DEF WriteIfCurrent, Put, TypeOK
      <3>2. Life!Begin(c)
        BY <2>1, <2>2, <3>1 DEF WriteIfCurrent, Put, Life!Begin
      <3> QED BY <3>2 DEF Life!LifeNext
    <2>3. CASE NoWrite
      BY <1>s, <2>1, <2>3 DEF NoWrite, rows
    <2> QED BY <1>3, <2>2, <2>3 DEF StartAsync
  <1>4. ASSUME NEW c \in Children, Finalize(c) PROVE [Life!LifeNext]_(Life!lifeVars)
    <2>1. result[c] \in TerminalStates
      BY <1>0, <1>4 DEF Finalize, WorkerSound
    <2>2. OutcomeOf(result[c]) \in Outcomes /\ OutcomeOf(result[c]) \in Life!Accounts(result[c])
      BY <2>1 DEF OutcomeOf, Life!Accounts
    <2>3. /\ Attempt(c, "Running", result[c], EventOf(result[c]), OutcomeOf(result[c]),
                     "end", "end", "recover")
          /\ UNCHANGED reported
      BY <1>4 DEF Finalize
    <2> HIDE DEF Outcomes
    <2> QED BY <1>0, <2>1, <2>2, <2>3, AttemptLife
  <1>5. "error" \in Life!Accounts("Failed") /\ "none" \in Life!Accounts("Failed")
    BY DEF Life!Accounts
  <1>6. ASSUME NEW c \in Children, RecoverFinalize(c) \/ MarkFailed(c)
        PROVE  [Life!LifeNext]_(Life!lifeVars)
    BY <1>0, <1>5, <1>6, AttemptLife DEF RecoverFinalize, MarkFailed
  <1>7. ASSUME NEW c \in Children, SpawnFailed(c) \/ SpawnRecover(c) \/ SpawnMark(c)
        PROVE  [Life!LifeNext]_(Life!lifeVars)
    BY <1>0, <1>5, <1>7, AttemptLife DEF SpawnFailed, SpawnRecover, SpawnMark
  <1>8. ASSUME NEW c \in Children, EndHook(c) PROVE [Life!LifeNext]_(Life!lifeVars)
    <2>1. UNCHANGED <<state, outcome>> /\ reported[c] = "absent"
      BY <1>8 DEF EndHook, rows, AnsweredLast
    <2>2. CASE reported' = reported
      BY <1>s, <2>1, <2>2
    <2>3. CASE reported' # reported
      <3>1. PICK hookFails \in BOOLEAN :
               reported' = [reported EXCEPT ![c] =
                  IF mode[c] = "inline" /\ ~(failed[c] \/ hookFails) THEN result[c] ELSE @]
        BY <1>8 DEF EndHook
      <3>2. mode[c] = "inline" /\ ~failed[c] /\ ~hookFails
        <4>1. ASSUME ~(mode[c] = "inline" /\ ~(failed[c] \/ hookFails)) PROVE FALSE
          <5>1. reported' = [reported EXCEPT ![c] = reported[c]]
            BY <3>1, <4>1
          <5> QED BY <1>0, <2>3, <5>1 DEF TypeOK
        <4> QED BY <4>1
      <3>3. reported' = [reported EXCEPT ![c] = result[c]]
        BY <3>1, <3>2
      <3>4. result[c] \in TerminalStates /\ state[c] = result[c]
        BY <1>0, <1>8, <3>2 DEF EndHook, InlineSound
      <3>5. Life!Answer(c)
        BY <2>1, <3>3, <3>4 DEF Life!Answer, Life!Ends
      <3> QED BY <3>5 DEF Life!LifeNext
    <2> QED BY <2>2, <2>3
  <1>9. ASSUME NEW c \in Children,
               \/ PrepareInline(c) \/ PrepareAsync(c) \/ AbandonTurn(c) \/ DropInline(c)
               \/ \E res \in TerminalStates : EndTurn(c, res)
        PROVE  [Life!LifeNext]_(Life!lifeVars)
    BY <1>s, <1>9 DEF PrepareInline, PrepareAsync, AbandonTurn, DropInline, EndTurn, rows
  <1>10. ASSUME NEW o \in Operators, ApplyCancel(o) PROVE [Life!LifeNext]_(Life!lifeVars)
    <2> DEFINE p == plan[o]
    <2>1. p.child \in Children /\ UNCHANGED reported
      BY <1>10 DEF ApplyCancel, DelegateInv, PlanSound
    <2>2. CASE WriteIfCurrent(p.child, "Ready", "Failed", "delegate_cancelled", "error")
      BY <1>0, <1>5, <2>1, <2>2, SettleLife
    <2>3. CASE WriteIfCurrent(p.child, "Running", "Running", "delegate_cancel_requested", "none")
      BY <1>0, <1>s, <2>1, <2>3 DEF WriteIfCurrent, Put, TypeOK
    <2> QED BY <1>10, <2>2, <2>3 DEF ApplyCancel
  <1>11. ASSUME NEW o \in Operators, ApplyRecover(o) PROVE [Life!LifeNext]_(Life!lifeVars)
    <2>1. plan[o].child \in Children /\ plan[o].from \in Active /\ UNCHANGED reported
      BY <1>11 DEF ApplyRecover, DelegateInv, PlanSound
    <2>2. WriteIfCurrent(plan[o].child, plan[o].from, "Failed", "delegate_recovery_applied", "error")
      BY <1>11 DEF ApplyRecover
    <2> QED BY <1>0, <1>5, <2>1, <2>2, SettleLife
  <1>12. ASSUME NEW o \in Operators, ApplyArchive(o) PROVE UNCHANGED <<state, outcome, reported>>
    <2>1. plan[o].child \in Children
      BY <1>12 DEF ApplyArchive, DelegateInv, PlanSound
    <2> QED BY <1>0, <1>12, <2>1 DEF ApplyArchive, WriteIfCurrent, Put, TypeOK
  <1>13. ASSUME NEW o \in Operators,
                \/ ApplyFails(o)
                \/ \E c \in Children, tool \in {"cancel", "recover", "archive"} :
                      Inspect(o, c, tool)
         PROVE  UNCHANGED <<state, outcome, reported>>
    BY <1>13 DEF ApplyFails, Inspect, rows
  <1>14. Tick \/ Crash \/ UNCHANGED vars => UNCHANGED <<state, outcome, reported>>
    BY DEF Tick, Crash, vars, rows
  <1> QED
    BY <1>s, <1>1, <1>2, <1>3, <1>4, <1>6, <1>7, <1>8, <1>9, <1>10, <1>11, <1>12, <1>13,
       <1>14
       DEF Next, WorkerStep, ToolStep, ApplyStep

\* DelegateSessions implements ChildLifecycle: every step of a worker, a tool
\* or a crash is a step of the lifecycle or a stutter, for any number of
\* children and operators.
THEOREM LifecycleIsFollowed == Spec => FollowsLifecycle
  <1>1. Init => Life!LifeInit /\ AnsweredLast
    BY DEF Init, Life!LifeInit, AnsweredLast
  <1>2. DelegateInv /\ AnsweredLast /\ [Next]_vars => AnsweredLast'
    BY AnsweredStep DEF DelegateInv
  <1>3. DelegateInv /\ AnsweredLast /\ [Next]_vars => [Life!LifeNext]_(Life!lifeVars)
    BY LifeStep
  <1> QED
    BY <1>1, <1>2, <1>3, DelegateInvariant, PTL DEF Spec, FollowsLifecycle, Life!LifeSpec
=============================================================================
