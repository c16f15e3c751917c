---------------------------- MODULE SessionLine ----------------------------
(***************************************************************************)
(* What the ACP manager promises its callers about a session, without a    *)
(* registry of mutexes, reference counts or guards: every session has one  *)
(* line, in which callers stand in the order they came; only the first     *)
(* may go inside, and only when nobody is; a caller leaves the line when   *)
(* it comes out, or when it gives up waiting; a restart clears all lines.  *)
(***************************************************************************)
EXTENDS Naturals, Sequences

CONSTANTS
    Callers,    \* concurrent calls of the manager
    Sessions    \* session keys

VARIABLES
    line,       \* the callers of each session, in order, the one inside first
    inside      \* the callers that own the session

lineVars == <<line, inside>>

LineInit ==
    /\ line = [s \in Sessions |-> <<>>]
    /\ inside = [s \in Sessions |-> {}]

InLine(c, s) == \E i \in DOMAIN line[s] : line[s][i] = c

Arrive(c, s) ==
    /\ \A t \in Sessions : ~InLine(c, t)
    /\ line' = [line EXCEPT ![s] = Append(line[s], c)]
    /\ UNCHANGED inside

Enter(c, s) ==
    /\ line[s] # <<>> /\ Head(line[s]) = c
    /\ inside[s] = {}
    /\ inside' = [inside EXCEPT ![s] = {c}]
    /\ UNCHANGED line

ComeOut(c, s) ==
    /\ line[s] # <<>> /\ Head(line[s]) = c
    /\ inside[s] = {c}
    /\ inside' = [inside EXCEPT ![s] = {}]
    /\ line' = [line EXCEPT ![s] = Tail(line[s])]

\* The others keep their order.
GiveUp(c, s) ==
    /\ c \notin inside[s]
    /\ \E i \in DOMAIN line[s] :
          /\ line[s][i] = c
          /\ line' = [line EXCEPT ![s] =
                        [j \in 1..Len(line[s]) - 1 |->
                           IF j < i THEN line[s][j] ELSE line[s][j + 1]]]
    /\ UNCHANGED inside

Clear ==
    /\ line' = [s \in Sessions |-> <<>>]
    /\ inside' = [s \in Sessions |-> {}]

LineNext ==
    \/ \E c \in Callers, s \in Sessions :
          Arrive(c, s) \/ Enter(c, s) \/ ComeOut(c, s) \/ GiveUp(c, s)
    \/ Clear

LineSpec == LineInit /\ [][LineNext]_lineVars
=============================================================================
