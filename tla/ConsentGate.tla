---------------------------- MODULE ConsentGate ----------------------------
(***************************************************************************)
(* What the approval runtime promises an operator, without rows, resolvers *)
(* or crashes.  A governed call is decided once; its saved request is run  *)
(* at most once, and only after a yes; a standing permission for its scope *)
(* exists only because some call of the scope was approved for always, and *)
(* is in place before that call runs; any other run of a governed call     *)
(* needs the standing permission.                                          *)
(***************************************************************************)
EXTENDS Naturals

CONSTANTS
    Calls,      \* governed tool calls
    Scopes,     \* what a standing permission is for
    Scope       \* the scope of each call

VARIABLES
    verdict,    \* the operator's decision on each call
    granted,    \* scopes with a standing permission
    replays,    \* how often the saved request of a call was run
    direct      \* has a call run under a standing permission?

gateVars == <<verdict, granted, replays, direct>>

Verdicts == {"open", "ApproveOnce", "ApproveAlways", "Deny"}

GateInit ==
    /\ verdict = [c \in Calls |-> "open"]
    /\ granted = {}
    /\ replays = [c \in Calls |-> 0]
    /\ direct = [c \in Calls |-> FALSE]

Decide(c, v) ==
    /\ verdict[c] = "open"
    /\ verdict' = [verdict EXCEPT ![c] = v]
    /\ UNCHANGED <<granted, replays, direct>>

Grant(c) ==
    /\ verdict[c] = "ApproveAlways"
    /\ granted' = granted \cup {Scope[c]}
    /\ UNCHANGED <<verdict, replays, direct>>

Replay(c) ==
    /\ verdict[c] \in {"ApproveOnce", "ApproveAlways"}
    /\ verdict[c] = "ApproveAlways" => Scope[c] \in granted
    /\ replays[c] = 0
    /\ replays' = [replays EXCEPT ![c] = 1]
    /\ UNCHANGED <<verdict, granted, direct>>

RunGranted(c) ==
    /\ Scope[c] \in granted
    /\ direct' = [direct EXCEPT ![c] = TRUE]
    /\ UNCHANGED <<verdict, granted, replays>>

GateNext ==
    \E c \in Calls :
        \/ \E v \in Verdicts \ {"open"} : Decide(c, v)
        \/ Grant(c)
        \/ Replay(c)
        \/ RunGranted(c)

GateSpec == GateInit /\ [][GateNext]_gateVars
=============================================================================
