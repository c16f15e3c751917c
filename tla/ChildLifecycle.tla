--------------------------- MODULE ChildLifecycle ---------------------------
(***************************************************************************)
(* What the delegate runtime promises a parent session about each of its   *)
(* children, without transactions, workers, hooks, plans or crashes.  A    *)
(* child is admitted within the limit, begins at most once, and is settled *)
(* at most once, with an account that fits its end; a child that has not   *)
(* begun can only fail.  The parent is answered at most once, with the end *)
(* that is settled.                                                        *)
(***************************************************************************)
EXTENDS Naturals, FiniteSets

CONSTANTS
    Children,   \* delegate children of one parent
    Limit       \* how many of them may be active

VARIABLES
    state,      \* "absent", then an active state, then an end
    outcome,    \* the account that is kept of the end
    answer      \* what the parent was told; "absent": nothing yet

lifeVars == <<state, outcome, answer>>

Alive == {"Ready", "Running"}
Ends == {"Completed", "Failed", "TimedOut"}

\* A failure may be left without an account.
Accounts(end) ==
    [Completed |-> {"ok"}, Failed |-> {"error", "none"}, TimedOut |-> {"timeout"}][end]

LifeInit ==
    /\ state = [c \in Children |-> "absent"]
    /\ outcome = [c \in Children |-> "none"]
    /\ answer = [c \in Children |-> "absent"]

Admit(c, st) ==
    /\ state[c] = "absent"
    /\ Cardinality({d \in Children : state[d] \in Alive}) < Limit
    /\ state' = [state EXCEPT ![c] = st]
    /\ UNCHANGED <<outcome, answer>>

Begin(c) ==
    /\ state[c] = "Ready"
    /\ state' = [state EXCEPT ![c] = "Running"]
    /\ UNCHANGED <<outcome, answer>>

Settle(c, end, account) ==
    /\ state[c] \in Alive
    /\ state[c] = "Ready" => end = "Failed"
    /\ account \in Accounts(end)
    /\ state' = [state EXCEPT ![c] = end]
    /\ outcome' = [outcome EXCEPT ![c] = account]
    /\ UNCHANGED answer

Answer(c) ==
    /\ state[c] \in Ends
    /\ answer[c] = "absent"
    /\ answer' = [answer EXCEPT ![c] = state[c]]
    /\ UNCHANGED <<state, outcome>>

LifeNext ==
    \E c \in Children :
        \/ \E st \in Alive : Admit(c, st)
        \/ Begin(c)
        \/ \E end \in Ends : \E account \in Accounts(end) : Settle(c, end, account)
        \/ Answer(c)

LifeSpec == LifeInit /\ [][LifeNext]_lifeVars
=============================================================================
