-------------------------- MODULE MCDelegateSessions -------------------------
(* Two children competing for one slot of max_active_children, and one      *)
(* operator whose plans go stale between its snapshot and its write.        *)
EXTENDS DelegateSessions, TLC

\* Children are interchangeable.
Symmetry == Permutations(Children)
=============================================================================
