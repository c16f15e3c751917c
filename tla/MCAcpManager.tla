---------------------------- MODULE MCAcpManager ----------------------------
(* The ACP manager with concurrent calls on the same session, on either    *)
(* flavour of the runtime.                                                 *)
EXTENDS AcpManager, TLC

\* Callers are interchangeable.
Symmetry == Permutations(Callers)
=============================================================================
