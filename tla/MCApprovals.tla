---------------------------- MODULE MCApprovals ----------------------------
(***************************************************************************)
(* Two resolvers.  Both see the first call, one of them the second, which  *)
(* is a call of the same tool under the same root; the third is a call of  *)
(* another tool, and its request stays pending.                            *)
(***************************************************************************)
EXTENDS Approvals, TLC

CONSTANTS c1, c2, c3, r1, r2, s1, s2

MCScope == (c1 :> s1) @@ (c2 :> s1) @@ (c3 :> s2)
MCVisible == {<<r1, c1>>, <<r1, c2>>, <<r2, c1>>}
=============================================================================
