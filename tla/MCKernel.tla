------------------------------ MODULE MCKernel ------------------------------
(* The kernel with two concurrent callers: once with two packs that differ  *)
(* in what they grant, once with two audit sinks that may fail.             *)
EXTENDS Kernel, TLC

CONSTANTS a, b, k1

\* One manifest allows the connector, the other grants more capabilities.
TwoManifests ==
    { [grants |-> {a}, connectors |-> {k1}],
      [grants |-> {a, b}, connectors |-> {}] }

OneManifest == { [grants |-> {a}, connectors |-> {k1}] }

\* Callers are interchangeable.
Symmetry == Permutations(Callers)
=============================================================================
