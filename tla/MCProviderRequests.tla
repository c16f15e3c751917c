------------------------- MODULE MCProviderRequests -------------------------
(* Two requests, two profiles with a cache key each.                        *)
EXTENDS ProviderRequests, TLC

CONSTANTS p1, p2, k1, k2

MCConfigured == <<p1, p2>>
MCKeyOf == (p1 :> k1) @@ (p2 :> k2)
=============================================================================
