--------------------------- MODULE MCModelCatalog ---------------------------
(* One cache key and three requests: a leader and two followers.            *)
EXTENDS ModelCatalog
=============================================================================
