--------------------------- MODULE MCChannelServe ---------------------------
(* Two processes, one of them with --once; of three updates the second one *)
(* is ignored by the parser.                                               *)
EXTENDS ChannelServe
=============================================================================
