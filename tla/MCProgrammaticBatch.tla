------------------------ MODULE MCProgrammaticBatch ------------------------
(***************************************************************************)
(* Four calls: three of them share a connector with a breaker and a rate   *)
(* limit, the other connector has neither.                                 *)
(***************************************************************************)
EXTENDS ProgrammaticBatch

MCBatch ==
    << [connector |-> "hook", priority |-> "High"],
       [connector |-> "hook", priority |-> "Low"],
       [connector |-> "hook", priority |-> "High"],
       [connector |-> "mail", priority |-> "Normal"] >>
MCWeight == [High |-> 2, Normal |-> 1, Low |-> 1]
=============================================================================
