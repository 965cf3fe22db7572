------------------------------- MODULE MCRoc --------------------------------
(***************************************************************************)
(* Instances of RemainOnChannel: which odd events may happen.              *)
(***************************************************************************)
EXTENDS RemainOnChannel

EveryOdd == OddEvents
=============================================================================
