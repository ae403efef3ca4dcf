----------------------------- MODULE MCDriverStart -----------------------------
(***************************************************************************)
(* The instance of DriverStart that is checked: two lidars are configured, *)
(* one of them twice and one that is not there, and a third one is found   *)
(* on the network when one index is left, or none.                         *)
(***************************************************************************)
EXTENDS DriverStart

CONSTANTS front, back, stranger

MCHandles == {front, back, stranger}
MCConfig == <<front, front, back>>
==============================================================================
