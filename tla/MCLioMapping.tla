----------------------------- MODULE MCLioMapping -----------------------------
(***************************************************************************)
(* The instance of LioMapping that is checked: a scan that the filters     *)
(* leave nothing of, one with too few points for an update, and one that   *)
(* is enough for a map.                                                    *)
(***************************************************************************)
EXTENDS LioMapping

MCScans == {<<>>, <<0>>, <<0, 1, 2>>}
==============================================================================
