----------------------------- MODULE MCLivoxConfig -----------------------------
(***************************************************************************)
(* The instance of LivoxConfig that is checked: a lidar configured as in   *)
(* MID360s_config.json and one with another key that may refuse it.        *)
(***************************************************************************)
EXTENDS LivoxConfig

MCConfigured == [front |-> {"DataType", "ScanPattern"}, back |-> {"DataType", "BlindSpot"}]
==============================================================================
