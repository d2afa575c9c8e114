---------------------------- MODULE MCDurability ----------------------------
(* The instances of Durability that TLC checks; the cfgs give the values.   *)
EXTENDS Durability
=============================================================================
