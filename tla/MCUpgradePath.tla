------------------------------ MODULE MCUpgradePath ------------------------------
(***************************************************************************)
(* Upgrade graphs for model checking UpgradePath: every set of upgrades to *)
(* newer versions, with or without a way back that closes a cycle and an   *)
(* edge from a node to itself.                                             *)
(***************************************************************************)
EXTENDS UpgradePath

UpgradesAndCycles == {e \in Node \X Node : e[1] < e[2]} \cup {<<3, 1>>, <<2, 2>>}
=============================================================================
