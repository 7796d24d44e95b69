----------------------------- MODULE MCUpgrade -----------------------------
(* Upgrade with three signed releases, two of one version. *)
EXTENDS Upgrade

SmallArtifacts == {<<1, 1>>, <<2, 1>>, <<2, 2>>}
=============================================================================
