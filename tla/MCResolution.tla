---------------------------- MODULE MCResolution ----------------------------
(* Resolution on the small registries. *)
EXTENDS Resolution, SmallRegistries
=============================================================================
