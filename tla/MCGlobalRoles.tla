---------------------------- MODULE MCGlobalRoles ----------------------------
(* Roles on the platform and in the cluster, for TLC. *)
EXTENDS GlobalRoles
=============================================================================
