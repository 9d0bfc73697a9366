---------------------------- MODULE DeploymentMC ----------------------------
(* Three posts on a pool of one connection and one more. *)
EXTENDS Deployment

CONSTANTS r1, r2, r3

Posts == {r1, r2, r3}
=============================================================================
