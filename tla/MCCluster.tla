------------------------------ MODULE MCCluster -----------------------------
(***************************************************************************)
(* A small instance of FileRegistry for TLC.                               *)
(***************************************************************************)
EXTENDS ClusterProperties

=============================================================================
