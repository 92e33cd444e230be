---------------------------- MODULE MCVolumeDeploy ----------------------------
(* VolumeDeploy for TLC: one volume, two or three deploys; see the .cfg files. *)
EXTENDS VolumeDeploy
===============================================================================
