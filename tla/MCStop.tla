------------------------------- MODULE MCStop -------------------------------
(***************************************************************************)
(* A host with two services, and `hostctl stop` among its command lines.   *)
(***************************************************************************)
EXTENDS HostctlActions

MCModules == <<1, 2>>
=============================================================================
