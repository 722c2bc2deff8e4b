----------------------------- MODULE MCDevices -----------------------------
(***************************************************************************)
(* Devices with two threads at a disk of two tracks of three sectors, an   *)
(* input of three characters, and two machines on the network.             *)
(***************************************************************************)
EXTENDS Devices

CONSTANTS t1, t2, a, b

MCClients == {t1, t2}
MCInput == <<a, b, a>>
=============================================================================
