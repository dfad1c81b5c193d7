------------------------------ MODULE MCDevices ------------------------------
(* Devices as TLC checks it.                                               *)
EXTENDS Devices

ThreeCharacters == <<83, 101, 10>>
=============================================================================
