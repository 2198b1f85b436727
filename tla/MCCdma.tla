------------------------------- MODULE MCCdma -------------------------------
(***************************************************************************)
(* Instance of NvhostCdma for TLC: four jobs of two clients that do not     *)
(* fit the push buffer together.                                           *)
(***************************************************************************)
EXTENDS NvhostCdma

MCSlots    == <<2, 2, 1, 2>>
MCClientId == <<"c1", "c1", "c2", "c1">>
=============================================================================
