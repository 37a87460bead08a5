---------------------------- MODULE AdvertOverlaps ----------------------------
(* What the operations on adverts share: how many of them have begun while     *)
(* another was in progress, and how many have died.                            *)
CONSTANTS MaxOverlaps, MaxCrashes
VARIABLES overlaps, crashes
===============================================================================
