---------------------------- MODULE MCGuestShell -----------------------------
(***************************************************************************)
(* Instances of GuestShell: a probe with a timeout and two plain commands. *)
(***************************************************************************)
EXTENDS GuestShell

CONSTANTS probe, list, stop
=============================================================================
