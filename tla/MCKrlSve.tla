-------------------------------- MODULE MCKrlSve --------------------------------
(***************************************************************************)
(* Two threads with two handles each on the keyboard and another device,   *)
(* three nodes so that memory runs out, two keys so that one is overtaken. *)
(***************************************************************************)
EXTENDS KrlSve
=============================================================================
