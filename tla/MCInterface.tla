------------------------------ MODULE MCInterface ------------------------------
(* The connection of the web interface on small sets of channels and components. *)
EXTENDS Interface
=============================================================================
