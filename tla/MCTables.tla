-------------------------------- MODULE MCTables --------------------------------
(* The tables of the web interface with three hosts, of which the middle one    *)
(* sorts first as a string (10.0.0.9 and 10.0.0.10).                             *)
EXTENDS Tables
Texts == <<1, 3, 2>>
=============================================================================
