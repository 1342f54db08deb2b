--------------------------------- MODULE MCTours --------------------------------
(* Two processes beside pid 1. *)
EXTENDS Tours

MCOrder == <<"a", "b">>

===============================================================================
