------------------------------ MODULE MCPlayer ------------------------------
(* A file for Player: a move, a suspend (M600) and another move.           *)
EXTENDS Player

File == <<"move", "suspend", "move">>
=============================================================================
