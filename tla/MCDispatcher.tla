---------------------------- MODULE MCDispatcher ----------------------------
EXTENDS Dispatcher, TLC

CONSTANTS c1, c2, c3, c4

(* Clients are interchangeable: none is treated specially by the code.     *)
ClientSymmetry == Permutations({c1, c2, c3, c4})
=============================================================================
