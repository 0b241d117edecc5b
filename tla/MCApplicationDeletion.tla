----------------------- MODULE MCApplicationDeletion -----------------------
(* Small instances of ApplicationDeletion: the application of the          *)
(* credential in use, another that may hold a key, and an external one.    *)
EXTENDS ApplicationDeletion, TLC

CONSTANTS own, k1, a1, a2, a3, h1, r1, r2

MCAppOf == [c \in Credentials |-> IF c = own THEN a1 ELSE a2]

Symmetry == Permutations(Requests)

=============================================================================
