---------------------------- MODULE MCInventory ----------------------------
(* Small instances of Inventory: the credential in use under an            *)
(* application the account owns, and two that share an external one.       *)
EXTENDS Inventory, TLC

CONSTANTS own, k1, k2, a1, a2, h1, h2, r1

MCAppOf == [c \in Credentials |-> IF c = own THEN a1 ELSE a2]

Symmetry == Permutations({k1, k2})

=============================================================================
