----------------------------- MODULE MCKeymaker -----------------------------
(* A small instance of Keymaker: the credential in use and one or two      *)
(* others, of an application of their own, and requests of any kind.       *)
EXTENDS Keymaker, TLC

CONSTANTS own, k1, k2, a1, a2, h1, h2, r1, r2

MCAppOf == [c \in Credentials |-> IF c = own THEN a1 ELSE a2]

Symmetry == Permutations(Requests)

=============================================================================
