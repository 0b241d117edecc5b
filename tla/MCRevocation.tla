---------------------------- MODULE MCRevocation ----------------------------
(* Small instances of Revocation for TLC: the credential in use, one or    *)
(* two others, all of one application, and one or two requests.            *)
EXTENDS Revocation, TLC

CONSTANTS own, k1, k2, a1, h1, r1, r2

MCAppOf == [c \in Credentials |-> a1]

Symmetry == Permutations(Requests)

=============================================================================
