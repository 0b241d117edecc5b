-------------------------- MODULE MCAddressEditing --------------------------
(* Small instances of AddressEditing: the credential in use, one other of  *)
(* an external application, and a process that may be seen from two hosts. *)
EXTENDS AddressEditing, TLC

CONSTANTS own, k1, a1, a2, h1, h2, r1, r2

MCAppOf == [c \in Credentials |-> IF c = own THEN a1 ELSE a2]

Symmetry == Permutations(Requests)

=============================================================================
