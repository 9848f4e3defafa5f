--------------------------- MODULE MCProvisioning ---------------------------
(***************************************************************************)
(* An instance of Provisioning: two houses of one name.                    *)
(***************************************************************************)
EXTENDS Provisioning

CONSTANTS ana, bia, casa

O(email, house, password) ==
  [email |-> email, house |-> house, name |-> casa, password |-> password]

MCOptions == {O(ana, 1, TRUE), O(ana, 2, FALSE), O(ana, 0, TRUE), O(bia, 1, TRUE)}
=============================================================================
