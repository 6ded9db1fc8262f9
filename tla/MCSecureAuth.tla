---------------------------- MODULE MCSecureAuth ----------------------------
(* An instance of SecureAuth: a user whose update key the application       *)
(* replaces, and which the authority changes and deletes.                  *)
EXTENDS SecureAuth

CONSTANTS Admin, Guest

ChangeDelete == [op : {"CHANGE", "DELETE"}, name : {Admin}]
NewKey       == {[user |-> 1, name |-> Admin, role |-> "OPERATOR", key |-> 0]}
=============================================================================
