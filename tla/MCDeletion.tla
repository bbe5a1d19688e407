----------------------------- MODULE MCDeletion -----------------------------
(* Deletion with two claims; both policies, with and without a backup.     *)
EXTENDS Deletion

CONSTANTS v1, v2

MCPVCs == {v1, v2}
=============================================================================
