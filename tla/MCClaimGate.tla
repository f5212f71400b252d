---------------------------- MODULE MCClaimGate ----------------------------
(* An instance of ClaimGate for TLC. *)
EXTENDS ClaimGate

CONSTANT t1     \* one of the rows

(* Queued rows are served, checked of one row: rows are interchangeable,      *)
(* nothing orders or names them, so what holds of one holds of each.          *)
Served == ServedRow(t1)

=============================================================================
