---------------------------- MODULE MCTabStore ----------------------------
(* A small instance of TabStore. *)
EXTENDS TabStore
=============================================================================
