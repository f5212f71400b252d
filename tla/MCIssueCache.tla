---------------------------- MODULE MCIssueCache ----------------------------
(* A small instance of IssueCache. *)
EXTENDS IssueCache

MCBoard == <<"todo", "done">>
=============================================================================
