-------------------------- MODULE MCDesktopDaemon --------------------------
(* A small instance of DesktopDaemon. *)
EXTENDS DesktopDaemon
=============================================================================
