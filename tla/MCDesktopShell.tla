--------------------------- MODULE MCDesktopShell ---------------------------
(* Instances of DesktopShell for TLC. *)
EXTENDS DesktopShell
=============================================================================
