----------------------------- MODULE MCAdbShell -----------------------------
(* One byte to a WRTE, so that strings of two are cut.                     *)
EXTENDS AdbShell
=============================================================================
