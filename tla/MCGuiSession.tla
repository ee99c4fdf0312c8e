---------------------------- MODULE MCGuiSession ----------------------------
(* As many RFB objects as the bounds on taps, reconnects and faults allow.  *)
EXTENDS GuiSession, TLC

Symmetry == Permutations(Id)
=============================================================================
