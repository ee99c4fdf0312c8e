------------------------------ MODULE MCVfsDisk -----------------------------
(* Two files, and enough timeouts for every attempt to fail.               *)
EXTENDS VfsDisk
=============================================================================
