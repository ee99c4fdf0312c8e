----------------------------- MODULE MCSyncRange ----------------------------
(* All packs of six bytes over the bytes of the marks and an ASCII byte,    *)
(* with ranges that start late enough for every retry, early enough to run *)
(* out of them, and that end inside the pack and at its end, of which an    *)
(* expansion cut short lacks the last byte.  The text after a mark may be   *)
(* what the binary charset makes of a byte, below 128 or above, or U+FFFD.  *)
EXTENDS SyncRange
=============================================================================
