---- MODULE MCGuestTsc ----
(* Three vCPU threads, alike. *)
EXTENDS GuestTsc, TLC

CONSTANTS t1, t2, t3

Alike == Permutations({t1, t2, t3})
====
