---- MODULE MCGuestIo ----
(* A loop of four instructions, with an access of each kind, run by two vCPUs; the
   operands of the first and the last are RAM on one of them.  The last lies on two
   pages. *)
EXTENDS GuestIo

CONSTANTS c1, c2

Program == [a \in 0..3 |->
    CASE a = 0 -> "cold" [] a = 1 -> "yield" [] a = 2 -> "pio" [] a = 3 -> "mmio"]
RamOn == [c \in CPU |-> IF c = c1 THEN {} ELSE {0, 3}]
OwnSlot == [a \in 0..3 |-> a]
====
