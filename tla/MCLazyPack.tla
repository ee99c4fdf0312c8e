----------------------------- MODULE MCLazyPack -----------------------------
EXTENDS LazyPack

\* Two full chunks that differ and a short one that ends in a nonzero byte.
MCPack == [p \in 0..(Size - 1) |-> IF p = 1 THEN 0 ELSE 1]
=============================================================================
