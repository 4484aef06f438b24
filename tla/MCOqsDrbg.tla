----------------------------- MODULE MCOqsDrbg -----------------------------
(* Two worker threads, two KEM objects and three heap addresses for their *)
(* DRBGs: enough for both threads to be between set and draw at once and  *)
(* for a freed DRBG's address to be reused by the other KEM.              *)
EXTENDS OqsDrbg

CONSTANTS t1, t2, k1, k2, d1, d2, d3

TwoThreads == {t1, t2}
TwoKems == {k1, k2}
ThreeAddresses == {d1, d2, d3}
=============================================================================
