--------------------------- MODULE MCKernelWriter ---------------------------
(* A small instance of KernelWriter for TLC. *)
EXTENDS KernelWriter

CONSTANTS a, b, r1, r2, m1, m2
=============================================================================
