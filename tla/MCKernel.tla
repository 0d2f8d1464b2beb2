------------------------------ MODULE MCKernel ------------------------------
(* Instances of Kernel for TLC.                                              *)
EXTENDS Kernel

CONSTANT h0     \* the handle of the one supported connection

============================================================================
