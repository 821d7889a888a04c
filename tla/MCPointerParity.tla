-------------------------- MODULE MCPointerParity ---------------------------
(***************************************************************************)
(* PointerParity for TLC: subscripts on both sides of a pointer, and room  *)
(* for the system allocator to recycle addresses of freed blocks.          *)
(***************************************************************************)
EXTENDS PointerParity

BothSides == {-1, 0, 1}
=============================================================================
