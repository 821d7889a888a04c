------------------------------ MODULE MCVmHeap ------------------------------
(***************************************************************************)
(* VmHeap for TLC: counts and offsets around zero and around the ends of   *)
(* an allocation, with an i64 just wide enough for them to overflow.       *)
(***************************************************************************)
EXTENDS VmHeap

CountsAroundZero == {-1, 0, 1, 2}
OffsetsAroundZero == {-1, 0, 1}
=============================================================================
