--------------------------- MODULE MCPackageCache ---------------------------
(***************************************************************************)
(* Instances of PackageCache.                                              *)
(***************************************************************************)
EXTENDS PackageCache, TLC

CONSTANTS p1, p2, p3, p4, b1, b2

\* Three processes of one build and one of another.
Alone == (1 :> p1) @@ (2 :> p2) @@ (3 :> p3) @@ (4 :> p4)
TwoBuilds == (1 :> b1) @@ (2 :> b1) @@ (3 :> b1) @@ (4 :> b2)
=============================================================================
