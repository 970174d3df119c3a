---------------------------- MODULE MCPackageLog ----------------------------
(***************************************************************************)
(* Profiles for checking PackageLog.                                       *)
(***************************************************************************)
EXTENDS PackageLog

\* A package of two actions and one of one.
TwoPackages == [p \in 1 .. 2 |-> IF p = 1 THEN 2 ELSE 1]
=============================================================================
