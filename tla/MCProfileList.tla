--------------------------- MODULE MCProfileList ---------------------------
(***************************************************************************)
(* Profiles for checking ProfileList.                                      *)
(***************************************************************************)
EXTENDS ProfileList

ThreeFiles == <<"f1", "f2", "f3">>

\* One profile has a child, the others are empty.
FixedSizes == [f \in Files |-> IF f = "f2" THEN {2} ELSE {1}]

\* A profile that may lose its child in the editor.
EditedSizes == [f \in Files |-> IF f = "f1" THEN {1, 2} ELSE {2}]
=============================================================================
