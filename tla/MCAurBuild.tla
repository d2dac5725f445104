----------------------------- MODULE MCAurBuild -----------------------------
(***************************************************************************)
(* A repository of two packages and three commits: the second changes the  *)
(* build without a new version, or with one (a VCS package), the third     *)
(* drops package b.                                                        *)
(***************************************************************************)
EXTENDS AurBuild

CONSTANTS a, b, v1, v2

MCNamesAt    == [h \in Heads |-> IF h = 3 THEN {a} ELSE {a, b}]
MCVersionsAt == [h \in Heads |-> CASE h = 1 -> {v1}
                                   [] h = 2 -> {v1, v2}
                                   [] h = 3 -> {v2}]
=============================================================================
