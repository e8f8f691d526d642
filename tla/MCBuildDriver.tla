--------------------------- MODULE MCBuildDriver ---------------------------
(***************************************************************************)
(* Two modules: 2 imports 1.  Contents "a" and "b" have one interface, so  *)
(* an edit from one to the other is a body-only edit; "c" has another, and *)
(* does not compile when it is Broken.                                     *)
(***************************************************************************)
EXTENDS BuildDriver

CONSTANTS b1, b2, t1, t2

MCImports == <<{}, {1}>>
MCContents == {"a", "b", "c"}
MCIface == [c \in MCContents |-> IF c = "c" THEN "y" ELSE "x"]
OwnTrees == [b \in {b1, b2} |-> IF b = b1 THEN t1 ELSE t2]

=============================================================================
