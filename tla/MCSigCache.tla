----------------------------- MODULE MCSigCache -----------------------------
(***************************************************************************)
(* app/main imports lib, which top has and near can get; one text of lib   *)
(* imports base.  Modes look for imports near the importer, in near or     *)
(* not, and in top, or in the project root that is found.                  *)
(***************************************************************************)
EXTENDS SigCache, TLC

CONSTANTS p1, p2

Symmetry == Permutations(Proc)

main == <<"app", "main">>
lib  == <<"top", "lib">>

MCDir == {"app", "near", "top"}
MCUp == [d \in MCDir |->
  CASE d = "app" -> <<"app", "near", "top">>
    [] d = "near" -> <<"near", "top">>
    [] d = "top" -> <<"top">>]
MCPath == {main, lib, <<"near", "lib">>, <<"top", "base">>}
MCTexts == [x \in MCPath |->
  CASE x[2] = "main" -> {"m1", "m2"}
    [] x = lib -> {"l1", "l2"}
    [] x[2] = "lib" -> {"l2"}
    [] x[2] = "base" -> {"b1"}]
MCFirst == [x \in MCPath |->
  CASE x = main -> "m1"
    [] x = lib -> "l1"
    [] x[2] = "base" -> "b1"
    [] OTHER -> None]
MCImports == [t \in {"m1", "m2", "l1", "l2", "b1"} |->
  CASE t \in {"m1", "m2"} -> {"lib"}
    [] t = "l1" -> {"base"}
    [] OTHER -> {}]
MCInterface == [t \in {"m1", "m2", "l1", "l2", "b1"} |->
  CASE t \in {"m1", "m2"} -> {}
    [] t \in {"l1", "b1"} -> {"f"}
    [] t = "l2" -> {"g"}]

InMode(flags, roots, project_root) ==
  [flags |-> flags, source_roots |-> roots, project_root |-> project_root,
   ritz_path |-> <<>>]
plain == InMode("main", <<>>, "top")
test  == InMode("test", <<>>, "top")
near  == InMode("main", <<"near">>, "top")
found == InMode("main", <<>>, None)

MCMode == {plain, test, near}
Found == {found}
Sources == {main, lib}

Compile(s, o, m) == [src |-> s, out |-> o, mode |-> m]
MCInvocations ==
  {Compile(main, "o1", plain), Compile(main, "o1", near),
   Compile(main, "o2", test), Compile(lib, "o3", plain)}
FoundInvocations == {Compile(main, "o1", found)}

=============================================================================
