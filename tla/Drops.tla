------------------------------- MODULE Drops -------------------------------
(***************************************************************************)
(* Where the compiler drops what a function owns                           *)
(* (projects/ritz/ritz0/emitter_llvmlite.py), for the programs that        *)
(* MoveChecker accepts.                                                    *)
(*                                                                         *)
(* The emitter does not know which path will run: it gives every binding a *)
(* drop flag, and one to every field that the function moves out of a      *)
(* binding of that name, and tests the flags at run time wherever a value  *)
(* may have to be dropped.  Here the emitted code runs along every path of *)
(* the program.                                                            *)
(*                                                                         *)
(* A value has one part for each of its places: for a place with places    *)
(* below it, what else is in it.  Each part must be consumed once, by      *)
(* moving it out or by dropping it.                                        *)
(***************************************************************************)
EXTENDS MoveChecker

-----------------------------------------------------------------------------
(* The marks that the move checker leaves in the program.                  *)

RECURSIVE Statements(_)
Statements(b) ==
  ToSet(b) \cup UNION {UNION {Statements(c) : c \in ToSet(s.blocks)} :
                         s \in {s \in ToSet(b) : "blocks" \in DOMAIN s}}

(* field_moves of a function, and the assignments marked reowns_field.     *)
Marks(body) ==
  [fields |-> [v \in Names |-> {s.p : s \in {s \in Statements(body) :
                                   s.op = "eat" /\ s.v = v}} \ {<<>>}],
   marked |-> Reowning(body)]

-----------------------------------------------------------------------------
(* The machine: of each binding, the parts it owns and the flags that are  *)
(* set (<<>> is the binding's own); the open drop scopes, and the number   *)
(* of them at the innermost loop; what went wrong.                         *)

Fresh == [owned |-> <<>>, flags |-> <<>>, scopes |-> <<{}>>, loop |-> 0,
          twice |-> FALSE, leak |-> FALSE]

(* _emit_drop_glue: the parts that the glue for a place drops: a part with *)
(* a flag drops, with what is in it, only while the flag is set.           *)
Glue(k, m, v, p) ==
  {q \in Below[p] :
     \A r \in k.fields[v] : (r # p /\ r \in Below[p] /\ q \in Below[r]) => r \in m.flags[v]}

Consume(m, v, parts) ==
  [m EXCEPT !.owned[v] = @ \ parts, !.twice = @ \/ ~(parts \subseteq m.owned[v])]

(* The parts are about to be stored over, or to go out of scope. *)
Forget(m, v, parts) ==
  [m EXCEPT !.owned[v] = @ \ parts, !.leak = @ \/ parts \cap m.owned[v] # {}]

(* _emit_flagged_drop *)
FlaggedDrop(k, m, v) ==
  IF <<>> \in m.flags[v] THEN Consume(m, v, Glue(k, m, v, <<>>)) ELSE m

(* The binding has a value: it and its fields are owned.                   *)
(* _mark_drop_variable_initialized                                         *)
Initialised(k, m, v) ==
  [m EXCEPT !.owned = (v :> Places) @@ @, !.flags = (v :> {<<>>} \cup k.fields[v]) @@ @]

(* _register_drop_variable, for a declaration with a value: a new slot. *)
Register(k, m, v) ==
  [Initialised(k, m, v) EXCEPT !.scopes[Len(m.scopes)] = @ \cup {v}]

(* _note_move, and _set_field_flag for a field. *)
Move(k, m, s) ==
  [Consume(m, s.v, Below[s.p]) EXCEPT
     !.flags[s.v] = @ \ (IF s.p = <<>> THEN {<<>>} ELSE Below[s.p])]

(* Mutant: the flags of the parts of the old value are not looked at. *)
DropWholeField(k, m, s) ==
  IF <<>> \in m.flags[s.v] /\ (s.p \in k.fields[s.v] => s.p \in m.flags[s.v])
  THEN Consume(m, s.v, Below[s.p]) ELSE m

(* _drop_old_field *)
DropOldField(k, m, s) ==
  IF <<>> \in m.flags[s.v] /\ (s.p \in k.fields[s.v] => s.p \in m.flags[s.v])
  THEN Consume(m, s.v, Glue(k, m, s.v, s.p)) ELSE m

(* Mutant: only the flag of the field itself is set again. *)
AssignFieldAlone(k, m, s) ==
  LET n == Forget(DropOldField(k, m, s), s.v, Below[s.p])
      marked == s.id \in k.marked
  IN  [n EXCEPT !.owned[s.v] = @ \cup Below[s.p],
                !.flags[s.v] = IF marked THEN @ \cup ({s.p} \cap k.fields[s.v]) ELSE @]

(* x.f = v *)
AssignField(k, m, s) ==
  LET n == Forget(DropOldField(k, m, s), s.v, Below[s.p])
      marked == s.id \in k.marked
  IN  [n EXCEPT !.owned[s.v] = @ \cup Below[s.p],
                !.flags[s.v] = IF marked THEN @ \cup (Below[s.p] \cap k.fields[s.v]) ELSE @]

(* _store_binding *)
Assign(k, m, s) ==
  Initialised(k, Forget(FlaggedDrop(k, m, s.v), s.v, Places), s.v)

(* _emit_drop_for_scope, for the scopes above the first n.  No two of the  *)
(* bindings share a value, so the order in which they drop is left out.    *)
DropScopes(k, m, n) ==
  LET names   == UNION {m.scopes[i] : i \in (n + 1)..Len(m.scopes)}
      glue(v) == IF <<>> \in m.flags[v] THEN Glue(k, m, v, <<>>) ELSE {}
  IN  [m EXCEPT !.owned = [v \in DOMAIN @ |-> IF v \in names THEN {} ELSE @[v]],
                !.twice = @ \/ \E v \in names : ~(glue(v) \subseteq m.owned[v]),
                !.leak  = @ \/ \E v \in names : ~(m.owned[v] \subseteq glue(v))]

-----------------------------------------------------------------------------
(* The emitted code.  An outcome is how a statement was left, and the      *)
(* machine then.                                                           *)

Left(how, m) == [how |-> how, m |-> m]

RECURSIVE ExecBlock(_, _, _), Exec(_, _, _), ExecHeads(_, _, _)

ExecBlock(k, b, m) ==
  IF b = <<>> THEN {Left("next", m)}
  ELSE UNION {IF o.how = "next" THEN ExecBlock(k, Tail(b), o.m) ELSE {o} :
                o \in Exec(k, Head(b), m)}

(* _leave_drop_scope: a block that was left by return, break or continue   *)
(* has dropped its scope then.                                             *)
Leave(k, o, n) ==
  LET m == IF o.how = "next" THEN DropScopes(k, o.m, n) ELSE o.m
  IN  Left(o.how, [m EXCEPT !.scopes = SubSeq(m.scopes, 1, n)])

ExecScoped(k, b, m) ==
  {Leave(k, o, Len(m.scopes)) : o \in ExecBlock(k, b, [m EXCEPT !.scopes = Append(@, {})])}

(* The machines at the head of a loop. *)
ExecHeads(k, body, ms) ==
  LET more == ms \cup {o.m : o \in {o \in UNION {ExecScoped(k, body, m) : m \in ms} :
                                      o.how \in {"next", "continue"}}}
  IN  IF more = ms THEN ms ELSE ExecHeads(k, body, more)

(* _emit_while *)
ExecWhile(k, body, m) ==
  LET heads == ExecHeads(k, body, {[m EXCEPT !.loop = Len(m.scopes)]})
      ends  == UNION {ExecScoped(k, body, h) : h \in heads}
      after == heads \cup {o.m : o \in {o \in ends : o.how = "break"}}
  IN  {Left("next", [h EXCEPT !.loop = m.loop]) : h \in after}
      \cup {o \in ends : o.how = "return"}

(* _emit_if, and the arms of a match. *)
ExecIf(k, s, m) ==
  UNION {ExecScoped(k, b, m) : b \in ToSet(s.blocks)}
  \cup (IF s.op = "if" THEN {Left("next", m)} ELSE {})
ExecMatch(k, s, m) == UNION {ExecScoped(k, b, m) : b \in ToSet(s.blocks)}

(* _emit_drop_for_all_scopes, for a return; _drop_loop_scopes. *)
DropAllScopes(k, m)  == DropScopes(k, m, 0)
DropLoopScopes(k, m) == DropScopes(k, m, m.loop)

Exec(k, s, m) ==
  CASE s.op = "use" -> {Left("next", m)}
    [] s.op = "eat" -> {Left("next", Move(k, m, s))}
    [] s.op = "set" -> {Left("next", IF s.p = <<>> THEN Assign(k, m, s) ELSE AssignField(k, m, s))}
    [] s.op = "let" -> {Left("next", Register(k, m, s.v))}
    [] s.op = "return" -> {Left("return", DropAllScopes(k, m))}
    [] s.op \in {"break", "continue"} -> {Left(s.op, DropLoopScopes(k, m))}
    [] s.op = "while" -> ExecWhile(k, s.blocks[1], m)
    [] s.op = "match" -> ExecMatch(k, s, m)
    [] s.op \in {"if", "ifelse"} -> ExecIf(k, s, m)

(* The body of the function, its parameter owned on entry. *)
Call(k, body) ==
  {Leave(k, o, 0).m : o \in ExecBlock(k, body, Register(k, Fresh, Param))}

-----------------------------------------------------------------------------
(* LANGUAGE_SPEC.md, 13.6, "A binding moved on some paths only is dropped  *)
(* only on the paths where it still owns its value": on every path of a    *)
(* program that the move checker accepts, every part of every value is     *)
(* moved out or dropped, before it is stored over or its scope ends, and   *)
(* none is moved or dropped twice.  A use consumes nothing, so the         *)
(* programs without one stand for all.                                     *)
ConsumedOnce ==
  Complete /\ accepted /\ (\A s \in Statements(Body) : s.op # "use") =>
    \A k \in {Marks(Body)} : \A m \in Call(k, Body) : ~m.twice /\ ~m.leak

=============================================================================
