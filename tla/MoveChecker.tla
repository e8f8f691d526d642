---------------------------- MODULE MoveChecker ----------------------------
(***************************************************************************)
(* The compiler's move checker (projects/ritz/ritz0/move_checker.py)       *)
(* against the meaning of the programs it judges.                          *)
(*                                                                         *)
(* A program is the body of a function with one move-only parameter.  It   *)
(* grows statement by statement, and in every state in which it is         *)
(* complete the checker's verdict is compared with what the program's      *)
(* paths do: every condition may go either way, every loop may run any     *)
(* number of times.                                                        *)
(*                                                                         *)
(* A place is a sequence of field names below the binding; <<>> is the     *)
(* binding itself.  What VarInfo keeps of a binding as state MOVED and as  *)
(* moved_fields is one set here: the places moved out of it.  An           *)
(* environment is the chain of scopes, the outermost first.                *)
(***************************************************************************)
EXTENDS Naturals, FiniteSets, SequencesExt

CONSTANTS
  Names,       \* of bindings
  Param,       \* the function's parameter
  Places,      \* of each binding
  MaxSize,     \* bound on the statements of a program
  MaxTurns,    \* bound on the turns of a loop, where programs run
  LoneReowns,  \* whether an `if` without an else may assign
  Shadowing,   \* whether an inner scope may declare a name again
  AllLeave     \* whether every branch of an if/else or a match may leave

ASSUME CheckerAssumption ==
  /\ Param \in Names /\ <<>> \in Places
  /\ MaxSize \in Nat /\ MaxTurns \in Nat
  /\ {LoneReowns, Shadowing, AllLeave} \subseteq BOOLEAN

-----------------------------------------------------------------------------
(* Programs.                                                               *)

PlaceOps  == {"use", "eat", "set"}
Exits     == {"return", "break", "continue"}
Branching == {"ifelse", "match"}

Simple ==
  [op : PlaceOps, v : Names, p : Places, id : Nat] \cup [op : {"let"}, v : Names]
    \cup [op : Exits]
Compound(inner) ==
  [op : {"if", "while"} \cup Branching, blocks : Seq(Seq(inner)), leaves : BOOLEAN]

(* Statements nested at most d deep. *)
Stmts[d \in 0..MaxSize] == IF d = 0 THEN Simple ELSE Simple \cup Compound(Stmts[d - 1])

-----------------------------------------------------------------------------
(* Environments.  A binding is a name with the depth of its scope: vars    *)
(* are those in scope, and moved is what was moved out of them.            *)

Bindings == Nat \X Names
Envs == [depth : Nat, vars : SUBSET Bindings, moved : SUBSET (Bindings \X Places)]

(* Scope.lookup: the innermost scope that has the name. *)
Depths(env, v) == {d \in 1..env.depth : <<d, v>> \in env.vars}
Lookup(env, v) == <<CHOOSE d \in Depths(env, v) : \A e \in Depths(env, v) : e <= d, v>>

Out(env, b)   == {p \in Places : <<b, p>> \in env.moved}
Moved(env, v) == Out(env, Lookup(env, v))

Define(env, v) ==
  LET b == <<env.depth, v>> IN
  [env EXCEPT !.vars = @ \cup {b}, !.moved = @ \ ({b} \X Places)]

PushScope(env)       == [env EXCEPT !.depth = @ + 1]
PopScope(env, outer) == [outer EXCEPT !.moved = {m \in env.moved : m[1] \in outer.vars}]

(* A place and those within it: path_within. *)
Below == [p \in Places |-> {q \in Places : IsPrefix(p, q)}]
Overlap(p, q) == q \in Below[p] \/ p \in Below[q]

(* A use of a place is wrong when something moved overlaps it. *)
Gone(env, v, p) == \E q \in Moved(env, v) : Overlap(p, q)

(* Assigning to a place is wrong when it lies within something moved, and  *)
(* gives back what it covers.                                              *)
Within(env, v, p)    == \E q \in Moved(env, v) : q # p /\ p \in Below[q]
GivesBack(env, v, p) == Moved(env, v) \cap Below[p] # {}
Reown(env, v, p)     == [env EXCEPT !.moved = @ \ ({Lookup(env, v)} \X Below[p])]
MoveOut(env, v, p)   == [env EXCEPT !.moved = @ \cup {<<Lookup(env, v), p>>}]

-----------------------------------------------------------------------------
(* The checker.  A result is the environment after a statement, whether    *)
(* the statement leaves its block, whether an error was reported, the      *)
(* environments at the breaks and continues of the innermost loop, and the *)
(* assignments that were marked reowns_field.                              *)

Result(env, left, err) ==
  [env |-> env, left |-> left, err |-> err, brk |-> {}, cont |-> {}, reowns |-> {}]

(* save_states: name by name, the outer scope's entry over the inner one's. *)
SaveStates(env) ==
  [v \in {b[2] : b \in env.vars} |->
     Out(env, <<CHOOSE d \in Depths(env, v) : \A e \in Depths(env, v) : d <= e, v>>)]

(* restore_states: name by name, into the innermost scope's entry. *)
RestoreStates(env, states) ==
  [env EXCEPT !.moved = {m \in env.vars \X Places :
     LET b == m[1] IN
     IF b[2] \in DOMAIN states /\ b = Lookup(env, b[2]) THEN m[2] \in states[b[2]] ELSE m \in @}]

(* The end of an if/else neither branch of which leaves: moved if moved in *)
(* either.                                                                 *)
MergeStates(env, then, else) ==
  [env EXCEPT !.moved = {m \in env.vars \X Places :
     LET b == m[1] IN
     IF b[2] \in DOMAIN then /\ b = Lookup(env, b[2])
     THEN m[2] \in then[b[2]] \cup else[b[2]] \/ (m[2] = <<>> /\ m \in @)
     ELSE m \in @}]

(* _join, binding by binding: moved if moved on any of the paths. *)
Join(head, paths) ==
  [head EXCEPT !.moved = @ \cup {m \in UNION {p.moved : p \in paths} : m[1] \in head.vars}]

Place(s, env) ==
  CASE s.op = "use" -> Result(env, FALSE, Gone(env, s.v, s.p))
    [] s.op = "eat" -> IF Gone(env, s.v, s.p)
                       THEN Result(env, FALSE, TRUE)
                       ELSE Result(MoveOut(env, s.v, s.p), FALSE, FALSE)
    [] s.op = "set" -> IF Within(env, s.v, s.p)
                       THEN Result(env, FALSE, TRUE)
                       ELSE [Result(Reown(env, s.v, s.p), FALSE, FALSE) EXCEPT
                               !.reowns = {i \in {s.id} : s.p # <<>> /\ GivesBack(env, s.v, s.p)}]

(* A result, and then that of what follows it. *)
Then(r, t) ==
  [t EXCEPT !.err = @ \/ r.err, !.brk = @ \cup r.brk, !.cont = @ \cup r.cont,
            !.reowns = @ \cup r.reowns]

(* The results of the first statements of a block.  What follows a         *)
(* statement that leaves is not looked at.  check is the function for the  *)
(* statements of the block.                                                *)
Follow(check, s, r) == IF r.left THEN r ELSE Then(r, check[s][r.env])
After(check, b, env) ==
  LET after[i \in 0..Len(b)] ==
        IF i = 0 THEN Result(env, FALSE, FALSE) ELSE Follow(check, b[i], after[i - 1])
  IN  after

(* _check_block *)
Block(check, b, env) == After(check, b, env)[Len(b)]

(* A block in a scope of its own. *)
Scoped(check, b, env) ==
  LET r == Block(check, b, PushScope(env))
  IN  [r EXCEPT !.env  = PopScope(@, env),
                !.brk  = {PopScope(e, env) : e \in @},
                !.cont = {PopScope(e, env) : e \in @}]

(* Results of several blocks as one, which goes on with env. *)
Together(rs, env) ==
  [env |-> env, left |-> FALSE, err |-> \E r \in rs : r.err,
   brk |-> UNION {r.brk : r \in rs}, cont |-> UNION {r.cont : r \in rs},
   reowns |-> UNION {r.reowns : r \in rs}]

(* rast.If without an else. *)
IfThen(check, s, env) ==
  LET then == Scoped(check, s.blocks[1], env)
  IN  Together({then}, IF then.left THEN RestoreStates(then.env, SaveStates(env))
                       ELSE then.env)

IfElse(check, s, env) ==
  LET then  == Scoped(check, s.blocks[1], env)
      after == SaveStates(then.env)
      else  == Scoped(check, s.blocks[2], RestoreStates(then.env, SaveStates(env)))
  IN  Together({then, else},
        IF then.left THEN else.env
        ELSE IF else.left THEN RestoreStates(else.env, after)
        ELSE MergeStates(else.env, after, SaveStates(else.env)))

(* Mutant: an arm begins where the arm before it ended. *)
MatchInARow(check, s, env) ==
  LET first == Scoped(check, s.blocks[1], env)
      rs == {Scoped(check, s.blocks[i], IF i = 1 THEN env ELSE first.env) : i \in DOMAIN s.blocks}
      outs == {r.env : r \in {r \in rs : ~r.left}}
  IN  Together(rs, IF outs = {} THEN env ELSE Join(env, outs))

(* rast.Match: every arm begins where the match does; the arms that fall   *)
(* through meet.  (Every arm leaves: the state of the last one is kept,    *)
(* for code that is dead.)                                                 *)
Match(check, s, env) ==
  LET rs   == {Scoped(check, s.blocks[i], env) : i \in DOMAIN s.blocks}
      outs == {r.env : r \in {r \in rs : ~r.left}}
  IN  Together(rs, IF outs = {} THEN Scoped(check, Last(s.blocks), env).env
                   ELSE Join(CHOOSE e \in outs : TRUE, outs))

(* One pass over the body of a loop, from the state at its head. *)
Pass(check, body, head) ==
  LET r == Scoped(check, body, head)
  IN  [head |-> head, r |-> r,
       next |-> Join(head, r.cont \cup (IF r.left THEN {} ELSE {r.env}))]

(* Once more, from the merged head, if the pass added moves to it. *)
Again(check, body, p) ==
  LET q == Pass(check, body, p.next)
  IN  IF p.next = p.head THEN p
      ELSE [q EXCEPT !.r.err = @ \/ p.r.err, !.r.reowns = @ \cup p.r.reowns]

(* After the last pass: its head and its breaks meet. *)
LoopEnd(pass) ==
  [pass.r EXCEPT !.env = Join(pass.next, pass.r.brk), !.left = FALSE, !.brk = {}, !.cont = {}]

(* Mutant: a loop body is checked once. *)
LoopOnce(check, s, env) == LoopEnd(Pass(check, s.blocks[1], env))

(* _check_loop: at most eight passes. *)
Passes(check, body, env) ==
  LET pass[n \in 1..8] ==
        IF n = 1 THEN Pass(check, body, env) ELSE Again(check, body, pass[n - 1])
  IN  pass

Loop(check, s, env) == LoopEnd(Passes(check, s.blocks[1], env)[8])

(* _check_stmt; check is the function for the statements within. *)
Stmt(check, s, env) ==
  CASE s.op \in PlaceOps   -> Place(s, env)
    [] s.op = "let"        -> Result(Define(env, s.v), FALSE, FALSE)
    [] s.op = "return"     -> Result(env, TRUE, FALSE)
    [] s.op = "break"      -> [Result(env, TRUE, FALSE) EXCEPT !.brk = {env}]
    [] s.op = "continue"   -> [Result(env, TRUE, FALSE) EXCEPT !.cont = {env}]
    [] s.op = "if"         -> IfThen(check, s, env)
    [] s.op = "ifelse"     -> IfElse(check, s, env)
    [] s.op = "match"      -> Match(check, s, env)
    [] s.op = "while"      -> Loop(check, s, env)

Check[d \in 0..MaxSize] == [s \in Stmts[d] |-> [env \in Envs |-> Stmt(IF d = 0 THEN <<>> ELSE Check[d - 1], s, env)]]

(* _check_fn *)
Entry == [depth |-> 1, vars |-> {<<1, Param>>}, moved |-> {}]
Accepted(body) == ~Block(Check[MaxSize], body, Entry).err

(* The assignments to fields that the emitter finds marked reowns_field. *)
Reowning(body) == Block(Check[MaxSize], body, Entry).reowns

-----------------------------------------------------------------------------
(* What programs do.  An outcome of a statement is how it was left ("bad": *)
(* it used a moved value) and the environment then.                        *)

Outcome(how, env) == [how |-> how, env |-> env]

RunPlace(s, env) ==
  CASE s.op = "use" -> Outcome(IF Gone(env, s.v, s.p) THEN "bad" ELSE "next", env)
    [] s.op = "eat" -> IF Gone(env, s.v, s.p) THEN Outcome("bad", env)
                       ELSE Outcome("next", MoveOut(env, s.v, s.p))
    [] s.op = "set" -> IF Within(env, s.v, s.p) THEN Outcome("bad", env)
                       ELSE Outcome("next", Reown(env, s.v, s.p))

RunFollow(run, s, os) == UNION {IF o.how = "next" THEN run[s][o.env] ELSE {o} : o \in os}
RunAfter(run, b, env) ==
  LET after[i \in 0..Len(b)] ==
        IF i = 0 THEN {Outcome("next", env)} ELSE RunFollow(run, b[i], after[i - 1])
  IN  after
RunBlock(run, b, env) == RunAfter(run, b, env)[Len(b)]

RunScoped(run, b, env) ==
  {[o EXCEPT !.env = PopScope(@, env)] : o \in RunBlock(run, b, PushScope(env))}

(* The environments in which a loop's condition is evaluated: at first,    *)
(* and then once more.                                                     *)
Turn(run, body, heads) ==
  heads \cup {o.env : o \in {o \in UNION {RunScoped(run, body, e) : e \in heads} :
                              o.how \in {"next", "continue"}}}
Turns(run, body, env) ==
  LET turn[n \in 0..MaxTurns] == IF n = 0 THEN {env} ELSE Turn(run, body, turn[n - 1])
  IN  turn

RunLoop(run, body, env) ==
  LET heads == Turns(run, body, env)[MaxTurns]
      ends  == UNION {RunScoped(run, body, e) : e \in heads}
  IN  {Outcome("next", e) : e \in heads}
      \cup {Outcome("next", o.env) : o \in {o \in ends : o.how = "break"}}
      \cup {o \in ends : o.how \in {"return", "bad"}}

RunStmt(run, s, env) ==
  CASE s.op \in PlaceOps   -> {RunPlace(s, env)}
    [] s.op = "let"        -> {Outcome("next", Define(env, s.v))}
    [] s.op \in Exits      -> {Outcome(s.op, env)}
    [] s.op = "if"         -> {Outcome("next", env)} \cup RunScoped(run, s.blocks[1], env)
    [] s.op \in Branching  -> UNION {RunScoped(run, s.blocks[i], env) : i \in DOMAIN s.blocks}
    [] s.op = "while"      -> RunLoop(run, s.blocks[1], env)

Run[d \in 0..MaxSize] == [s \in Stmts[d] |-> [env \in Envs |-> RunStmt(IF d = 0 THEN <<>> ELSE Run[d - 1], s, env)]]

UsesMoved(body) == \E o \in RunBlock(Run[MaxSize], body, Entry) : o.how = "bad"

-----------------------------------------------------------------------------
(* How programs are written.  open is the chain of statements that are     *)
(* being written, each with its blocks so far; the first is the function.  *)

VARIABLES
  open, size,
  accepted    \* the checker's verdict, once the program is complete
vars == <<open, size, accepted>>

Frame(op) == [op |-> op, blocks |-> <<<<>>>>]

Init == open = <<Frame("fn")>> /\ size = 0 /\ accepted = TRUE

Complete == Len(open) = 1
Body     == open[1].blocks[1]
Ops      == {f.op : f \in ToSet(open)}

(* Nothing runs after a statement that always leaves. *)
Leaves(b) ==
  /\ b # <<>>
  /\ \/ Last(b).op \in Exits
     \/ Last(b).op \in Branching /\ Last(b).leaves

Current == Last(Last(open).blocks)
AddTo(chain, s) ==
  LET n == Len(chain) IN
  [chain EXCEPT ![n].blocks[Len(chain[n].blocks)] = Append(@, s)]

(* The statement that is being written, as it stands. *)
Written(f) ==
  [op |-> f.op, blocks |-> f.blocks, leaves |-> \A b \in ToSet(f.blocks) : Leaves(b)]

(* Bindings in scope at the end of the current block. *)
Declared(b) == {s.v : s \in {s \in ToSet(b) : s.op = "let"}}
InScope == {Param} \cup UNION {Declared(Last(f.blocks)) : f \in ToSet(open)}

Grow(chain) ==
  /\ open' = chain
  /\ accepted' = (Len(open') = 1 /\ Accepted(open'[1].blocks[1]))

Write(s) ==
  /\ size < MaxSize /\ ~Leaves(Current)
  /\ Grow(AddTo(open, s))
  /\ size' = size + 1

WritePlace ==
  \E v \in InScope, p \in Places, op \in PlaceOps :
    /\ op = "set" => LoneReowns \/ "if" \notin Ops
    /\ Write([op |-> op, v |-> v, p |-> p, id |-> size])

(* In the function's own block a declaration would be one more parameter. *)
WriteLet ==
  \E v \in Names :
    /\ Len(open) > 1
    /\ Shadowing \/ v \notin InScope
    /\ Write([op |-> "let", v |-> v])
WriteExit ==
  \E op \in Exits :
    /\ op # "return" => "while" \in Ops
    /\ Write([op |-> op])
Begin ==
  \E op \in {"if", "while"} \cup Branching :
    /\ size < MaxSize - 1 /\ ~Leaves(Current)
    /\ Grow(Append(open, Frame(op)))
    /\ size' = size + 1
NextBlock ==
  /\ Last(open).op \in Branching /\ Len(Last(open).blocks) = 1
  /\ Current # <<>> /\ size < MaxSize
  /\ Grow([open EXCEPT ![Len(open)].blocks = Append(@, <<>>)])
  /\ UNCHANGED size
End ==
  /\ Len(open) > 1 /\ Current # <<>>
  /\ Last(open).op = "ifelse" => Len(Last(open).blocks) = 2
  /\ AllLeave \/ ~Leaves(<<Written(Last(open))>>)
  /\ Grow(AddTo(Front(open), Written(Last(open))))
  /\ UNCHANGED size

Next == WritePlace \/ WriteLet \/ WriteExit \/ Begin \/ NextBlock \/ End

Spec == Init /\ [][Next]_vars

-----------------------------------------------------------------------------
(* Properties.                                                             *)

(* move_checker.py:264, "Use-after-move: Cannot use a variable after       *)
(* moving it": no path of an accepted program uses a moved value.          *)
Sound == Complete /\ accepted => ~UsesMoved(Body)

(* Where nothing is dead, a rejected program has a path that uses a moved  *)
(* value: the merges at the ends of branches, matches and loops take       *)
(* nothing for moved that no path moves there.                             *)
Precise == Complete /\ ~accepted => UsesMoved(Body)

=============================================================================
