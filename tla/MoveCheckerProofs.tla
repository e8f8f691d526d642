---------------------------- MODULE MoveCheckerProofs ----------------------------
(***************************************************************************)
(* Why the move checker (projects/ritz/ritz0/move_checker.py) accepts a    *)
(* program only if no path of it uses a moved value, and rejects one only  *)
(* if some path does, for any names, places and sizes of programs.         *)
(*                                                                         *)
(* A statement, or a block, means a function from environments to results  *)
(* for the checker, and one from environments to sets of outcomes for the  *)
(* runs.  Judged says how the two agree:                                   *)
(*                                                                         *)
(*   Foreseen   the checker reported nothing from an environment: no run   *)
(*              from there, or from where less is moved, goes wrong, and   *)
(*              what the runs move the checker has moved;                  *)
(*   Witnessed  what the checker claims of an environment, some run does   *)
(*              from one of those whose moves it is the union of;          *)
(*   Steady     where less is moved the checker reports no more, and what  *)
(*              it then moves more is what was moved more to begin with.   *)
(*                                                                         *)
(* There is one lemma for each construct: one statement after another, a   *)
(* scope, the operations on places, a declaration, an exit, branches that  *)
(* meet, a loop.  Steady is what makes a loop settle: the second pass adds *)
(* to the head only what the first one had added already, so that eight    *)
(* passes are as good as any number.                                       *)
(*                                                                         *)
(* The invariant of the specification is that each block of each statement *)
(* that is being written is judged (Understood); the last step of a        *)
(* program's writing leaves the one block that is its body.                *)
(***************************************************************************)
EXTENDS MoveChecker, FiniteSetTheorems, WellFoundedInduction, TLAPS

-----------------------------------------------------------------------------
(* The functions that the model defines by recursion satisfy their         *)
(* equations.                                                              *)

(* A set of numbers has a least element. The functions below are defined   *)
(* with CHOOSE, so that each needs a proof that a function with its        *)
(* equation exists; if there were none up to some bound, there would be a  *)
(* least such bound.                                                       *)
LEMMA LeastNat ==
  ASSUME NEW S \in SUBSET Nat, S # {}
  PROVE  \E n \in S : \A k \in S : n <= k
<1>1. PICK t \in S : TRUE
  OBVIOUS
<1> DEFINE U == 0 .. t
           F == {u \in SUBSET U : \E n \in S : n <= t /\ u = 0 .. n}
<1>2. IsWellFoundedOn(StrictSubsetOrdering(U), SUBSET U)
  <2>1. IsFiniteSet(U)
    BY FS_Interval
  <2> QED BY <2>1, FS_StrictSubsetOrderingWellFounded, FS_FiniteSubsetsOfFinite
<1>3. F # {} /\ F \subseteq SUBSET U
  <2>1. U \in F
    BY <1>1
  <2> QED BY <2>1
<1>4. \E u \in F : \A w \in F : ~(<<w, u>> \in StrictSubsetOrdering(U))
  <2> HIDE DEF F, U
  <2> QED BY <1>2, <1>3, WFMin
<1>5. PICK n \in S : /\ n <= t /\ 0 .. n \in F
                     /\ \A w \in F : ~(<<w, 0 .. n>> \in StrictSubsetOrdering(U))
  BY <1>4
<1>6. ASSUME NEW k \in S, k < n
      PROVE  FALSE
  <2>1. 0 .. k \in F
    BY <1>5, <1>6
  <2>2. 0 .. k \in SUBSET U /\ 0 .. n \in SUBSET U
    BY <1>5, <1>6
  <2>3. 0 .. k \subseteq 0 .. n /\ n \in 0 .. n /\ n \notin 0 .. k
    BY <1>5, <1>6
  <2> QED BY <1>5, <2>1, <2>2, <2>3 DEF StrictSubsetOrdering
<1> QED BY <1>5, <1>6

(* The bounds are numbers. *)
LEMMA Bounds == MaxSize \in Nat /\ MaxTurns \in Nat
BY CheckerAssumption

(* The result at the beginning of a block. *)
Fresh(env) == Result(env, FALSE, FALSE)

(* What the checker has after the first i statements of a block. *)
LEMMA AfterWalk ==
  ASSUME NEW check, NEW b, NEW env, Len(b) \in Nat
  PROVE  After(check, b, env) =
           [i \in 0..Len(b) |->
              IF i = 0 THEN Fresh(env)
              ELSE Follow(check, b[i], After(check, b, env)[i - 1])]
<1> DEFINE Base == Fresh(env)
           Step(i, x) == Follow(check, b[i], x)
           Fits(g, n) == g = [i \in 0..n |-> IF i = 0 THEN Base ELSE Step(i, g[i - 1])]
           Bad == {n \in Nat : n >= 0 /\ ~ \E g : Fits(g, n)}
<1>1. Bad = {}
  <2> SUFFICES ASSUME Bad # {} PROVE FALSE OBVIOUS
  <2>1. PICK n \in Bad : \A k \in Bad : n <= k
    BY LeastNat
  <2>2. CASE n = 0
    <3> Fits([i \in 0..0 |-> Base], 0)  OBVIOUS
    <3> QED BY <2>1, <2>2
  <2>3. CASE n # 0
    <3>1. n - 1 \in Nat /\ n - 1 >= 0 /\ n - 1 \notin Bad
      <4> HIDE DEF Fits
      <4> QED BY <2>1, <2>3
    <3>2. PICK g : Fits(g, n - 1)
      BY <3>1
    <3>3. Fits([i \in 0..n |-> IF i = n THEN Step(n, g[n - 1]) ELSE g[i]], n)
      <4> HIDE DEF Step, Base
      <4> QED BY <2>3, <3>1, <3>2
    <3> QED BY <2>1, <3>3
  <2> QED BY <2>2, <2>3
<1>2. \E g : Fits(g, Len(b))
  <2> HIDE DEF Fits
  <2> QED BY <1>1
<1>3. QED
  BY <1>2 DEF After, Fresh

(* The same of the runs. *)
LEMMA RunAfterWalk ==
  ASSUME NEW run, NEW b, NEW env, Len(b) \in Nat
  PROVE  RunAfter(run, b, env) =
           [i \in 0..Len(b) |->
              IF i = 0 THEN {Outcome("next", env)}
              ELSE RunFollow(run, b[i], RunAfter(run, b, env)[i - 1])]
<1> DEFINE Base == {Outcome("next", env)}
           Step(i, x) == RunFollow(run, b[i], x)
           Fits(g, n) == g = [i \in 0..n |-> IF i = 0 THEN Base ELSE Step(i, g[i - 1])]
           Bad == {n \in Nat : n >= 0 /\ ~ \E g : Fits(g, n)}
<1>1. Bad = {}
  <2> SUFFICES ASSUME Bad # {} PROVE FALSE OBVIOUS
  <2>1. PICK n \in Bad : \A k \in Bad : n <= k
    BY LeastNat
  <2>2. CASE n = 0
    <3> Fits([i \in 0..0 |-> Base], 0)  OBVIOUS
    <3> QED BY <2>1, <2>2
  <2>3. CASE n # 0
    <3>1. n - 1 \in Nat /\ n - 1 >= 0 /\ n - 1 \notin Bad
      <4> HIDE DEF Fits
      <4> QED BY <2>1, <2>3
    <3>2. PICK g : Fits(g, n - 1)
      BY <3>1
    <3>3. Fits([i \in 0..n |-> IF i = n THEN Step(n, g[n - 1]) ELSE g[i]], n)
      <4> HIDE DEF Step, Base
      <4> QED BY <2>3, <3>1, <3>2
    <3> QED BY <2>1, <3>3
  <2> QED BY <2>2, <2>3
<1>2. \E g : Fits(g, Len(b))
  <2> HIDE DEF Fits
  <2> QED BY <1>1
<1>3. QED
  BY <1>2 DEF RunAfter

(* The environments at the head of a loop after i turns. *)
LEMMA TurnsOfLoop ==
  ASSUME NEW run, NEW body, NEW env
  PROVE  Turns(run, body, env) =
           [i \in 0..MaxTurns |->
              IF i = 0 THEN {env}
              ELSE Turn(run, body, Turns(run, body, env)[i - 1])]
<1> DEFINE Base == {env}
           Step(i, x) == Turn(run, body, x)
           Fits(g, n) == g = [i \in 0..n |-> IF i = 0 THEN Base ELSE Step(i, g[i - 1])]
           Bad == {n \in Nat : n >= 0 /\ ~ \E g : Fits(g, n)}
<1>1. Bad = {}
  <2> SUFFICES ASSUME Bad # {} PROVE FALSE OBVIOUS
  <2>1. PICK n \in Bad : \A k \in Bad : n <= k
    BY LeastNat
  <2>2. CASE n = 0
    <3> Fits([i \in 0..0 |-> Base], 0)  OBVIOUS
    <3> QED BY <2>1, <2>2
  <2>3. CASE n # 0
    <3>1. n - 1 \in Nat /\ n - 1 >= 0 /\ n - 1 \notin Bad
      <4> HIDE DEF Fits
      <4> QED BY <2>1, <2>3
    <3>2. PICK g : Fits(g, n - 1)
      BY <3>1
    <3>3. Fits([i \in 0..n |-> IF i = n THEN Step(n, g[n - 1]) ELSE g[i]], n)
      <4> HIDE DEF Step, Base
      <4> QED BY <2>3, <3>1, <3>2
    <3> QED BY <2>1, <3>3
  <2> QED BY <2>2, <2>3
<1>2. \E g : Fits(g, MaxTurns)
  <2> HIDE DEF Fits
  <2> QED BY <1>1, Bounds
<1>3. QED
  BY <1>2 DEF Turns

(* The passes of the checker over the body of a loop. *)
LEMMA PassesOfLoop ==
  ASSUME NEW check, NEW body, NEW env
  PROVE  Passes(check, body, env) =
           [i \in 1..8 |->
              IF i = 1 THEN Pass(check, body, env)
              ELSE Again(check, body, Passes(check, body, env)[i - 1])]
<1> DEFINE Base == Pass(check, body, env)
           Step(i, x) == Again(check, body, x)
           Fits(g, n) == g = [i \in 1..n |-> IF i = 1 THEN Base ELSE Step(i, g[i - 1])]
           Bad == {n \in Nat : n >= 1 /\ ~ \E g : Fits(g, n)}
<1>1. Bad = {}
  <2> SUFFICES ASSUME Bad # {} PROVE FALSE OBVIOUS
  <2>1. PICK n \in Bad : \A k \in Bad : n <= k
    BY LeastNat
  <2>2. CASE n = 1
    <3> Fits([i \in 1..1 |-> Base], 1)  OBVIOUS
    <3> QED BY <2>1, <2>2
  <2>3. CASE n # 1
    <3>1. n - 1 \in Nat /\ n - 1 >= 1 /\ n - 1 \notin Bad
      <4> HIDE DEF Fits
      <4> QED BY <2>1, <2>3
    <3>2. PICK g : Fits(g, n - 1)
      BY <3>1
    <3>3. Fits([i \in 1..n |-> IF i = n THEN Step(n, g[n - 1]) ELSE g[i]], n)
      <4> HIDE DEF Step, Base
      <4> QED BY <2>3, <3>1, <3>2
    <3> QED BY <2>1, <3>3
  <2> QED BY <2>2, <2>3
<1>2. \E g : Fits(g, 8)
  <2> HIDE DEF Fits
  <2> QED BY <1>1
<1>3. QED
  BY <1>2 DEF Passes

(* Statements, by how deep they nest. *)
LEMMA StmtsByDepth ==
  Stmts = [i \in 0..MaxSize |->
             IF i = 0 THEN Simple ELSE Simple \cup Compound(Stmts[i - 1])]
<1> DEFINE Base == Simple
           Step(i, x) == Simple \cup Compound(x)
           Fits(g, n) == g = [i \in 0..n |-> IF i = 0 THEN Base ELSE Step(i, g[i - 1])]
           Bad == {n \in Nat : n >= 0 /\ ~ \E g : Fits(g, n)}
<1>1. Bad = {}
  <2> SUFFICES ASSUME Bad # {} PROVE FALSE OBVIOUS
  <2>1. PICK n \in Bad : \A k \in Bad : n <= k
    BY LeastNat
  <2>2. CASE n = 0
    <3> Fits([i \in 0..0 |-> Base], 0)  OBVIOUS
    <3> QED BY <2>1, <2>2
  <2>3. CASE n # 0
    <3>1. n - 1 \in Nat /\ n - 1 >= 0 /\ n - 1 \notin Bad
      <4> HIDE DEF Fits
      <4> QED BY <2>1, <2>3
    <3>2. PICK g : Fits(g, n - 1)
      BY <3>1
    <3>3. Fits([i \in 0..n |-> IF i = n THEN Step(n, g[n - 1]) ELSE g[i]], n)
      <4> HIDE DEF Step, Base
      <4> QED BY <2>3, <3>1, <3>2
    <3> QED BY <2>1, <3>3
  <2> QED BY <2>2, <2>3
<1>2. \E g : Fits(g, MaxSize)
  <2> HIDE DEF Fits
  <2> QED BY <1>1, Bounds
<1>3. QED
  BY <1>2 DEF Stmts

(* The checker, by how deep the statement nests. *)
LEMMA CheckByDepth ==
  Check = [d \in 0..MaxSize |-> [s \in Stmts[d] |-> [env \in Envs |->
             Stmt(IF d = 0 THEN <<>> ELSE Check[d - 1], s, env)]]]
<1> DEFINE Step(d, x) == [s \in Stmts[d] |-> [env \in Envs |-> Stmt(x, s, env)]]
           Fits(g, n) == g = [d \in 0..n |-> Step(d, IF d = 0 THEN <<>> ELSE g[d - 1])]
           Bad == {n \in Nat : ~ \E g : Fits(g, n)}
<1>1. Bad = {}
  <2> SUFFICES ASSUME Bad # {} PROVE FALSE OBVIOUS
  <2>1. PICK n \in Bad : \A k \in Bad : n <= k
    BY LeastNat
  <2>2. CASE n = 0
    <3> Fits([d \in 0..0 |-> Step(d, <<>>)], 0)
      <4> HIDE DEF Step
      <4> QED OBVIOUS
    <3> QED BY <2>1, <2>2
  <2>3. CASE n # 0
    <3>1. n - 1 \in Nat /\ n - 1 \notin Bad
      <4> HIDE DEF Fits
      <4> QED BY <2>1, <2>3
    <3>2. PICK g : Fits(g, n - 1)
      BY <3>1
    <3>3. Fits([d \in 0..n |-> IF d = n THEN Step(n, g[n - 1]) ELSE g[d]], n)
      <4> HIDE DEF Step
      <4> QED BY <2>3, <3>1, <3>2
    <3> QED BY <2>1, <3>3
  <2> QED BY <2>2, <2>3
<1>2. \E g : Fits(g, MaxSize)
  <2> HIDE DEF Fits
  <2> QED BY <1>1, Bounds
<1>3. QED
  BY <1>2 DEF Check

(* The runs, by how deep the statement nests. *)
LEMMA RunByDepth ==
  Run = [d \in 0..MaxSize |-> [s \in Stmts[d] |-> [env \in Envs |->
             RunStmt(IF d = 0 THEN <<>> ELSE Run[d - 1], s, env)]]]
<1> DEFINE Step(d, x) == [s \in Stmts[d] |-> [env \in Envs |-> RunStmt(x, s, env)]]
           Fits(g, n) == g = [d \in 0..n |-> Step(d, IF d = 0 THEN <<>> ELSE g[d - 1])]
           Bad == {n \in Nat : ~ \E g : Fits(g, n)}
<1>1. Bad = {}
  <2> SUFFICES ASSUME Bad # {} PROVE FALSE OBVIOUS
  <2>1. PICK n \in Bad : \A k \in Bad : n <= k
    BY LeastNat
  <2>2. CASE n = 0
    <3> Fits([d \in 0..0 |-> Step(d, <<>>)], 0)
      <4> HIDE DEF Step
      <4> QED OBVIOUS
    <3> QED BY <2>1, <2>2
  <2>3. CASE n # 0
    <3>1. n - 1 \in Nat /\ n - 1 \notin Bad
      <4> HIDE DEF Fits
      <4> QED BY <2>1, <2>3
    <3>2. PICK g : Fits(g, n - 1)
      BY <3>1
    <3>3. Fits([d \in 0..n |-> IF d = n THEN Step(n, g[n - 1]) ELSE g[d]], n)
      <4> HIDE DEF Step
      <4> QED BY <2>3, <3>1, <3>2
    <3> QED BY <2>1, <3>3
  <2> QED BY <2>2, <2>3
<1>2. \E g : Fits(g, MaxSize)
  <2> HIDE DEF Fits
  <2> QED BY <1>1, Bounds
<1>3. QED
  BY <1>2 DEF Run

-----------------------------------------------------------------------------
(* What is shown of a statement or a block. c is its meaning for the       *)
(* checker, k for the runs; both are applied to the environments that bind *)
(* S, and lead to those that bind T; l tells whether it leaves.            *)

(* Well-scoped environments whose names are S, each bound once. *)
EnvsOf(S) ==
  {e \in Envs :
     /\ \A v \in S : \E b \in e.vars : b[2] = v
     /\ \A b \in e.vars : b[1] \in 1..e.depth /\ b[2] \in S
     /\ \A b, c \in e.vars : b[2] = c[2] => b = c
     /\ \A m \in e.moved : m[1] \in e.vars}

(* e and f have the same scopes; e has, besides, no more moved than f. *)
Same(e, f) == e.depth = f.depth /\ e.vars = f.vars
Leq(e, f)  == Same(e, f) /\ e.moved \subseteq f.moved

(* What is moved in one of several environments. *)
MovedIn(E) == UNION {e.moved : e \in E}

(* The results of the checker and the outcomes of runs. *)
Results == [env : Envs, left : BOOLEAN, err : BOOLEAN, brk : SUBSET Envs,
            cont : SUBSET Envs, reowns : SUBSET Nat]
Outcomes == [how : {"next", "bad"} \cup Exits, env : Envs]

(* The outcomes from several environments; where they left in one way. *)
Runs(k, E)    == UNION {k[e] : e \in E}
Ends(os, how) == {o.env : o \in {o \in os : o.how = how}}

(* Results and outcomes have the form that their l, S and T promise, and   *)
(* the scopes after them are a matter of the scopes before.                *)
Shaped(c, k, S, T, l) ==
  \A e \in EnvsOf(S) :
    /\ c[e] \in Results /\ c[e].left = l
    /\ ~l => c[e].env \in EnvsOf(T)
    /\ k[e] \subseteq Outcomes
    /\ \A o \in k[e] : o.how = "next" => ~l /\ o.env \in EnvsOf(T) /\ Same(o.env, c[e].env)
    /\ \A f \in EnvsOf(S) : Same(e, f) => Same(c[e].env, c[f].env)

(* B is A with nothing more than what f has more than e. *)
Gains(A, B, e, f) == A \subseteq B /\ B \subseteq A \cup (f.moved \ e.moved)

(* From less the checker reports no more, and gains no less than what the  *)
(* environment had less.                                                   *)
Steady(c, S) ==
  \A e, f \in EnvsOf(S) : Leq(e, f) /\ ~c[f].err =>
    /\ ~c[e].err
    /\ Gains(c[e].env.moved, c[f].env.moved, e, f)
    /\ Gains(MovedIn(c[e].brk), MovedIn(c[f].brk), e, f)
    /\ Gains(MovedIn(c[e].cont), MovedIn(c[f].cont), e, f)

(* No run from below an environment for which nothing was reported goes    *)
(* bad, and the result has moved what the outcome has.                     *)
Foreseen(c, k, S) ==
  \A e, f \in EnvsOf(S) : Leq(e, f) /\ ~c[f].err =>
    \A o \in k[e] :
      /\ o.how # "bad"
      /\ o.how = "next" => Leq(o.env, c[f].env)
      /\ o.how = "break" => o.env.moved \subseteq MovedIn(c[f].brk)
      /\ o.how = "continue" => o.env.moved \subseteq MovedIn(c[f].cont)

(* The environments E together have moved what f has. *)
Covers(E, f, S) ==
  /\ E \subseteq EnvsOf(S) /\ E # {}
  /\ \A e \in E : Same(e, f)
  /\ f.moved \subseteq MovedIn(E)

(* From such environments some run goes bad, or nothing was reported and   *)
(* all that the result has moved is moved by some run.                     *)
Witnessed(c, k, S, l) ==
  \A f \in EnvsOf(S) : \A E \in SUBSET EnvsOf(S) : Covers(E, f, S) =>
    \/ \E o \in Runs(k, E) : o.how = "bad"
    \/ /\ ~c[f].err
       /\ ~l => /\ Ends(Runs(k, E), "next") # {}
                /\ c[f].env.moved \subseteq MovedIn(Ends(Runs(k, E), "next"))
       /\ MovedIn(c[f].brk) \subseteq MovedIn(Ends(Runs(k, E), "break"))
       /\ MovedIn(c[f].cont) \subseteq MovedIn(Ends(Runs(k, E), "continue"))

(* Nothing is given back. *)
Grows(c, S) == \A e \in EnvsOf(S) : e.moved \subseteq c[e].env.moved

(* Membership in MovedIn, for the provers. *)
LEMMA InMoved == ASSUME NEW E, NEW x PROVE x \in MovedIn(E) <=> \E e \in E : x \in e.moved
BY DEF MovedIn

(* Membership in Ends, for the provers. *)
LEMMA InEnds == ASSUME NEW os, NEW how, NEW e
                PROVE e \in Ends(os, how) <=> \E o \in os : o.how = how /\ e = o.env
BY DEF Ends

(* There is an end when there is an outcome. *)
LEMMA SomeEnd == ASSUME NEW os, NEW how
                 PROVE Ends(os, how) # {} <=> \E o \in os : o.how = how
BY DEF Ends

(* Membership in Runs, for the provers. *)
LEMMA InRuns == ASSUME NEW k, NEW E, NEW o PROVE o \in Runs(k, E) <=> \E e \in E : o \in k[e]
BY DEF Runs

(* The fields of a result and another that follows it. *)
LEMMA ThenFields ==
  ASSUME NEW r \in Results, NEW t \in Results
  PROVE  /\ Then(r, t) \in Results
         /\ Then(r, t).env = t.env /\ Then(r, t).left = t.left
         /\ (Then(r, t).err <=> t.err \/ r.err)
         /\ Then(r, t).brk = t.brk \cup r.brk
         /\ Then(r, t).cont = t.cont \cup r.cont
BY DEF Then, Results

-----------------------------------------------------------------------------
(* One statement after others. *)

(* c3 and k3 are c2 and k2 after c and k. *)
Sequel(c, k, c2, k2, c3, k3, S) ==
  \A e \in EnvsOf(S) :
    /\ c3[e] = Then(c[e], c2[c[e].env])
    /\ k3[e] = UNION {IF o.how = "next" THEN k2[o.env] ELSE {o} : o \in k[e]}

(* The same, for two that have the right form. *)
Composed(c, k, c2, k2, c3, k3, S, T, U, l) ==
  Sequel(c, k, c2, k2, c3, k3, S) /\ Shaped(c, k, S, T, FALSE) /\ Shaped(c2, k2, T, U, l)

(* An outcome of both is one of the first that is not the end of it, or    *)
(* one of the second from such an end.                                     *)
LEMMA InSequel ==
  ASSUME NEW c, NEW k, NEW c2, NEW k2, NEW c3, NEW k3, NEW S, Sequel(c, k, c2, k2, c3, k3, S),
         NEW e \in EnvsOf(S), NEW o
  PROVE  o \in k3[e] <=> \/ o \in k[e] /\ o.how # "next"
                         \/ \E p \in k[e] : p.how = "next" /\ o \in k2[p.env]
<1>1. k3[e] = UNION {IF p.how = "next" THEN k2[p.env] ELSE {p} : p \in k[e]}
  BY DEF Sequel
<1> QED BY <1>1

(* The result of both. *)
LEMMA SequelFields ==
  ASSUME NEW c, NEW k, NEW c2, NEW k2, NEW c3, NEW k3, NEW S, NEW T, NEW U, NEW l \in BOOLEAN,
         Composed(c, k, c2, k2, c3, k3, S, T, U, l),
         NEW e \in EnvsOf(S)
  PROVE  /\ c[e] \in Results /\ c[e].env \in EnvsOf(T)
         /\ c3[e] \in Results /\ c3[e].left = l
         /\ c3[e].env = c2[c[e].env].env /\ (c3[e].err <=> c2[c[e].env].err \/ c[e].err)
         /\ MovedIn(c3[e].brk) = MovedIn(c2[c[e].env].brk) \cup MovedIn(c[e].brk)
         /\ MovedIn(c3[e].cont) = MovedIn(c2[c[e].env].cont) \cup MovedIn(c[e].cont)
<1>0. Sequel(c, k, c2, k2, c3, k3, S) /\ Shaped(c, k, S, T, FALSE) /\ Shaped(c2, k2, T, U, l)
  BY DEF Composed
<1> USE <1>0
<1>1. c[e] \in Results /\ c[e].env \in EnvsOf(T)
  BY DEF Shaped
<1>2. c2[c[e].env] \in Results /\ c2[c[e].env].left = l
  BY <1>1 DEF Shaped
<1>3. c3[e] = Then(c[e], c2[c[e].env])
  BY DEF Sequel
<1>4. /\ c3[e] \in Results /\ c3[e].left = l
      /\ c3[e].env = c2[c[e].env].env /\ (c3[e].err <=> c2[c[e].env].err \/ c[e].err)
      /\ c3[e].brk = c2[c[e].env].brk \cup c[e].brk
      /\ c3[e].cont = c2[c[e].env].cont \cup c[e].cont
  BY <1>1, <1>2, <1>3, ThenFields
<1>5. \A A, B : MovedIn(A \cup B) = MovedIn(A) \cup MovedIn(B)
  BY DEF MovedIn
<1> QED BY <1>1, <1>4, <1>5

(* Both have the right form. *)
LEMMA SequelShaped ==
  ASSUME NEW c, NEW k, NEW c2, NEW k2, NEW c3, NEW k3, NEW S, NEW T, NEW U, NEW l \in BOOLEAN,
         Composed(c, k, c2, k2, c3, k3, S, T, U, l)
  PROVE  Shaped(c3, k3, S, U, l)
<1>0. Sequel(c, k, c2, k2, c3, k3, S) /\ Shaped(c, k, S, T, FALSE) /\ Shaped(c2, k2, T, U, l)
  BY DEF Composed
<1> USE <1>0
<1> SUFFICES ASSUME NEW e \in EnvsOf(S)
             PROVE  /\ c3[e] \in Results /\ c3[e].left = l
                    /\ ~l => c3[e].env \in EnvsOf(U)
                    /\ k3[e] \subseteq Outcomes
                    /\ \A o \in k3[e] : o.how = "next" => ~l /\ o.env \in EnvsOf(U) /\ Same(o.env, c3[e].env)
                    /\ \A f \in EnvsOf(S) : Same(e, f) => Same(c3[e].env, c3[f].env)
  BY DEF Shaped
<1>1. \A f \in EnvsOf(S) :
        /\ c[f] \in Results /\ c[f].env \in EnvsOf(T) /\ c2[c[f].env] \in Results
        /\ c3[f] \in Results /\ c3[f].env = c2[c[f].env].env /\ c3[f].left = l
        /\ ~l => c3[f].env \in EnvsOf(U)
  BY ThenFields DEF Shaped, Sequel
<1>2. ASSUME NEW f \in EnvsOf(S), Same(e, f) PROVE Same(c3[e].env, c3[f].env)
  <2>1. Same(c[e].env, c[f].env)
    BY <1>2 DEF Shaped
  <2> QED BY <1>1, <2>1 DEF Shaped
<1>3. ASSUME NEW o \in k3[e]
      PROVE  o \in Outcomes /\ (o.how = "next" => ~l /\ o.env \in EnvsOf(U) /\ Same(o.env, c3[e].env))
  <2>1. CASE o \in k[e] /\ o.how # "next"
    BY <2>1 DEF Shaped
  <2>2. ASSUME NEW p \in k[e], p.how = "next", o \in k2[p.env] PROVE <1>3!2
    <3>1. p.env \in EnvsOf(T) /\ Same(p.env, c[e].env)
      BY <2>2 DEF Shaped
    <3>2. o \in Outcomes
      BY <2>2, <3>1 DEF Shaped
    <3>3. ASSUME o.how = "next" PROVE ~l /\ o.env \in EnvsOf(U) /\ Same(o.env, c2[p.env].env)
      BY <2>2, <3>1, <3>3 DEF Shaped
    <3>4. Same(c2[p.env].env, c2[c[e].env].env)
      BY <1>1, <3>1 DEF Shaped
    <3> QED BY <1>1, <3>2, <3>3, <3>4 DEF Same
  <2> QED BY <2>1, <2>2, <1>3, InSequel
<1> QED BY <1>1, <1>2, <1>3

(* What is gained by both adds up. *)
LEMMA GainsTogether ==
  ASSUME NEW A, NEW B, NEW A2, NEW B2, NEW e, NEW f, NEW x, NEW y,
         Gains(A, B, e, f), Gains(x.moved, y.moved, e, f), Gains(A2, B2, x, y)
  PROVE  Gains(A2 \cup A, B2 \cup B, e, f)
BY DEF Gains

(* Both are steady. *)
LEMMA SequelSteady ==
  ASSUME NEW c, NEW k, NEW c2, NEW k2, NEW c3, NEW k3, NEW S, NEW T, NEW U, NEW l \in BOOLEAN,
         Composed(c, k, c2, k2, c3, k3, S, T, U, l),
         Steady(c, S), Steady(c2, T)
  PROVE  Steady(c3, S)
<1>0. Sequel(c, k, c2, k2, c3, k3, S) /\ Shaped(c, k, S, T, FALSE) /\ Shaped(c2, k2, T, U, l)
  BY DEF Composed
<1> USE <1>0
<1> SUFFICES ASSUME NEW e \in EnvsOf(S), NEW f \in EnvsOf(S), Leq(e, f), ~c3[f].err
             PROVE  /\ ~c3[e].err
                    /\ Gains(c3[e].env.moved, c3[f].env.moved, e, f)
                    /\ Gains(MovedIn(c3[e].brk), MovedIn(c3[f].brk), e, f)
                    /\ Gains(MovedIn(c3[e].cont), MovedIn(c3[f].cont), e, f)
  BY DEF Steady
<1> DEFINE x == c[e].env
           y == c[f].env
<1>1. ASSUME NEW g \in EnvsOf(S)
      PROVE  /\ c3[g].env = c2[c[g].env].env /\ (c3[g].err <=> c2[c[g].env].err \/ c[g].err)
             /\ MovedIn(c3[g].brk) = MovedIn(c2[c[g].env].brk) \cup MovedIn(c[g].brk)
             /\ MovedIn(c3[g].cont) = MovedIn(c2[c[g].env].cont) \cup MovedIn(c[g].cont)
  BY SequelFields
<1>2. x \in EnvsOf(T) /\ y \in EnvsOf(T) /\ Same(x, y)
  BY DEF Shaped, Leq
<1>3. ~c[f].err /\ ~c2[y].err
  BY <1>1
<1>4. /\ ~c[e].err /\ Gains(x.moved, y.moved, e, f)
      /\ Gains(MovedIn(c[e].brk), MovedIn(c[f].brk), e, f)
      /\ Gains(MovedIn(c[e].cont), MovedIn(c[f].cont), e, f)
  BY <1>3 DEF Steady
<1>5. Leq(x, y)
  BY <1>2, <1>4 DEF Leq, Gains
<1>6. /\ ~c2[x].err /\ Gains(c2[x].env.moved, c2[y].env.moved, x, y)
      /\ Gains(MovedIn(c2[x].brk), MovedIn(c2[y].brk), x, y)
      /\ Gains(MovedIn(c2[x].cont), MovedIn(c2[y].cont), x, y)
  BY <1>2, <1>3, <1>5 DEF Steady
<1>8. Gains(c3[e].env.moved, c3[f].env.moved, e, f)
  BY <1>1, <1>4, <1>6 DEF Gains
<1>9. Gains(MovedIn(c3[e].brk), MovedIn(c3[f].brk), e, f)
  <2>1. Gains(MovedIn(c2[x].brk) \cup MovedIn(c[e].brk), MovedIn(c2[y].brk) \cup MovedIn(c[f].brk), e, f)
    BY <1>4, <1>6, GainsTogether
  <2> QED BY <1>1, <2>1
<1>10. Gains(MovedIn(c3[e].cont), MovedIn(c3[f].cont), e, f)
  <2>1. Gains(MovedIn(c2[x].cont) \cup MovedIn(c[e].cont), MovedIn(c2[y].cont) \cup MovedIn(c[f].cont), e, f)
    BY <1>4, <1>6, GainsTogether
  <2> QED BY <1>1, <2>1
<1> QED BY <1>1, <1>4, <1>6, <1>8, <1>9, <1>10

(* What both do is foreseen. *)
LEMMA SequelForeseen ==
  ASSUME NEW c, NEW k, NEW c2, NEW k2, NEW c3, NEW k3, NEW S, NEW T, NEW U, NEW l \in BOOLEAN,
         Composed(c, k, c2, k2, c3, k3, S, T, U, l),
         Foreseen(c, k, S), Foreseen(c2, k2, T)
  PROVE  Foreseen(c3, k3, S)
<1>0. Sequel(c, k, c2, k2, c3, k3, S) /\ Shaped(c, k, S, T, FALSE) /\ Shaped(c2, k2, T, U, l)
  BY DEF Composed
<1> USE <1>0
<1> SUFFICES ASSUME NEW e \in EnvsOf(S), NEW f \in EnvsOf(S), Leq(e, f), ~c3[f].err,
                    NEW o \in k3[e]
             PROVE  /\ o.how # "bad"
                    /\ o.how = "next" => Leq(o.env, c3[f].env)
                    /\ o.how = "break" => o.env.moved \subseteq MovedIn(c3[f].brk)
                    /\ o.how = "continue" => o.env.moved \subseteq MovedIn(c3[f].cont)
  BY DEF Foreseen
<1> DEFINE y == c[f].env
<1>1. c[f] \in Results /\ y \in EnvsOf(T)
  BY DEF Shaped
<1>3. /\ c3[f].env = c2[y].env /\ (c3[f].err <=> c2[y].err \/ c[f].err)
      /\ MovedIn(c3[f].brk) = MovedIn(c2[y].brk) \cup MovedIn(c[f].brk)
      /\ MovedIn(c3[f].cont) = MovedIn(c2[y].cont) \cup MovedIn(c[f].cont)
  BY SequelFields
<1>5. CASE o \in k[e] /\ o.how # "next"
  BY <1>3, <1>5 DEF Foreseen
<1>6. ASSUME NEW p \in k[e], p.how = "next", o \in k2[p.env]
      PROVE  /\ o.how # "bad"
             /\ o.how = "next" => Leq(o.env, c2[y].env)
             /\ o.how = "break" => o.env.moved \subseteq MovedIn(c2[y].brk)
             /\ o.how = "continue" => o.env.moved \subseteq MovedIn(c2[y].cont)
  <2>1. p.env \in EnvsOf(T)
    BY <1>6 DEF Shaped
  <2>2. Leq(p.env, y)
    BY <1>3, <1>6 DEF Foreseen
  <2> QED BY <1>1, <1>3, <1>6, <2>1, <2>2 DEF Foreseen
<1>7. \/ o \in k[e] /\ o.how # "next"
      \/ \E p \in k[e] : p.how = "next" /\ o \in k2[p.env]
  BY InSequel
<1> QED BY <1>3, <1>5, <1>6, <1>7

(* Each of the two is witnessed. *)
AllWitnessed(c, k, S, c2, k2, T, l) == Witnessed(c, k, S, FALSE) /\ Witnessed(c2, k2, T, l)

(* What is claimed of both is witnessed: the ends of the runs of the first *)
(* cover what the checker begins the second with.                          *)
LEMMA SequelWitnessed ==
  ASSUME NEW c, NEW k, NEW c2, NEW k2, NEW c3, NEW k3, NEW S, NEW T, NEW U, NEW l \in BOOLEAN,
         Composed(c, k, c2, k2, c3, k3, S, T, U, l),
         AllWitnessed(c, k, S, c2, k2, T, l)
  PROVE  Witnessed(c3, k3, S, l)
<1>0. Sequel(c, k, c2, k2, c3, k3, S) /\ Shaped(c, k, S, T, FALSE) /\ Shaped(c2, k2, T, U, l)
  BY DEF Composed
<1>a. Witnessed(c, k, S, FALSE) /\ Witnessed(c2, k2, T, l)
  BY DEF AllWitnessed
<1> USE <1>0, <1>a
<1> SUFFICES ASSUME NEW f \in EnvsOf(S), NEW E \in SUBSET EnvsOf(S), Covers(E, f, S),
                    ~ \E o \in Runs(k3, E) : o.how = "bad"
             PROVE  /\ ~c3[f].err
                    /\ ~l => /\ Ends(Runs(k3, E), "next") # {}
                             /\ c3[f].env.moved \subseteq MovedIn(Ends(Runs(k3, E), "next"))
                    /\ MovedIn(c3[f].brk) \subseteq MovedIn(Ends(Runs(k3, E), "break"))
                    /\ MovedIn(c3[f].cont) \subseteq MovedIn(Ends(Runs(k3, E), "continue"))
  BY DEF Witnessed
<1> DEFINE y  == c[f].env
           E2 == Ends(Runs(k, E), "next")
<1>1. c[f] \in Results /\ y \in EnvsOf(T)
  BY DEF Shaped
<1>3. /\ c3[f].env = c2[y].env /\ (c3[f].err <=> c2[y].err \/ c[f].err)
      /\ MovedIn(c3[f].brk) = MovedIn(c2[y].brk) \cup MovedIn(c[f].brk)
      /\ MovedIn(c3[f].cont) = MovedIn(c2[y].cont) \cup MovedIn(c[f].cont)
  BY SequelFields
<1>4. \A o : o \in Runs(k3, E) <=> \/ o \in Runs(k, E) /\ o.how # "next"
                                   \/ o \in Runs(k2, E2)
  <2>1. \A o : \A e \in E : o \in k3[e] <=>
           \/ o \in k[e] /\ o.how # "next"
           \/ \E p \in k[e] : p.how = "next" /\ o \in k2[p.env]
    BY InSequel
  <2> QED BY <2>1, InRuns, InEnds
<1>5. /\ ~c[f].err
      /\ E2 # {} /\ y.moved \subseteq MovedIn(E2)
      /\ MovedIn(c[f].brk) \subseteq MovedIn(Ends(Runs(k, E), "break"))
      /\ MovedIn(c[f].cont) \subseteq MovedIn(Ends(Runs(k, E), "continue"))
  <2>1. ~ \E o \in Runs(k, E) : o.how = "bad"
    BY <1>4
  <2> QED BY <2>1 DEF Witnessed
<1>6. Covers(E2, y, T)
  <2>1. ASSUME NEW e2 \in E2 PROVE e2 \in EnvsOf(T) /\ Same(e2, y)
    <3>1. PICK e \in E : \E o \in k[e] : o.how = "next" /\ e2 = o.env
      BY InEnds, InRuns
    <3>2. e \in EnvsOf(S) /\ Same(e, f)
      BY DEF Covers
    <3>3. e2 \in EnvsOf(T) /\ Same(e2, c[e].env) /\ Same(c[e].env, y)
      BY <3>1, <3>2 DEF Shaped
    <3> QED BY <3>3 DEF Same
  <2> QED BY <1>5, <2>1 DEF Covers
<1>7. /\ ~c2[y].err
      /\ ~l => /\ Ends(Runs(k2, E2), "next") # {}
               /\ c2[y].env.moved \subseteq MovedIn(Ends(Runs(k2, E2), "next"))
      /\ MovedIn(c2[y].brk) \subseteq MovedIn(Ends(Runs(k2, E2), "break"))
      /\ MovedIn(c2[y].cont) \subseteq MovedIn(Ends(Runs(k2, E2), "continue"))
  <2>1. ~ \E o \in Runs(k2, E2) : o.how = "bad"
    BY <1>4
  <2>2. E2 \in SUBSET EnvsOf(T)
    BY <1>6 DEF Covers
  <2> QED BY <1>1, <1>6, <2>1, <2>2 DEF Witnessed
<1>8. /\ Ends(Runs(k2, E2), "next") \subseteq Ends(Runs(k3, E), "next")
      /\ \A how \in {"break", "continue"} :
            Ends(Runs(k, E), how) \cup Ends(Runs(k2, E2), how) \subseteq Ends(Runs(k3, E), how)
  BY <1>4, InEnds
<1>10. \A A, B : A \subseteq B => MovedIn(A) \subseteq MovedIn(B)
  BY DEF MovedIn
<1>11. ~l => /\ Ends(Runs(k3, E), "next") # {}
             /\ c3[f].env.moved \subseteq MovedIn(Ends(Runs(k3, E), "next"))
  BY <1>3, <1>7, <1>8, <1>10
<1>12. \A how \in {"break", "continue"} :
          /\ MovedIn(Ends(Runs(k, E), how)) \subseteq MovedIn(Ends(Runs(k3, E), how))
          /\ MovedIn(Ends(Runs(k2, E2), how)) \subseteq MovedIn(Ends(Runs(k3, E), how))
  BY <1>8, <1>10
<1> QED BY <1>3, <1>5, <1>7, <1>11, <1>12

(* Both give nothing back. *)
LEMMA SequelGrows ==
  ASSUME NEW c, NEW k, NEW c2, NEW k2, NEW c3, NEW k3, NEW S, NEW T, NEW U, NEW l \in BOOLEAN,
         Composed(c, k, c2, k2, c3, k3, S, T, U, l),
         Grows(c, S), Grows(c2, T)
  PROVE  Grows(c3, S)
<1>0. Sequel(c, k, c2, k2, c3, k3, S) /\ Shaped(c, k, S, T, FALSE) /\ Shaped(c2, k2, T, U, l)
  BY DEF Composed
<1> USE <1>0
<1> SUFFICES ASSUME NEW e \in EnvsOf(S) PROVE e.moved \subseteq c3[e].env.moved
  BY DEF Grows
<1>1. c[e].env \in EnvsOf(T) /\ c3[e].env = c2[c[e].env].env
  BY SequelFields
<1> QED BY <1>1 DEF Grows

(* The judgement: what is shown of the two meanings of a statement or a    *)
(* block. g: it gives nothing back; w: its errors are witnessed.           *)
Judged(c, k, S, T, l, g, w) ==
  /\ Shaped(c, k, S, T, l) /\ Steady(c, S) /\ Foreseen(c, k, S)
  /\ g => Grows(c, S)
  /\ w => Witnessed(c, k, S, l)

(* Each of the two is judged. *)
Both(c, k, c2, k2, S, T, U, l, g, w) ==
  Judged(c, k, S, T, FALSE, g, w) /\ Judged(c2, k2, T, U, l, g, w)

(* One statement after others is judged when each is. *)
LEMMA JudgedSequel ==
  ASSUME NEW c, NEW k, NEW c2, NEW k2, NEW c3, NEW k3, NEW S, NEW T, NEW U, NEW l \in BOOLEAN,
         NEW g \in BOOLEAN, NEW w \in BOOLEAN, Sequel(c, k, c2, k2, c3, k3, S),
         Both(c, k, c2, k2, S, T, U, l, g, w)
  PROVE  Judged(c3, k3, S, U, l, g, w)
<1> USE DEF Both
<1>1. Composed(c, k, c2, k2, c3, k3, S, T, U, l)
  BY DEF Composed, Judged
<1>2. Shaped(c3, k3, S, U, l)
  BY <1>1, SequelShaped
<1>3. Steady(c3, S)
  BY <1>1, SequelSteady DEF Judged
<1>4. Foreseen(c3, k3, S)
  BY <1>1, SequelForeseen DEF Judged
<1>5. g => Grows(c3, S)
  BY <1>1, SequelGrows DEF Judged
<1>6. w => Witnessed(c3, k3, S, l)
  <2> SUFFICES ASSUME w PROVE Witnessed(c3, k3, S, l)
    OBVIOUS
  <2>1. AllWitnessed(c, k, S, c2, k2, T, l)
    BY DEF Judged, AllWitnessed
  <2> QED BY <1>1, <2>1, SequelWitnessed
<1> QED BY <1>2, <1>3, <1>4, <1>5, <1>6 DEF Judged

-----------------------------------------------------------------------------
(* A block in a scope of its own. *)

(* Popping a scope leaves an environment of the outer one, with what is    *)
(* moved out of its bindings.                                              *)
LEMMA Popped ==
  ASSUME NEW S, NEW e \in EnvsOf(S), NEW x \in Envs
  PROVE  /\ PopScope(x, e) \in EnvsOf(S) /\ PopScope(x, e) \in Envs /\ Same(PopScope(x, e), e)
         /\ \A m : m \in PopScope(x, e).moved <=> m \in x.moved /\ m[1] \in e.vars
BY DEF PopScope, EnvsOf, Envs, Same

(* Pushing a scope binds and moves nothing. *)
LEMMA Pushed ==
  ASSUME NEW S, NEW e \in EnvsOf(S)
  PROVE  /\ PushScope(e) \in EnvsOf(S) /\ PushScope(e).moved = e.moved /\ PushScope(e).vars = e.vars
         /\ PushScope(e).depth = e.depth + 1
BY DEF PushScope, EnvsOf, Envs

(* Well-scoped environments are environments. *)
LEMMA EnvsOfEnvs == ASSUME NEW S, NEW e \in EnvsOf(S) PROVE e \in Envs
BY DEF EnvsOf

(* Pushing a scope keeps the order. *)
LEMMA PushedOrder ==
  ASSUME NEW S, NEW e \in EnvsOf(S), NEW f \in EnvsOf(S)
  PROVE  /\ Same(e, f) => Same(PushScope(e), PushScope(f))
         /\ Leq(e, f) => Leq(PushScope(e), PushScope(f))
BY Pushed DEF Same, Leq

(* c2 and k2 are c and k in a scope of their own. *)
Enclosed(c, k, c2, k2, S) ==
  \A e \in EnvsOf(S) :
    /\ c2[e] = [c[PushScope(e)] EXCEPT !.env  = PopScope(@, e),
                                       !.brk  = {PopScope(x, e) : x \in @},
                                       !.cont = {PopScope(x, e) : x \in @}]
    /\ k2[e] = {[o EXCEPT !.env = PopScope(@, e)] : o \in k[PushScope(e)]}
InScopeOf(c, k, c2, k2, S, T, l) == Enclosed(c, k, c2, k2, S) /\ Shaped(c, k, S, T, l)

(* What is left of an inner scope is an environment of the outer one. *)
Home(c, k, S) ==
  \A e \in EnvsOf(S) : /\ c[e].env \in EnvsOf(S) /\ Same(c[e].env, e)
                       /\ \A x \in c[e].brk \cup c[e].cont : x \in EnvsOf(S) /\ Same(x, e)
                       /\ \A o \in k[e] : o.env \in EnvsOf(S) /\ Same(o.env, e)

(* The result of the enclosed block. *)
LEMMA EnclosedFields ==
  ASSUME NEW c, NEW k, NEW c2, NEW k2, NEW S, NEW T, NEW l \in BOOLEAN,
         InScopeOf(c, k, c2, k2, S, T, l), NEW e \in EnvsOf(S)
  PROVE  /\ c[PushScope(e)] \in Results /\ c2[e] \in Results /\ c2[e].left = l
         /\ c2[e].err = c[PushScope(e)].err
         /\ c2[e].env = PopScope(c[PushScope(e)].env, e)
         /\ c2[e].brk = {PopScope(x, e) : x \in c[PushScope(e)].brk}
         /\ c2[e].cont = {PopScope(x, e) : x \in c[PushScope(e)].cont}
         /\ c2[e].env \in EnvsOf(S) /\ Same(c2[e].env, e)
<1> DEFINE r == c[PushScope(e)]
<1>1. r \in Results /\ r.left = l
  BY Pushed DEF InScopeOf, Shaped
<1>2. c2[e] = [r EXCEPT !.env  = PopScope(@, e), !.brk  = {PopScope(x, e) : x \in @},
                        !.cont = {PopScope(x, e) : x \in @}]
  BY DEF InScopeOf, Enclosed
<1>3. r.env \in Envs /\ r.brk \subseteq Envs /\ r.cont \subseteq Envs
  BY <1>1 DEF Results
<1>4. /\ PopScope(r.env, e) \in EnvsOf(S) /\ Same(PopScope(r.env, e), e)
      /\ PopScope(r.env, e) \in Envs
      /\ {PopScope(x, e) : x \in r.brk} \subseteq Envs
      /\ {PopScope(x, e) : x \in r.cont} \subseteq Envs
  BY <1>3, Popped
<1> HIDE DEF r
<1>5. /\ c2[e].left = r.left /\ c2[e].err = r.err /\ c2[e].env = PopScope(r.env, e)
      /\ c2[e].brk = {PopScope(x, e) : x \in r.brk}
      /\ c2[e].cont = {PopScope(x, e) : x \in r.cont}
      /\ c2[e] \in Results
  BY <1>1, <1>2, <1>4 DEF Results
<1> QED BY <1>1, <1>4, <1>5 DEF r

(* The outcomes of the enclosed block. *)
LEMMA EnclosedRuns ==
  ASSUME NEW c, NEW k, NEW c2, NEW k2, NEW S, NEW T, NEW l \in BOOLEAN,
         InScopeOf(c, k, c2, k2, S, T, l), NEW e \in EnvsOf(S), NEW o
  PROVE  /\ o \in k2[e] <=> \E p \in k[PushScope(e)] : /\ o = [p EXCEPT !.env = PopScope(@, e)]
                                                       /\ p \in Outcomes /\ o.how = p.how
                                                       /\ o.env = PopScope(p.env, e)
         /\ o \in k2[e] => o \in Outcomes /\ o.env \in EnvsOf(S) /\ Same(o.env, e)
<1>1. k[PushScope(e)] \subseteq Outcomes
  BY Pushed DEF InScopeOf, Shaped
<1>2. o \in k2[e] <=> \E p \in k[PushScope(e)] : o = [p EXCEPT !.env = PopScope(@, e)]
  <2>1. k2[e] = {[p EXCEPT !.env = PopScope(@, e)] : p \in k[PushScope(e)]}
    BY DEF InScopeOf, Enclosed
  <2> QED BY <2>1
<1>3. ASSUME NEW p \in k[PushScope(e)], o = [p EXCEPT !.env = PopScope(@, e)]
      PROVE  /\ p \in Outcomes /\ o.how = p.how /\ o.env = PopScope(p.env, e)
             /\ o \in Outcomes /\ o.env \in EnvsOf(S) /\ Same(o.env, e)
  <2>1. p \in Outcomes /\ p.env \in Envs
    BY <1>1 DEF Outcomes
  <2>2. PopScope(p.env, e) \in EnvsOf(S) /\ PopScope(p.env, e) \in Envs /\ Same(PopScope(p.env, e), e)
    BY <2>1, Popped
  <2> QED BY <1>3, <2>1, <2>2 DEF Outcomes
<1> QED BY <1>2, <1>3

(* Each run of the block is one of the enclosed block. *)
LEMMA EnclosedBack ==
  ASSUME NEW c, NEW k, NEW c2, NEW k2, NEW S, NEW T, NEW l \in BOOLEAN,
         InScopeOf(c, k, c2, k2, S, T, l), NEW e \in EnvsOf(S), NEW p \in k[PushScope(e)]
  PROVE  p \in Outcomes /\ \E o \in k2[e] : o.how = p.how /\ o.env = PopScope(p.env, e)
<1> DEFINE o == [p EXCEPT !.env = PopScope(@, e)]
<1>1. p \in Outcomes
  BY Pushed DEF InScopeOf, Shaped
<1>2. o.how = p.how /\ o.env = PopScope(p.env, e)
  BY <1>1 DEF Outcomes
<1>3. k2[e] = {[q EXCEPT !.env = PopScope(@, e)] : q \in k[PushScope(e)]}
  BY DEF InScopeOf, Enclosed
<1> QED BY <1>1, <1>2, <1>3

(* The enclosed block has the right form, and leads to environments of the *)
(* outer scope.                                                            *)
LEMMA EnclosedShaped ==
  ASSUME NEW c, NEW k, NEW c2, NEW k2, NEW S, NEW T, NEW l \in BOOLEAN,
         InScopeOf(c, k, c2, k2, S, T, l)
  PROVE  Shaped(c2, k2, S, S, l) /\ Home(c2, k2, S)
<1>1. Home(c2, k2, S)
  <2> SUFFICES ASSUME NEW e \in EnvsOf(S)
               PROVE  /\ c2[e].env \in EnvsOf(S) /\ Same(c2[e].env, e)
                      /\ \A x \in c2[e].brk \cup c2[e].cont : x \in EnvsOf(S) /\ Same(x, e)
                      /\ \A o \in k2[e] : o.env \in EnvsOf(S) /\ Same(o.env, e)
    BY DEF Home
  <2>1. c2[e].env \in EnvsOf(S) /\ Same(c2[e].env, e)
    BY EnclosedFields
  <2>2. \A o \in k2[e] : o.env \in EnvsOf(S) /\ Same(o.env, e)
    BY EnclosedRuns
  <2>3. ASSUME NEW x \in c2[e].brk \cup c2[e].cont PROVE x \in EnvsOf(S) /\ Same(x, e)
    <3> DEFINE r == c[PushScope(e)]
    <3>1. /\ r \in Results
          /\ c2[e].brk = {PopScope(y, e) : y \in r.brk}
          /\ c2[e].cont = {PopScope(y, e) : y \in r.cont}
      BY EnclosedFields
    <3>2. PICK y \in Envs : x = PopScope(y, e)
      BY <3>1 DEF Results
    <3> QED BY <3>2, Popped
  <2> QED BY <2>1, <2>2, <2>3
<1>2. ASSUME NEW e \in EnvsOf(S)
      PROVE  /\ c2[e] \in Results /\ c2[e].left = l /\ k2[e] \subseteq Outcomes
             /\ \A o \in k2[e] : o.how = "next" => ~l
  <2>1. ASSUME NEW p \in k[PushScope(e)], p.how = "next" PROVE ~l
    BY <2>1, Pushed DEF InScopeOf, Shaped
  <2> QED BY <2>1, EnclosedFields, EnclosedRuns
<1>3. \A e, f, x, y : Same(e, f) /\ Same(x, e) /\ Same(y, f) => Same(x, y)
  BY DEF Same
<1>4. ASSUME NEW e \in EnvsOf(S), NEW f \in EnvsOf(S), Same(e, f) PROVE Same(c2[e].env, c2[f].env)
  BY <1>1, <1>3, <1>4 DEF Home
<1>5. ASSUME NEW e \in EnvsOf(S), NEW o \in k2[e] PROVE o.env \in EnvsOf(S) /\ Same(o.env, c2[e].env)
  BY <1>1 DEF Home, Same
<1> QED BY <1>1, <1>2, <1>4, <1>5 DEF Shaped, Home

(* What is moved after popping several environments. *)
LEMMA PoppedMoved ==
  ASSUME NEW S, NEW e \in EnvsOf(S), NEW E \in SUBSET Envs, NEW m
  PROVE  m \in MovedIn({PopScope(x, e) : x \in E}) <=> m \in MovedIn(E) /\ m[1] \in e.vars
BY Popped DEF MovedIn

(* The enclosed block is steady. *)
LEMMA EnclosedSteady ==
  ASSUME NEW c, NEW k, NEW c2, NEW k2, NEW S, NEW T, NEW l \in BOOLEAN,
         InScopeOf(c, k, c2, k2, S, T, l), Steady(c, S)
  PROVE  Steady(c2, S)
<1> SUFFICES ASSUME NEW e \in EnvsOf(S), NEW f \in EnvsOf(S), Leq(e, f), ~c2[f].err
             PROVE  /\ ~c2[e].err
                    /\ Gains(c2[e].env.moved, c2[f].env.moved, e, f)
                    /\ Gains(MovedIn(c2[e].brk), MovedIn(c2[f].brk), e, f)
                    /\ Gains(MovedIn(c2[e].cont), MovedIn(c2[f].cont), e, f)
  BY DEF Steady
<1> DEFINE x == c[PushScope(e)]
           y == c[PushScope(f)]
<1>1. /\ PushScope(e) \in EnvsOf(S) /\ PushScope(f) \in EnvsOf(S)
      /\ Leq(PushScope(e), PushScope(f))
      /\ PushScope(e).moved = e.moved /\ PushScope(f).moved = f.moved /\ e.vars = f.vars
  BY Pushed, PushedOrder DEF Leq, Same
<1>2. c2[f].err = y.err /\ c2[e].err = x.err
  BY EnclosedFields
<1>3. /\ ~x.err
      /\ Gains(x.env.moved, y.env.moved, PushScope(e), PushScope(f))
      /\ Gains(MovedIn(x.brk), MovedIn(y.brk), PushScope(e), PushScope(f))
      /\ Gains(MovedIn(x.cont), MovedIn(y.cont), PushScope(e), PushScope(f))
  BY <1>1, <1>2 DEF Steady
<1>4. /\ Gains(x.env.moved, y.env.moved, e, f)
      /\ Gains(MovedIn(x.brk), MovedIn(y.brk), e, f)
      /\ Gains(MovedIn(x.cont), MovedIn(y.cont), e, f)
  BY <1>1, <1>3 DEF Gains
<1>5. ASSUME NEW g \in EnvsOf(S), NEW m
      PROVE  /\ m \in c2[g].env.moved <=> m \in c[PushScope(g)].env.moved /\ m[1] \in g.vars
             /\ m \in MovedIn(c2[g].brk) <=> m \in MovedIn(c[PushScope(g)].brk) /\ m[1] \in g.vars
             /\ m \in MovedIn(c2[g].cont) <=> m \in MovedIn(c[PushScope(g)].cont) /\ m[1] \in g.vars
  <2> DEFINE r == c[PushScope(g)]
  <2>1. r.env \in Envs /\ r.brk \in SUBSET Envs /\ r.cont \in SUBSET Envs
    BY EnclosedFields DEF Results
  <2>2. /\ c2[g].env = PopScope(r.env, g)
        /\ c2[g].brk = {PopScope(z, g) : z \in r.brk}
        /\ c2[g].cont = {PopScope(z, g) : z \in r.cont}
    BY EnclosedFields
  <2> QED BY <2>1, <2>2, Popped, PoppedMoved
<1>6. Gains(c2[e].env.moved, c2[f].env.moved, e, f)
  <2>1. /\ \A m : m \in c2[e].env.moved <=> m \in x.env.moved /\ m[1] \in e.vars
        /\ \A m : m \in c2[f].env.moved <=> m \in y.env.moved /\ m[1] \in e.vars
    BY <1>1, <1>5
  <2> HIDE DEF x, y
  <2> QED BY <1>4, <2>1 DEF Gains
<1>7. Gains(MovedIn(c2[e].brk), MovedIn(c2[f].brk), e, f)
  <2>1. /\ \A m : m \in MovedIn(c2[e].brk) <=> m \in MovedIn(x.brk) /\ m[1] \in e.vars
        /\ \A m : m \in MovedIn(c2[f].brk) <=> m \in MovedIn(y.brk) /\ m[1] \in e.vars
    BY <1>1, <1>5
  <2> HIDE DEF x, y
  <2> QED BY <1>4, <2>1 DEF Gains
<1>8. Gains(MovedIn(c2[e].cont), MovedIn(c2[f].cont), e, f)
  <2>1. /\ \A m : m \in MovedIn(c2[e].cont) <=> m \in MovedIn(x.cont) /\ m[1] \in e.vars
        /\ \A m : m \in MovedIn(c2[f].cont) <=> m \in MovedIn(y.cont) /\ m[1] \in e.vars
    BY <1>1, <1>5
  <2> HIDE DEF x, y
  <2> QED BY <1>4, <2>1 DEF Gains
<1> QED BY <1>2, <1>3, <1>6, <1>7, <1>8

(* What it does is foreseen. *)
LEMMA EnclosedForeseen ==
  ASSUME NEW c, NEW k, NEW c2, NEW k2, NEW S, NEW T, NEW l \in BOOLEAN,
         InScopeOf(c, k, c2, k2, S, T, l), Foreseen(c, k, S)
  PROVE  Foreseen(c2, k2, S)
<1> SUFFICES ASSUME NEW e \in EnvsOf(S), NEW f \in EnvsOf(S), Leq(e, f), ~c2[f].err,
                    NEW o \in k2[e]
             PROVE  /\ o.how # "bad"
                    /\ o.how = "next" => Leq(o.env, c2[f].env)
                    /\ o.how = "break" => o.env.moved \subseteq MovedIn(c2[f].brk)
                    /\ o.how = "continue" => o.env.moved \subseteq MovedIn(c2[f].cont)
  BY DEF Foreseen
<1> DEFINE y == c[PushScope(f)]
<1>1. PICK p \in k[PushScope(e)] : p \in Outcomes /\ o.how = p.how /\ o.env = PopScope(p.env, e)
  BY EnclosedRuns
<1>2. /\ PushScope(e) \in EnvsOf(S) /\ PushScope(f) \in EnvsOf(S)
      /\ Leq(PushScope(e), PushScope(f)) /\ e.vars = f.vars
  BY Pushed, PushedOrder DEF Leq, Same
<1>3. /\ ~y.err /\ y \in Results /\ c2[f].env = PopScope(y.env, f)
      /\ c2[f].brk = {PopScope(x, f) : x \in y.brk}
      /\ c2[f].cont = {PopScope(x, f) : x \in y.cont}
      /\ Same(c2[f].env, f)
  BY EnclosedFields
<1>4. /\ p.how # "bad"
      /\ p.how = "next" => Leq(p.env, y.env)
      /\ p.how = "break" => p.env.moved \subseteq MovedIn(y.brk)
      /\ p.how = "continue" => p.env.moved \subseteq MovedIn(y.cont)
  BY <1>1, <1>2, <1>3 DEF Foreseen
<1>5. p.env \in Envs /\ y.env \in Envs /\ y.brk \in SUBSET Envs /\ y.cont \in SUBSET Envs
  BY <1>1, <1>3 DEF Outcomes, Results
<1>6. Same(o.env, e) /\ \A m : m \in o.env.moved <=> m \in p.env.moved /\ m[1] \in f.vars
  BY <1>1, <1>2, <1>5, Popped
<1>7. /\ \A m : m \in c2[f].env.moved <=> m \in y.env.moved /\ m[1] \in f.vars
      /\ \A m : m \in MovedIn(c2[f].brk) <=> m \in MovedIn(y.brk) /\ m[1] \in f.vars
      /\ \A m : m \in MovedIn(c2[f].cont) <=> m \in MovedIn(y.cont) /\ m[1] \in f.vars
  BY <1>3, <1>5, Popped, PoppedMoved
<1>8. o.how = "next" => Leq(o.env, c2[f].env)
  <2>1. Same(o.env, c2[f].env)
    BY <1>3, <1>6 DEF Leq, Same
  <2> QED BY <1>1, <1>4, <1>6, <1>7, <2>1 DEF Leq
<1> HIDE DEF y
<1> QED BY <1>1, <1>4, <1>6, <1>7, <1>8

(* What is claimed of it is witnessed. *)
LEMMA EnclosedWitnessed ==
  ASSUME NEW c, NEW k, NEW c2, NEW k2, NEW S, NEW T, NEW l \in BOOLEAN,
         InScopeOf(c, k, c2, k2, S, T, l), Witnessed(c, k, S, l)
  PROVE  Witnessed(c2, k2, S, l)
<1> SUFFICES ASSUME NEW f \in EnvsOf(S), NEW E \in SUBSET EnvsOf(S), Covers(E, f, S),
                    ~ \E o \in Runs(k2, E) : o.how = "bad"
             PROVE  /\ ~c2[f].err
                    /\ ~l => /\ Ends(Runs(k2, E), "next") # {}
                             /\ c2[f].env.moved \subseteq MovedIn(Ends(Runs(k2, E), "next"))
                    /\ MovedIn(c2[f].brk) \subseteq MovedIn(Ends(Runs(k2, E), "break"))
                    /\ MovedIn(c2[f].cont) \subseteq MovedIn(Ends(Runs(k2, E), "continue"))
  BY DEF Witnessed
<1> DEFINE y == c[PushScope(f)]
           D == {PushScope(e) : e \in E}
<1>1. PushScope(f) \in EnvsOf(S) /\ D \in SUBSET EnvsOf(S)
  BY Pushed
<1>2. Covers(D, PushScope(f), S)
  <2>1. D # {} /\ \A d \in D : Same(d, PushScope(f))
    BY PushedOrder DEF Covers
  <2>2. PushScope(f).moved = f.moved /\ \A e \in E : PushScope(e).moved = e.moved
    BY Pushed
  <2>3. MovedIn(D) = MovedIn(E)
    BY <2>2 DEF MovedIn
  <2> QED BY <1>1, <2>1, <2>2, <2>3 DEF Covers
<1>3. \A how, m : m \in MovedIn(Ends(Runs(k2, E), how)) <=>
                  m \in MovedIn(Ends(Runs(k, D), how)) /\ m[1] \in f.vars
  <2> SUFFICES ASSUME NEW how, NEW m
               PROVE  m \in MovedIn(Ends(Runs(k2, E), how)) <=>
                      m \in MovedIn(Ends(Runs(k, D), how)) /\ m[1] \in f.vars
    OBVIOUS
  <2>1. ASSUME NEW e \in E, NEW o \in k2[e], o.how = how, m \in o.env.moved
        PROVE  m \in MovedIn(Ends(Runs(k, D), how)) /\ m[1] \in f.vars
    <3>1. PICK p \in k[PushScope(e)] : p \in Outcomes /\ o.how = p.how /\ o.env = PopScope(p.env, e)
      BY <2>1, EnclosedRuns
    <3>2. m \in p.env.moved /\ m[1] \in e.vars /\ e.vars = f.vars
      BY <2>1, <3>1, Popped DEF Outcomes, Covers, Same
    <3> QED BY <2>1, <3>1, <3>2, InMoved, InEnds, InRuns
  <2>2. ASSUME NEW e \in E, NEW p \in k[PushScope(e)], p.how = how, m \in p.env.moved, m[1] \in f.vars
        PROVE  m \in MovedIn(Ends(Runs(k2, E), how))
    <3>1. PICK o \in k2[e] : p \in Outcomes /\ o.how = p.how /\ o.env = PopScope(p.env, e)
      BY EnclosedBack
    <3>2. e.vars = f.vars
      BY DEF Covers, Same
    <3>3. m \in o.env.moved
      BY <2>2, <3>1, <3>2, Popped DEF Outcomes
    <3> QED BY <2>2, <3>1, <3>3, InMoved, InEnds, InRuns
  <2>3. ASSUME m \in MovedIn(Ends(Runs(k2, E), how)) PROVE \E e \in E : \E o \in k2[e] : o.how = how /\ m \in o.env.moved
    BY <2>3, InMoved, InEnds, InRuns
  <2>4. ASSUME m \in MovedIn(Ends(Runs(k, D), how))
        PROVE  \E e \in E : \E p \in k[PushScope(e)] : p.how = how /\ m \in p.env.moved
    BY <2>4, InMoved, InEnds, InRuns
  <2> QED BY <2>1, <2>2, <2>3, <2>4
<1>4. \A how : (\E o \in Runs(k, D) : o.how = how) <=> (\E o \in Runs(k2, E) : o.how = how)
  <2> SUFFICES ASSUME NEW how
               PROVE  (\E o \in Runs(k, D) : o.how = how) <=> (\E o \in Runs(k2, E) : o.how = how)
    OBVIOUS
  <2>1. ASSUME NEW e \in E, NEW o \in k2[e], o.how = how PROVE \E p \in Runs(k, D) : p.how = how
    <3>1. PICK p \in k[PushScope(e)] : o.how = p.how
      BY EnclosedRuns
    <3> QED BY <2>1, <3>1, InRuns
  <2>2. ASSUME NEW e \in E, NEW p \in k[PushScope(e)], p.how = how
        PROVE  \E o \in Runs(k2, E) : o.how = how
    <3>1. PICK o \in k2[e] : o.how = p.how
      BY EnclosedBack
    <3> QED BY <2>2, <3>1, InRuns
  <2>3. ASSUME NEW p \in Runs(k, D) PROVE \E e \in E : p \in k[PushScope(e)]
    BY InRuns
  <2>4. ASSUME NEW o \in Runs(k2, E) PROVE \E e \in E : o \in k2[e]
    BY InRuns
  <2> QED BY <2>1, <2>2, <2>3, <2>4
<1>5. /\ ~y.err
      /\ ~l => /\ Ends(Runs(k, D), "next") # {}
               /\ y.env.moved \subseteq MovedIn(Ends(Runs(k, D), "next"))
      /\ MovedIn(y.brk) \subseteq MovedIn(Ends(Runs(k, D), "break"))
      /\ MovedIn(y.cont) \subseteq MovedIn(Ends(Runs(k, D), "continue"))
  BY <1>1, <1>2, <1>4 DEF Witnessed
<1>6. /\ c2[f].err = y.err /\ y \in Results /\ c2[f].env = PopScope(y.env, f)
      /\ c2[f].brk = {PopScope(x, f) : x \in y.brk}
      /\ c2[f].cont = {PopScope(x, f) : x \in y.cont}
  BY EnclosedFields
<1>7. y.env \in Envs /\ y.brk \in SUBSET Envs /\ y.cont \in SUBSET Envs
  BY <1>6 DEF Results
<1>8. /\ \A m : m \in c2[f].env.moved <=> m \in y.env.moved /\ m[1] \in f.vars
      /\ \A m : m \in MovedIn(c2[f].brk) <=> m \in MovedIn(y.brk) /\ m[1] \in f.vars
      /\ \A m : m \in MovedIn(c2[f].cont) <=> m \in MovedIn(y.cont) /\ m[1] \in f.vars
  <2>1. \A m : m \in c2[f].env.moved <=> m \in y.env.moved /\ m[1] \in f.vars
    BY <1>6, <1>7, Popped
  <2>2. \A m : m \in MovedIn(c2[f].brk) <=> m \in MovedIn(y.brk) /\ m[1] \in f.vars
    BY <1>6, <1>7, PoppedMoved
  <2>3. \A m : m \in MovedIn(c2[f].cont) <=> m \in MovedIn(y.cont) /\ m[1] \in f.vars
    BY <1>6, <1>7, PoppedMoved
  <2> QED BY <2>1, <2>2, <2>3
<1>9. ~l => Ends(Runs(k2, E), "next") # {}
  <2>1. ASSUME ~l PROVE \E o \in Runs(k2, E) : o.how = "next"
    <3>1. \E o \in Runs(k, D) : o.how = "next"
      BY <1>5, <2>1, SomeEnd
    <3> QED BY <1>4, <3>1
  <2> QED BY <2>1, SomeEnd
<1> HIDE DEF y, D
<1> QED BY <1>3, <1>5, <1>6, <1>8, <1>9

(* It gives back nothing of the outer scope. *)
LEMMA EnclosedGrows ==
  ASSUME NEW c, NEW k, NEW c2, NEW k2, NEW S, NEW T, NEW l \in BOOLEAN,
         InScopeOf(c, k, c2, k2, S, T, l), Grows(c, S)
  PROVE  Grows(c2, S)
<1> SUFFICES ASSUME NEW e \in EnvsOf(S) PROVE e.moved \subseteq c2[e].env.moved
  BY DEF Grows
<1> DEFINE r == c[PushScope(e)]
<1>1. r \in Results /\ c2[e].env = PopScope(r.env, e)
  BY EnclosedFields
<1>2. e.moved \subseteq r.env.moved
  BY <1>1, Pushed DEF Grows
<1>3. \A m \in e.moved : m[1] \in e.vars
  BY DEF EnvsOf
<1> QED BY <1>1, <1>2, <1>3, Popped DEF Results

(* A block in a scope of its own is judged when the block is. *)
LEMMA JudgedEnclosed ==
  ASSUME NEW c, NEW k, NEW c2, NEW k2, NEW S, NEW T, NEW l \in BOOLEAN,
         NEW g \in BOOLEAN, NEW w \in BOOLEAN,
         Enclosed(c, k, c2, k2, S), Judged(c, k, S, T, l, g, w)
  PROVE  Judged(c2, k2, S, S, l, g, w) /\ Home(c2, k2, S)
<1>1. InScopeOf(c, k, c2, k2, S, T, l)
  BY DEF InScopeOf, Judged
<1>2. Shaped(c2, k2, S, S, l) /\ Home(c2, k2, S)
  BY <1>1, EnclosedShaped
<1>3. Steady(c2, S)
  BY <1>1, EnclosedSteady DEF Judged
<1>4. Foreseen(c2, k2, S)
  BY <1>1, EnclosedForeseen DEF Judged
<1>5. g => Grows(c2, S)
  BY <1>1, EnclosedGrows DEF Judged
<1>6. w => Witnessed(c2, k2, S, l)
  BY <1>1, EnclosedWitnessed DEF Judged
<1> QED BY <1>2, <1>3, <1>4, <1>5, <1>6 DEF Judged

-----------------------------------------------------------------------------
(* Environments, name by name: what the checker saves, restores, merges    *)
(* and joins.                                                              *)

(* A name means the one binding that has it. (Where a name may be declared *)
(* again, restore_states confuses the two.)                                *)
LEMMA LookupIn ==
  ASSUME NEW S, NEW e \in EnvsOf(S), NEW v \in S
  PROVE  /\ Lookup(e, v) \in e.vars /\ Lookup(e, v)[2] = v
         /\ \A b \in e.vars : b[2] = v => b = Lookup(e, v)
<1>1. PICK b \in e.vars : b[2] = v
  BY DEF EnvsOf
<1>2. b = <<b[1], v>> /\ b[1] \in 1..e.depth /\ b[1] \in Nat
  BY <1>1 DEF EnvsOf, Envs, Bindings
<1>3. \A c \in e.vars : c[2] = v => c = b
  BY <1>1 DEF EnvsOf
<1>4. Depths(e, v) = {b[1]}
  BY <1>1, <1>2, <1>3 DEF Depths
<1>5. Lookup(e, v) = b
  BY <1>2, <1>4 DEF Lookup
<1> QED BY <1>1, <1>3, <1>5

(* What a name means is a matter of the scopes. *)
LEMMA LookupSame ==
  ASSUME NEW e, NEW f, Same(e, f), NEW v
  PROVE  Lookup(e, v) = Lookup(f, v)
BY DEF Same, Lookup, Depths

(* A binding is what its name means, seen from inside and from outside. *)
LEMMA LookupOfBinding ==
  ASSUME NEW S, NEW e \in EnvsOf(S), NEW b \in e.vars
  PROVE  /\ b[2] \in S /\ b = Lookup(e, b[2])
         /\ <<CHOOSE d \in Depths(e, b[2]) : \A c \in Depths(e, b[2]) : d <= c, b[2]>> = b
<1>1. b = <<b[1], b[2]>> /\ b[1] \in 1..e.depth /\ b[1] \in Nat /\ b[2] \in S
  BY DEF EnvsOf, Envs, Bindings
<1>3. \A c \in e.vars : c[2] = b[2] => c = b
  BY DEF EnvsOf
<1>4. Depths(e, b[2]) = {b[1]}
  BY <1>1, <1>3 DEF Depths
<1> QED BY <1>1, <1>4 DEF Lookup

(* What is moved is a place of a binding in scope. *)
LEMMA MovedPlace ==
  ASSUME NEW S, NEW e \in EnvsOf(S), NEW m \in e.moved
  PROVE  /\ m[1] \in e.vars /\ m[2] \in Places /\ m = <<m[1], m[2]>>
BY DEF EnvsOf, Envs

(* Membership in Moved, for the provers. *)
LEMMA InMovedOf ==
  ASSUME NEW e, NEW v, NEW q
  PROVE  q \in Moved(e, v) <=> q \in Places /\ <<Lookup(e, v), q>> \in e.moved
BY DEF Moved, Out

(* What is moved tells environments of one shape apart. *)
LEMMA SameMoved ==
  ASSUME NEW S, NEW e \in EnvsOf(S), NEW f \in EnvsOf(S), Same(e, f), e.moved = f.moved
  PROVE  e = f
BY DEF EnvsOf, Envs, Same

(* Any places of the bindings may be moved. *)
LEMMA WithMoved ==
  ASSUME NEW S, NEW e \in EnvsOf(S), NEW M,
         \A m \in M : m[1] \in e.vars /\ m[2] \in Places /\ m = <<m[1], m[2]>>
  PROVE  /\ [e EXCEPT !.moved = M] \in EnvsOf(S) /\ [e EXCEPT !.moved = M].moved = M
         /\ Same([e EXCEPT !.moved = M], e)
<1>1. M \subseteq Bindings \X Places
  BY DEF EnvsOf, Envs
<1> QED BY <1>1 DEF EnvsOf, Envs, Same

(* Restoring what was saved is going back. *)
LEMMA RestoreSaved ==
  ASSUME NEW S, NEW e \in EnvsOf(S), NEW f \in EnvsOf(S), Same(e, f)
  PROVE  RestoreStates(e, SaveStates(f)) = f
<1> DEFINE states == SaveStates(f)
           M == {m \in e.vars \X Places :
                   LET b == m[1] IN
                   IF b[2] \in DOMAIN states /\ b = Lookup(e, b[2])
                   THEN m[2] \in states[b[2]] ELSE m \in e.moved}
<1>1. \A b \in f.vars : b[2] \in DOMAIN states /\ states[b[2]] = Out(f, b)
  BY LookupOfBinding DEF SaveStates
<1>2. ASSUME NEW m \in e.vars \X Places PROVE m \in M <=> m \in f.moved
  <2>1. m[1] \in f.vars /\ m[1] \in e.vars /\ m[2] \in Places /\ m = <<m[1], m[2]>>
    BY DEF Same
  <2>2. m \in M <=> m[2] \in states[m[1][2]]
    <3> HIDE DEF states
    <3> QED BY <1>1, <2>1, LookupOfBinding
  <2> HIDE DEF M, states
  <2> QED BY <1>1, <2>1, <2>2 DEF Out
<1>3. \A m \in f.moved : m \in e.vars \X Places
  BY MovedPlace DEF Same
<1>4. M = f.moved
  <2>1. M \subseteq e.vars \X Places
    OBVIOUS
  <2> HIDE DEF M
  <2> QED BY <1>2, <1>3, <2>1
<1>5. RestoreStates(e, SaveStates(f)) = [e EXCEPT !.moved = M]
  BY DEF RestoreStates
<1> HIDE DEF M
<1> QED BY <1>4, <1>5 DEF EnvsOf, Envs, Same

(* Merging two saved states is the union of what is moved. *)
LEMMA MergeSaved ==
  ASSUME NEW S, NEW e \in EnvsOf(S), NEW f \in EnvsOf(S), Same(e, f)
  PROVE  /\ MergeStates(e, SaveStates(f), SaveStates(e)) \in EnvsOf(S)
         /\ Same(MergeStates(e, SaveStates(f), SaveStates(e)), e)
         /\ MergeStates(e, SaveStates(f), SaveStates(e)).moved = f.moved \cup e.moved
<1> DEFINE then == SaveStates(f)
           else == SaveStates(e)
           M == {m \in e.vars \X Places :
                   LET b == m[1] IN
                   IF b[2] \in DOMAIN then /\ b = Lookup(e, b[2])
                   THEN m[2] \in then[b[2]] \cup else[b[2]] \/ (m[2] = <<>> /\ m \in e.moved)
                   ELSE m \in e.moved}
<1>1. /\ \A b \in f.vars : b[2] \in DOMAIN then /\ then[b[2]] = Out(f, b)
      /\ \A b \in e.vars : else[b[2]] = Out(e, b)
  BY LookupOfBinding DEF SaveStates
<1>2. ASSUME NEW m \in e.vars \X Places PROVE m \in M <=> m \in f.moved \cup e.moved
  <2>1. m[1] \in f.vars /\ m[1] \in e.vars /\ m[2] \in Places /\ m = <<m[1], m[2]>>
    BY DEF Same
  <2>2. m \in M <=> m[2] \in then[m[1][2]] \cup else[m[1][2]] \/ (m[2] = <<>> /\ m \in e.moved)
    <3> HIDE DEF then, else
    <3> QED BY <1>1, <2>1, LookupOfBinding
  <2> HIDE DEF M, then, else
  <2> QED BY <1>1, <2>1, <2>2 DEF Out
<1>3. \A m \in f.moved \cup e.moved : m \in e.vars \X Places
  BY MovedPlace DEF Same
<1>4. M = f.moved \cup e.moved
  <2>1. M \subseteq e.vars \X Places
    OBVIOUS
  <2> HIDE DEF M
  <2> QED BY <1>2, <1>3, <2>1
<1>5. MergeStates(e, SaveStates(f), SaveStates(e)) = [e EXCEPT !.moved = M]
  BY DEF MergeStates
<1>6. \A m \in f.moved \cup e.moved : m[1] \in e.vars /\ m[2] \in Places /\ m = <<m[1], m[2]>>
  BY MovedPlace DEF Same
<1> HIDE DEF M, then, else
<1> QED BY <1>4, <1>5, <1>6, WithMoved DEF then, else

(* Joining paths is the union of what is moved. *)
LEMMA Joined ==
  ASSUME NEW S, NEW e \in EnvsOf(S), NEW P, \A p \in P : p \in EnvsOf(S) /\ Same(p, e)
  PROVE  /\ Join(e, P) \in EnvsOf(S) /\ Same(Join(e, P), e)
         /\ Join(e, P).moved = e.moved \cup MovedIn(P)
<1> DEFINE M == e.moved \cup {m \in UNION {p.moved : p \in P} : m[1] \in e.vars}
<1>1. \A m \in MovedIn(P) : m[1] \in e.vars /\ m[2] \in Places /\ m = <<m[1], m[2]>>
  BY MovedPlace DEF MovedIn, Same
<1>2. M = e.moved \cup MovedIn(P)
  BY <1>1 DEF MovedIn
<1>3. \A m \in M : m[1] \in e.vars /\ m[2] \in Places /\ m = <<m[1], m[2]>>
  BY <1>1, <1>2, MovedPlace
<1>4. Join(e, P) = [e EXCEPT !.moved = M]
  BY DEF Join
<1> HIDE DEF M
<1> QED BY <1>2, <1>3, <1>4, WithMoved

-----------------------------------------------------------------------------
(* Operations on places. *)

(* c and k are what s means to the checker and where it runs. *)
Means(c, k, check, run, s, S) ==
  \A e \in EnvsOf(S) : c[e] = Stmt(check, s, e) /\ k[e] = RunStmt(run, s, e)

(* s is an operation on a place of a binding in S. *)
PlaceIn(s, S) == s.op \in PlaceOps /\ s.v \in S /\ s.p \in Places /\ s.id \in Nat

(* An operation fails when something moved is in its way; else it moves a  *)
(* place, or takes back what it covers.                                    *)
Wrong(s, q) == IF s.op = "set" THEN q # s.p /\ s.p \in Below[q] ELSE Overlap(s.p, q)
Fails(s, e) == \E q \in Moved(e, s.v) : Wrong(s, q)
Puts(s, e)  == IF s.op = "eat" THEN {<<Lookup(e, s.v), s.p>>} ELSE {}
Takes(s, e) == IF s.op = "set" THEN {Lookup(e, s.v)} \X Below[s.p] ELSE {}

(* The runs of a statement, case by case. *)
LEMMA RunCases ==
  ASSUME NEW run, NEW s, NEW e
  PROVE  /\ s.op \in PlaceOps  => RunStmt(run, s, e) = {RunPlace(s, e)}
         /\ s.op = "let"       => RunStmt(run, s, e) = {Outcome("next", Define(e, s.v))}
         /\ s.op \in Exits     => RunStmt(run, s, e) = {Outcome(s.op, e)}
         /\ s.op = "if"        => RunStmt(run, s, e) = {Outcome("next", e)} \cup RunScoped(run, s.blocks[1], e)
         /\ s.op \in Branching => RunStmt(run, s, e) = UNION {RunScoped(run, s.blocks[i], e) : i \in DOMAIN s.blocks}
         /\ s.op = "while"     => RunStmt(run, s, e) = RunLoop(run, s.blocks[1], e)
BY DEF RunStmt, PlaceOps, Exits, Branching

(* A result without breaks and continues. *)
Plain(r, e, left, err) ==
  /\ r \in Results /\ r.env = e /\ r.left = left /\ r.err = err /\ r.brk = {} /\ r.cont = {}

(* The results that Result makes. *)
LEMMA ResultFields ==
  ASSUME NEW e \in Envs
  PROVE  /\ Plain(Result(e, FALSE, FALSE), e, FALSE, FALSE)
         /\ Plain(Result(e, FALSE, TRUE), e, FALSE, TRUE)
         /\ Plain(Result(e, TRUE, FALSE), e, TRUE, FALSE)
BY DEF Result, Results, Plain

(* The outcomes that Outcome makes. *)
LEMMA OutcomeFields ==
  ASSUME NEW how, NEW e, NEW o, o = Outcome(how, e)
  PROVE  /\ o.how = how /\ o.env = e
         /\ how \in {"next", "bad"} \cup Exits /\ e \in Envs => o \in Outcomes
BY DEF Outcome, Outcomes

(* Nothing is moved in no environment. *)
LEMMA NothingMoved == MovedIn({}) = {}
BY DEF MovedIn

(* What an operation on a place does, said for all three. *)
Effect(s, e, r, os, S) ==
  /\ r \in Results /\ r.left = FALSE /\ (r.err <=> Fails(s, e)) /\ r.brk = {} /\ r.cont = {}
  /\ r.env \in EnvsOf(S) /\ Same(r.env, e)
  /\ ~Fails(s, e) => r.env.moved = (e.moved \cup Puts(s, e)) \ Takes(s, e)
  /\ Fails(s, e) => r.env = e
  /\ os = {Outcome(IF Fails(s, e) THEN "bad" ELSE "next", r.env)}

(* The checker and the runs agree on what an operation on a place does. *)
LEMMA PlaceMeaning ==
  ASSUME NEW s, NEW S, PlaceIn(s, S), NEW e \in EnvsOf(S)
  PROVE  Effect(s, e, Place(s, e), {RunPlace(s, e)}, S)
<1>1. s.op \in {"use", "eat", "set"}
  BY DEF PlaceIn, PlaceOps
<1>2. s.op # "set" => (Gone(e, s.v, s.p) <=> Fails(s, e))
  BY DEF Gone, Fails, Wrong
<1>3. s.op = "set" => (Within(e, s.v, s.p) <=> Fails(s, e))
  BY DEF Within, Fails, Wrong
<1>4. e \in Envs /\ Same(e, e)
  BY EnvsOfEnvs DEF Same
<1>5. Lookup(e, s.v) \in e.vars
  BY LookupIn DEF PlaceIn
<1>6. CASE Fails(s, e)
  <2>1. Place(s, e) = Result(e, FALSE, TRUE) /\ RunPlace(s, e) = Outcome("bad", e)
    <3>1. s.op # "set" => Gone(e, s.v, s.p) = TRUE
      BY <1>2, <1>6 DEF Gone
    <3> QED BY <1>1, <1>3, <1>6, <3>1 DEF Place, RunPlace
  <2>2. Plain(Place(s, e), e, FALSE, TRUE)
    BY <2>1, <1>4, ResultFields
  <2> QED BY <2>1, <2>2, <1>4, <1>6 DEF Effect, Plain
<1>7. CASE ~Fails(s, e) /\ s.op = "use"
  <2>1. Place(s, e) = Result(e, FALSE, FALSE) /\ RunPlace(s, e) = Outcome("next", e)
    <3>1. Gone(e, s.v, s.p) = FALSE
      BY <1>2, <1>7 DEF Gone
    <3> QED BY <1>1, <1>7, <3>1 DEF Place, RunPlace
  <2>2. Puts(s, e) = {} /\ Takes(s, e) = {}
    BY <1>7 DEF Puts, Takes
  <2>3. Plain(Place(s, e), e, FALSE, FALSE)
    BY <2>1, <1>4, ResultFields
  <2>4. e.moved = (e.moved \cup Puts(s, e)) \ Takes(s, e)
    BY <2>2
  <2> QED BY <2>1, <2>3, <2>4, <1>4, <1>7 DEF Effect, Plain
<1>8. CASE ~Fails(s, e) /\ s.op = "eat"
  <2> DEFINE x == MoveOut(e, s.v, s.p)
             M == e.moved \cup {<<Lookup(e, s.v), s.p>>}
  <2>1. Place(s, e) = Result(x, FALSE, FALSE) /\ RunPlace(s, e) = Outcome("next", x)
    BY <1>1, <1>2, <1>8 DEF Place, RunPlace
  <2>2. Puts(s, e) = {<<Lookup(e, s.v), s.p>>} /\ Takes(s, e) = {}
    BY <1>8 DEF Puts, Takes
  <2>3. \A m \in M : m[1] \in e.vars /\ m[2] \in Places /\ m = <<m[1], m[2]>>
    BY <1>5, MovedPlace DEF PlaceIn
  <2>4. x = [e EXCEPT !.moved = M]
    BY DEF MoveOut
  <2>5. x \in EnvsOf(S) /\ x.moved = M /\ Same(x, e)
    <3> HIDE DEF M, x
    <3> QED BY <2>3, <2>4, WithMoved
  <2>6. M = (e.moved \cup Puts(s, e)) \ Takes(s, e)
    BY <2>2
  <2>7. x \in Envs
    BY <2>5, EnvsOfEnvs
  <2> HIDE DEF M, x
  <2>8. /\ Place(s, e) \in Results /\ Place(s, e).left = FALSE /\ Place(s, e).err = FALSE
        /\ Place(s, e).env = x /\ Place(s, e).brk = {} /\ Place(s, e).cont = {}
    <3>1. Plain(Place(s, e), x, FALSE, FALSE)
      BY <2>1, <2>7, ResultFields
    <3> QED BY <3>1 DEF Plain
  <2> QED BY <2>1, <2>5, <2>6, <2>8, <1>8 DEF Effect
<1>9. CASE ~Fails(s, e) /\ s.op = "set"
  <2> DEFINE x == Reown(e, s.v, s.p)
             M == e.moved \ ({Lookup(e, s.v)} \X Below[s.p])
             R == {i \in {s.id} : s.p # <<>> /\ GivesBack(e, s.v, s.p)}
  <2>1. Place(s, e) = [Result(x, FALSE, FALSE) EXCEPT !.reowns = R] /\ RunPlace(s, e) = Outcome("next", x)
    BY <1>1, <1>3, <1>9 DEF Place, RunPlace
  <2>2. Puts(s, e) = {} /\ Takes(s, e) = {Lookup(e, s.v)} \X Below[s.p]
    BY <1>9 DEF Puts, Takes
  <2>3. \A m \in M : m[1] \in e.vars /\ m[2] \in Places /\ m = <<m[1], m[2]>>
    BY MovedPlace
  <2>4. x = [e EXCEPT !.moved = M]
    BY DEF Reown
  <2>5. x \in EnvsOf(S) /\ x.moved = M /\ Same(x, e)
    <3> HIDE DEF M, x
    <3> QED BY <2>3, <2>4, WithMoved
  <2>6. M = (e.moved \cup Puts(s, e)) \ Takes(s, e)
    BY <2>2
  <2>7. R \in SUBSET Nat
    BY DEF PlaceIn
  <2>8. /\ Place(s, e) \in Results /\ Place(s, e).left = FALSE /\ Place(s, e).err = FALSE
        /\ Place(s, e).env = x /\ Place(s, e).brk = {} /\ Place(s, e).cont = {}
    <3>1. x \in Envs
      BY <2>5, EnvsOfEnvs
    <3> HIDE DEF R, x
    <3> QED BY <2>1, <2>7, <3>1 DEF Result, Results
  <2> HIDE DEF M, x
  <2> QED BY <2>1, <2>5, <2>6, <2>8, <1>9 DEF Effect
<1> QED BY <1>1, <1>6, <1>7, <1>8, <1>9

(* What fails with less moved fails with more. *)
LEMMA FailsGrows ==
  ASSUME NEW s, NEW e, NEW f, Leq(e, f), Fails(s, e)
  PROVE  Fails(s, f)
<1>1. Lookup(e, s.v) = Lookup(f, s.v)
  BY LookupSame DEF Leq
<1> QED BY <1>1, InMovedOf DEF Fails, Leq

(* What it moves or gives back is a matter of the scopes. *)
LEMMA SameEffect ==
  ASSUME NEW s, NEW e, NEW f, Same(e, f)
  PROVE  Puts(s, e) = Puts(s, f) /\ Takes(s, e) = Takes(s, f)
<1>1. Lookup(e, s.v) = Lookup(f, s.v)
  BY LookupSame
<1> QED BY <1>1 DEF Puts, Takes

(* An operation on a place is judged; one that is not an assignment gives  *)
(* nothing back.                                                           *)
LEMMA PlaceJudged ==
  ASSUME NEW c, NEW k, NEW check, NEW run, NEW s, NEW S, Means(c, k, check, run, s, S),
         PlaceIn(s, S), NEW g \in BOOLEAN, NEW w \in BOOLEAN, g => s.op # "set"
  PROVE  Judged(c, k, S, S, FALSE, g, w)
<1> DEFINE How(e) == IF Fails(s, e) THEN "bad" ELSE "next"
           New(e) == (e.moved \cup Puts(s, e)) \ Takes(s, e)
<1>0. ASSUME NEW e \in EnvsOf(S) PROVE Effect(s, e, c[e], k[e], S)
  <2>1. c[e] = Stmt(check, s, e) /\ k[e] = RunStmt(run, s, e)
    BY DEF Means
  <2>2. c[e] = Place(s, e)
    <3>1. s.op \in PlaceOps
      BY DEF PlaceIn
    <3>2. Stmt(check, s, e) = Place(s, e)
      BY <3>1 DEF Stmt, PlaceOps
    <3> QED BY <2>1, <3>2
  <2>3. k[e] = {RunPlace(s, e)}
    BY <2>1, RunCases DEF PlaceIn
  <2> QED BY <2>2, <2>3, PlaceMeaning
<1>1. ASSUME NEW e \in EnvsOf(S)
      PROVE  /\ c[e] \in Results /\ c[e].left = FALSE /\ (c[e].err <=> Fails(s, e))
             /\ c[e].brk = {} /\ c[e].cont = {}
             /\ c[e].env \in EnvsOf(S) /\ c[e].env \in Envs /\ Same(c[e].env, e)
             /\ ~Fails(s, e) => c[e].env.moved = New(e)
             /\ Fails(s, e) => c[e].env = e
  <2>1. Effect(s, e, c[e], k[e], S)
    BY <1>0
  <2> QED BY <2>1, EnvsOfEnvs DEF Effect
<1>2. ASSUME NEW e \in EnvsOf(S), NEW o \in k[e]
      PROVE  o.how = How(e) /\ o.env = c[e].env /\ o \in Outcomes
  <2>1. o = Outcome(How(e), c[e].env)
    <3>1. k[e] = {Outcome(How(e), c[e].env)}
      BY <1>0 DEF Effect
    <3> QED BY <3>1
  <2>2. How(e) \in {"next", "bad"} /\ c[e].env \in Envs
    BY <1>1
  <2> HIDE DEF How
  <2> QED BY <2>1, <2>2, OutcomeFields
<1>3. ASSUME NEW e \in EnvsOf(S), NEW f \in EnvsOf(S), Same(e, f)
      PROVE  Same(c[e].env, c[f].env) /\ Puts(s, e) = Puts(s, f) /\ Takes(s, e) = Takes(s, f)
  <2>1. Puts(s, e) = Puts(s, f) /\ Takes(s, e) = Takes(s, f)
    BY <1>3, SameEffect
  <2>2. Same(c[e].env, e) /\ Same(c[f].env, f)
    BY <1>1
  <2> QED BY <1>3, <2>1, <2>2 DEF Same
<1> HIDE DEF New
<1>4. Shaped(c, k, S, S, FALSE)
  <2> SUFFICES ASSUME NEW e \in EnvsOf(S)
               PROVE  /\ c[e] \in Results /\ c[e].left = FALSE /\ c[e].env \in EnvsOf(S)
                      /\ k[e] \subseteq Outcomes
                      /\ \A o \in k[e] : o.env \in EnvsOf(S) /\ Same(o.env, c[e].env)
                      /\ \A f \in EnvsOf(S) : Same(e, f) => Same(c[e].env, c[f].env)
    BY DEF Shaped
  <2>1. \A o \in k[e] : o.env \in EnvsOf(S) /\ Same(o.env, c[e].env) /\ o \in Outcomes
    <3>1. \A o \in k[e] : o.env = c[e].env /\ o \in Outcomes
      BY <1>2
    <3>2. c[e].env \in EnvsOf(S) /\ Same(c[e].env, c[e].env)
      BY <1>1 DEF Same
    <3> HIDE DEF How
    <3> QED BY <3>1, <3>2
  <2> QED BY <1>1, <1>3, <2>1
<1>5. ASSUME NEW e \in EnvsOf(S), NEW f \in EnvsOf(S), Leq(e, f), ~c[f].err
      PROVE  /\ ~Fails(s, e) /\ ~Fails(s, f)
             /\ Gains(New(e), New(f), e, f)
  <2>1. ~Fails(s, e) /\ ~Fails(s, f)
    BY <1>1, <1>5, FailsGrows
  <2>2. Puts(s, e) = Puts(s, f) /\ Takes(s, e) = Takes(s, f)
    BY <1>3, <1>5 DEF Leq
  <2> QED BY <1>5, <2>1, <2>2 DEF Gains, New, Leq
<1>6. Steady(c, S)
  <2> SUFFICES ASSUME NEW e \in EnvsOf(S), NEW f \in EnvsOf(S), Leq(e, f), ~c[f].err
               PROVE  /\ ~c[e].err
                      /\ Gains(c[e].env.moved, c[f].env.moved, e, f)
                      /\ Gains(MovedIn(c[e].brk), MovedIn(c[f].brk), e, f)
                      /\ Gains(MovedIn(c[e].cont), MovedIn(c[f].cont), e, f)
    BY DEF Steady
  <2>1. ~Fails(s, e) /\ ~Fails(s, f) /\ Gains(New(e), New(f), e, f)
    BY <1>5
  <2>2. MovedIn(c[e].brk) = {} /\ MovedIn(c[f].brk) = {} /\ MovedIn(c[e].cont) = {} /\ MovedIn(c[f].cont) = {}
    BY <1>1, NothingMoved
  <2>3. Gains({}, {}, e, f)
    BY DEF Gains
  <2> QED BY <1>1, <2>1, <2>2, <2>3
<1>7. Foreseen(c, k, S)
  <2> SUFFICES ASSUME NEW e \in EnvsOf(S), NEW f \in EnvsOf(S), Leq(e, f), ~c[f].err,
                      NEW o \in k[e]
               PROVE  o.how = "next" /\ Leq(o.env, c[f].env)
    BY DEF Foreseen
  <2>1. ~Fails(s, e) /\ ~Fails(s, f) /\ Gains(New(e), New(f), e, f)
    BY <1>5
  <2>2. o.how = "next" /\ o.env = c[e].env
    BY <1>2, <2>1
  <2>3. Same(c[e].env, c[f].env)
    BY <1>3 DEF Leq
  <2>4. c[e].env.moved = New(e) /\ c[f].env.moved = New(f)
    BY <1>1, <2>1
  <2> HIDE DEF How
  <2> QED BY <2>1, <2>2, <2>3, <2>4 DEF Leq, Gains
<1>8. ASSUME g PROVE Grows(c, S)
  <2> SUFFICES ASSUME NEW e \in EnvsOf(S) PROVE e.moved \subseteq c[e].env.moved
    BY DEF Grows
  <2>1. Takes(s, e) = {}
    BY <1>8 DEF Takes
  <2> QED BY <1>1, <2>1 DEF New
<1>9. Witnessed(c, k, S, FALSE)
  <2> SUFFICES ASSUME NEW f \in EnvsOf(S), NEW E \in SUBSET EnvsOf(S), Covers(E, f, S),
                      ~ \E o \in Runs(k, E) : o.how = "bad"
               PROVE  /\ ~c[f].err
                      /\ Ends(Runs(k, E), "next") # {}
                      /\ c[f].env.moved \subseteq MovedIn(Ends(Runs(k, E), "next"))
                      /\ MovedIn(c[f].brk) \subseteq MovedIn(Ends(Runs(k, E), "break"))
                      /\ MovedIn(c[f].cont) \subseteq MovedIn(Ends(Runs(k, E), "continue"))
    BY DEF Witnessed
  <2>1. \A e \in E : Outcome(How(e), c[e].env) \in Runs(k, E)
    <3> SUFFICES ASSUME NEW e \in E PROVE Outcome(How(e), c[e].env) \in Runs(k, E)
      OBVIOUS
    <3>1. k[e] = {Outcome(How(e), c[e].env)}
      BY <1>0 DEF Effect
    <3> HIDE DEF How
    <3> QED BY <3>1, InRuns
  <2>2. \A e \in E : ~Fails(s, e)
    BY <2>1, OutcomeFields
  <2>3. \A e \in E : c[e].env \in Ends(Runs(k, E), "next")
    BY <2>1, <2>2, OutcomeFields, InEnds
  <2>4. \A e \in E : /\ Same(e, f) /\ Lookup(e, s.v) = Lookup(f, s.v)
                     /\ Puts(s, e) = Puts(s, f) /\ Takes(s, e) = Takes(s, f)
                     /\ c[e].env.moved = (e.moved \cup Puts(s, f)) \ Takes(s, f)
    <3> SUFFICES ASSUME NEW e \in E
                 PROVE  /\ Same(e, f) /\ Lookup(e, s.v) = Lookup(f, s.v)
                        /\ Puts(s, e) = Puts(s, f) /\ Takes(s, e) = Takes(s, f)
                        /\ c[e].env.moved = (e.moved \cup Puts(s, f)) \ Takes(s, f)
      OBVIOUS
    <3>1. Same(e, f)
      BY DEF Covers
    <3>2. Puts(s, e) = Puts(s, f) /\ Takes(s, e) = Takes(s, f) /\ Lookup(e, s.v) = Lookup(f, s.v)
      BY <3>1, SameEffect, LookupSame
    <3>3. c[e].env.moved = New(e)
      BY <1>1, <2>2
    <3> QED BY <3>1, <3>2, <3>3 DEF New
  <2>5. ~Fails(s, f)
    <3> SUFFICES ASSUME NEW q \in Moved(f, s.v), Wrong(s, q) PROVE FALSE
      BY DEF Fails
    <3>1. PICK e \in E : <<Lookup(f, s.v), q>> \in e.moved
      BY InMovedOf, InMoved DEF Covers
    <3>2. q \in Moved(e, s.v)
      BY <2>4, <3>1, InMovedOf
    <3> QED BY <2>2, <3>2 DEF Fails
  <2>6. E # {} /\ f.moved \subseteq MovedIn(E)
    BY DEF Covers
  <2>7. c[f].env.moved = (f.moved \cup Puts(s, f)) \ Takes(s, f)
    BY <1>1, <2>5 DEF New
  <2>8. ASSUME NEW m \in c[f].env.moved PROVE \E e \in E : m \in c[e].env.moved
    BY <2>4, <2>6, <2>7, InMoved
  <2>9. c[f].env.moved \subseteq MovedIn(Ends(Runs(k, E), "next"))
    BY <2>3, <2>8, InMoved
  <2>10. MovedIn(c[f].brk) = {} /\ MovedIn(c[f].cont) = {}
    BY <1>1, NothingMoved
  <2> QED BY <1>1, <2>3, <2>5, <2>6, <2>9, <2>10
<1> QED BY <1>4, <1>6, <1>7, <1>8, <1>9 DEF Judged

-----------------------------------------------------------------------------
(* Declarations and exits. *)

(* What moves nothing and cannot fail: a declaration, an exit, nothing. *)
StraightAt(r, os, e, T, how, l) ==
  /\ r \in Results /\ r.left = l /\ r.err = FALSE
  /\ r.env \in EnvsOf(T) /\ r.env.moved = e.moved
  /\ MovedIn(r.brk) = IF how = "break" THEN e.moved ELSE {}
  /\ MovedIn(r.cont) = IF how = "continue" THEN e.moved ELSE {}
  /\ os = {Outcome(how, r.env)}
Straight(c, k, S, T, how, l) ==
  /\ how \in {"next"} \cup Exits /\ l \in BOOLEAN /\ (l <=> how # "next")
  /\ \A e \in EnvsOf(S) : StraightAt(c[e], k[e], e, T, how, l)
  /\ \A e, f \in EnvsOf(S) : Same(e, f) => Same(c[e].env, c[f].env)

(* Such a statement is judged. *)
LEMMA StraightJudged ==
  ASSUME NEW c, NEW k, NEW S, NEW T, NEW how, NEW l \in BOOLEAN, Straight(c, k, S, T, how, l),
         NEW g \in BOOLEAN, NEW w \in BOOLEAN
  PROVE  Judged(c, k, S, T, l, g, w)
<1>1. how \in {"next"} \cup Exits /\ (l <=> how # "next") /\ how # "bad"
  BY DEF Straight, Exits
<1>2. ASSUME NEW e \in EnvsOf(S)
      PROVE  /\ c[e] \in Results /\ c[e].left = l /\ c[e].err = FALSE
             /\ c[e].env \in EnvsOf(T) /\ c[e].env \in Envs /\ c[e].env.moved = e.moved
             /\ MovedIn(c[e].brk) = IF how = "break" THEN e.moved ELSE {}
             /\ MovedIn(c[e].cont) = IF how = "continue" THEN e.moved ELSE {}
             /\ k[e] = {Outcome(how, c[e].env)}
  <2>1. StraightAt(c[e], k[e], e, T, how, l)
    BY DEF Straight
  <2> QED BY <2>1, EnvsOfEnvs DEF StraightAt
<1>3. ASSUME NEW e \in EnvsOf(S), NEW o
      PROVE  o \in k[e] <=> o = Outcome(how, c[e].env) /\ o.how = how /\ o.env = c[e].env /\ o \in Outcomes
  <2>1. k[e] = {Outcome(how, c[e].env)} /\ c[e].env \in Envs
    BY <1>2
  <2> QED BY <1>1, <2>1 DEF Outcome, Outcomes
<1>4. \A e, f \in EnvsOf(S) : Same(e, f) => Same(c[e].env, c[f].env)
  BY DEF Straight
<1>5. Shaped(c, k, S, T, l)
  <2> SUFFICES ASSUME NEW e \in EnvsOf(S)
               PROVE  /\ c[e] \in Results /\ c[e].left = l /\ c[e].env \in EnvsOf(T)
                      /\ k[e] \subseteq Outcomes
                      /\ \A o \in k[e] : o.how = "next" => ~l /\ o.env \in EnvsOf(T) /\ Same(o.env, c[e].env)
                      /\ \A f \in EnvsOf(S) : Same(e, f) => Same(c[e].env, c[f].env)
    BY DEF Shaped
  <2>1. \A o \in k[e] : o.how = how /\ o.env = c[e].env /\ o \in Outcomes
    BY <1>3
  <2> QED BY <1>1, <1>2, <1>4, <2>1 DEF Same
<1>6. Steady(c, S)
  <2> SUFFICES ASSUME NEW e \in EnvsOf(S), NEW f \in EnvsOf(S), Leq(e, f), ~c[f].err
               PROVE  /\ ~c[e].err
                      /\ Gains(c[e].env.moved, c[f].env.moved, e, f)
                      /\ Gains(MovedIn(c[e].brk), MovedIn(c[f].brk), e, f)
                      /\ Gains(MovedIn(c[e].cont), MovedIn(c[f].cont), e, f)
    BY DEF Steady
  <2>1. Gains(e.moved, f.moved, e, f) /\ Gains({}, {}, e, f)
    BY DEF Gains, Leq
  <2> QED BY <1>2, <2>1
<1>7. Foreseen(c, k, S)
  <2> SUFFICES ASSUME NEW e \in EnvsOf(S), NEW f \in EnvsOf(S), Leq(e, f), ~c[f].err,
                      NEW o \in k[e]
               PROVE  /\ o.how # "bad"
                      /\ o.how = "next" => Leq(o.env, c[f].env)
                      /\ o.how = "break" => o.env.moved \subseteq MovedIn(c[f].brk)
                      /\ o.how = "continue" => o.env.moved \subseteq MovedIn(c[f].cont)
    BY DEF Foreseen
  <2>1. o.how = how /\ o.env = c[e].env
    BY <1>3
  <2>2. Same(c[e].env, c[f].env) /\ e.moved \subseteq f.moved
    BY <1>4 DEF Leq
  <2>3. /\ c[e].env.moved = e.moved /\ c[f].env.moved = f.moved
        /\ MovedIn(c[f].brk) = IF how = "break" THEN f.moved ELSE {}
        /\ MovedIn(c[f].cont) = IF how = "continue" THEN f.moved ELSE {}
    BY <1>2
  <2>4. Leq(c[e].env, c[f].env)
    BY <2>2, <2>3 DEF Leq
  <2> QED BY <1>1, <2>1, <2>2, <2>3, <2>4
<1>8. Grows(c, S)
  BY <1>2 DEF Grows
<1>9. Witnessed(c, k, S, l)
  <2> SUFFICES ASSUME NEW f \in EnvsOf(S), NEW E \in SUBSET EnvsOf(S), Covers(E, f, S)
               PROVE  /\ ~c[f].err
                      /\ ~l => /\ Ends(Runs(k, E), "next") # {}
                               /\ c[f].env.moved \subseteq MovedIn(Ends(Runs(k, E), "next"))
                      /\ MovedIn(c[f].brk) \subseteq MovedIn(Ends(Runs(k, E), "break"))
                      /\ MovedIn(c[f].cont) \subseteq MovedIn(Ends(Runs(k, E), "continue"))
    BY DEF Witnessed
  <2>1. \A e \in E : c[e].env \in Ends(Runs(k, E), how)
    <3> SUFFICES ASSUME NEW e \in E PROVE c[e].env \in Ends(Runs(k, E), how)
      OBVIOUS
    <3> DEFINE o == Outcome(how, c[e].env)
    <3>1. o \in k[e] /\ o.how = how /\ o.env = c[e].env
      <4>1. k[e] = {o}
        BY <1>2
      <4> QED BY <4>1 DEF Outcome
    <3> HIDE DEF o
    <3> QED BY <3>1, InRuns, InEnds
  <2>2. E # {} /\ f.moved \subseteq MovedIn(E)
    BY DEF Covers
  <2>3. f.moved \subseteq MovedIn(Ends(Runs(k, E), how))
    <3> SUFFICES ASSUME NEW m \in f.moved PROVE m \in MovedIn(Ends(Runs(k, E), how))
      OBVIOUS
    <3>1. PICK e \in E : m \in e.moved
      BY <2>2, InMoved
    <3>2. m \in c[e].env.moved
      BY <1>2, <3>1
    <3> QED BY <2>1, <3>2, InMoved
  <2>4. Ends(Runs(k, E), how) # {}
    BY <2>1, <2>2
  <2>5. /\ c[f].env.moved = f.moved /\ c[f].err = FALSE
        /\ MovedIn(c[f].brk) = IF how = "break" THEN f.moved ELSE {}
        /\ MovedIn(c[f].cont) = IF how = "continue" THEN f.moved ELSE {}
    BY <1>2
  <2>6. ~l => how = "next"
    BY <1>1
  <2>7. MovedIn(c[f].brk) \subseteq MovedIn(Ends(Runs(k, E), "break"))
    BY <2>3, <2>5
  <2>8. MovedIn(c[f].cont) \subseteq MovedIn(Ends(Runs(k, E), "continue"))
    BY <2>3, <2>5
  <2> QED BY <2>3, <2>4, <2>5, <2>6, <2>7, <2>8
<1> QED BY <1>5, <1>6, <1>7, <1>8, <1>9 DEF Judged

(* What is moved in one environment. *)
LEMMA MovedInOne == ASSUME NEW e PROVE MovedIn({e}) = e.moved
BY DEF MovedIn

(* Nothing: the empty block, and the side of an `if` that is not written. *)
LEMMA NothingJudged ==
  ASSUME NEW c, NEW k, NEW S, NEW g \in BOOLEAN, NEW w \in BOOLEAN,
         \A e \in EnvsOf(S) : c[e] = Result(e, FALSE, FALSE) /\ k[e] = {Outcome("next", e)}
  PROVE  Judged(c, k, S, S, FALSE, g, w)
<1>1. ASSUME NEW e \in EnvsOf(S) PROVE StraightAt(c[e], k[e], e, S, "next", FALSE) /\ c[e].env = e
  <2>1. Plain(c[e], e, FALSE, FALSE) /\ k[e] = {Outcome("next", e)}
    BY ResultFields, EnvsOfEnvs
  <2> QED BY <2>1, NothingMoved DEF Plain, StraightAt
<1>2. Straight(c, k, S, S, "next", FALSE)
  BY <1>1 DEF Straight
<1> QED BY <1>2, StraightJudged

(* s declares a name that S does not have. *)
LetIn(s, S, T) ==
  s.op = "let" /\ s.v \in Names /\ s.v \notin S /\ S # {} /\ T = S \cup {s.v}

(* A declaration is judged. *)
LEMMA LetJudged ==
  ASSUME NEW c, NEW k, NEW check, NEW run, NEW s, NEW S, Means(c, k, check, run, s, S),
         NEW T, LetIn(s, S, T), NEW g \in BOOLEAN, NEW w \in BOOLEAN
  PROVE  Judged(c, k, S, T, FALSE, g, w)
<1>l. s.op = "let" /\ s.v \in Names /\ s.v \notin S /\ S # {} /\ T = S \cup {s.v}
  BY DEF LetIn
<1> USE <1>l
<1>1. ASSUME NEW e \in EnvsOf(S)
      PROVE  /\ Define(e, s.v) \in EnvsOf(T) /\ Define(e, s.v).moved = e.moved
             /\ Define(e, s.v).depth = e.depth
             /\ Define(e, s.v).vars = e.vars \cup {<<e.depth, s.v>>}
  <2> DEFINE b == <<e.depth, s.v>>
             M == e.moved \ ({b} \X Places)
  <2>1. e \in Envs /\ e.depth \in Nat
    BY DEF EnvsOf, Envs
  <2>2. \A a \in e.vars : a[1] \in 1..e.depth /\ a[2] \in S /\ a # b
    BY DEF EnvsOf
  <2>3. e.depth >= 1 /\ e.depth \in 1..e.depth
    <3>1. PICK a \in e.vars : a[1] \in 1..e.depth
      BY DEF EnvsOf
    <3> QED BY <2>1, <3>1
  <2>4. M = e.moved
    BY <2>2, MovedPlace
  <2>5. Define(e, s.v) = [depth |-> e.depth, vars |-> e.vars \cup {b}, moved |-> e.moved]
    <3>1. Define(e, s.v) = [e EXCEPT !.vars = @ \cup {b}, !.moved = M]
      BY DEF Define
    <3> HIDE DEF M, b
    <3> QED BY <2>1, <2>4, <3>1 DEF Envs
  <2>6. b \in Bindings
    BY <2>1 DEF Bindings
  <2>7. Define(e, s.v) \in Envs
    BY <2>1, <2>5, <2>6 DEF Envs
  <2>8. \A a, d \in e.vars \cup {b} : a[2] = d[2] => a = d
    BY <2>2 DEF EnvsOf
  <2>9. \A v \in T : \E a \in e.vars \cup {b} : a[2] = v
    <3>1. \A v \in S : \E a \in e.vars : a[2] = v
      BY DEF EnvsOf
    <3>2. b[2] = s.v
      OBVIOUS
    <3> HIDE DEF b
    <3> QED BY <3>1, <3>2
  <2>10. \A m \in e.moved : m[1] \in e.vars
    BY DEF EnvsOf
  <2>11. \A a \in e.vars \cup {b} : a[1] \in 1..e.depth /\ a[2] \in T
    BY <2>2, <2>3
  <2> HIDE DEF b
  <2> QED BY <2>5, <2>7, <2>8, <2>9, <2>10, <2>11 DEF EnvsOf, b
<1>2. ASSUME NEW e \in EnvsOf(S)
      PROVE  StraightAt(c[e], k[e], e, T, "next", FALSE) /\ c[e].env = Define(e, s.v)
  <2>1. c[e] = Result(Define(e, s.v), FALSE, FALSE) /\ k[e] = {Outcome("next", Define(e, s.v))}
    <3>1. Stmt(check, s, e) = Result(Define(e, s.v), FALSE, FALSE)
      BY DEF Stmt, PlaceOps
    <3>2. RunStmt(run, s, e) = {Outcome("next", Define(e, s.v))}
      BY DEF RunStmt, PlaceOps, Exits, Branching
    <3> QED BY <3>1, <3>2 DEF Means
  <2>2. Define(e, s.v) \in Envs
    BY <1>1, EnvsOfEnvs
  <2>3. Plain(c[e], Define(e, s.v), FALSE, FALSE)
    BY <2>1, <2>2, ResultFields
  <2> QED BY <1>1, <2>1, <2>3, NothingMoved DEF Plain, StraightAt
<1>3. Straight(c, k, S, T, "next", FALSE)
  <2>1. \A e \in EnvsOf(S) : StraightAt(c[e], k[e], e, T, "next", FALSE)
    BY <1>2
  <2>2. \A e, f \in EnvsOf(S) : Same(e, f) => Same(Define(e, s.v), Define(f, s.v))
    BY <1>1 DEF Same
  <2>3. \A e, f \in EnvsOf(S) : Same(e, f) => Same(c[e].env, c[f].env)
    BY <1>2, <2>2
  <2> QED BY <2>1, <2>3 DEF Straight
<1> QED BY <1>3, StraightJudged

(* A return, a break or a continue is judged, and leaves. *)
LEMMA ExitJudged ==
  ASSUME NEW c, NEW k, NEW check, NEW run, NEW s, NEW S, Means(c, k, check, run, s, S),
         s.op \in Exits, NEW g \in BOOLEAN, NEW w \in BOOLEAN
  PROVE  Judged(c, k, S, S, TRUE, g, w)
<1>1. ASSUME NEW e \in EnvsOf(S)
      PROVE  StraightAt(c[e], k[e], e, S, s.op, TRUE) /\ c[e].env = e
  <2>1. k[e] = {Outcome(s.op, e)}
    BY RunCases DEF Means
  <2>2. e \in Envs
    BY EnvsOfEnvs
  <2>3. Plain(Result(e, TRUE, FALSE), e, TRUE, FALSE)
    BY <2>2, ResultFields
  <2>4. CASE s.op = "return"
    <3>1. c[e] = Result(e, TRUE, FALSE)
      BY <2>4 DEF Means, Stmt, PlaceOps
    <3> QED BY <2>1, <2>3, <2>4, <3>1, NothingMoved DEF Plain, StraightAt
  <2>5. CASE s.op = "break"
    <3>1. c[e] = [Result(e, TRUE, FALSE) EXCEPT !.brk = {e}]
      BY <2>5 DEF Means, Stmt, PlaceOps
    <3>2. /\ c[e] \in Results /\ c[e].left = TRUE /\ c[e].err = FALSE /\ c[e].env = e
          /\ c[e].brk = {e} /\ c[e].cont = {}
      <4>1. c[e] = [env |-> e, left |-> TRUE, err |-> FALSE, brk |-> {e}, cont |-> {}, reowns |-> {}]
        BY <3>1 DEF Result
      <4> QED BY <2>2, <4>1 DEF Results
    <3> QED BY <2>1, <2>5, <3>2, NothingMoved, MovedInOne DEF StraightAt
  <2>6. CASE s.op = "continue"
    <3>1. c[e] = [Result(e, TRUE, FALSE) EXCEPT !.cont = {e}]
      BY <2>6 DEF Means, Stmt, PlaceOps
    <3>2. /\ c[e] \in Results /\ c[e].left = TRUE /\ c[e].err = FALSE /\ c[e].env = e
          /\ c[e].brk = {} /\ c[e].cont = {e}
      <4>1. c[e] = [env |-> e, left |-> TRUE, err |-> FALSE, brk |-> {}, cont |-> {e}, reowns |-> {}]
        BY <3>1 DEF Result
      <4> QED BY <2>2, <4>1 DEF Results
    <3> QED BY <2>1, <2>6, <3>2, NothingMoved, MovedInOne DEF StraightAt
  <2> QED BY <2>4, <2>5, <2>6 DEF Exits
<1>2. Straight(c, k, S, S, s.op, TRUE)
  BY <1>1 DEF Straight, Exits
<1> QED BY <1>2, StraightJudged

-----------------------------------------------------------------------------
(* Branches that meet. *)

(* The branches I of a statement meet: F are those whose ends are merged,  *)
(* the others leave.                                                       *)
MeetAt(cs, ks, I, F, r, os, e, S) ==
  /\ r \in Results /\ r.left = FALSE /\ (r.err <=> \E i \in I : cs[i][e].err)
  /\ r.env \in EnvsOf(S) /\ Same(r.env, e)
  /\ \A m : m \in r.env.moved <=> \E i \in F : m \in cs[i][e].env.moved
  /\ \A m : m \in MovedIn(r.brk) <=> \E i \in I : m \in MovedIn(cs[i][e].brk)
  /\ \A m : m \in MovedIn(r.cont) <=> \E i \in I : m \in MovedIn(cs[i][e].cont)
  /\ \A o : o \in os <=> \E i \in I : o \in ks[i][e]
Meet(cs, ks, ls, I, F, c, k, S) ==
  /\ F \subseteq I /\ F # {} /\ \A i \in I \ F : ls[i]
  /\ \A e \in EnvsOf(S) : MeetAt(cs, ks, I, F, c[e], k[e], e, S)

(* Each branch is judged, and leads back to the scope of the statement. *)
ArmsJudged(cs, ks, ls, I, S, g, w) ==
  \A i \in I : /\ ls[i] \in BOOLEAN /\ Judged(cs[i], ks[i], S, S, ls[i], g, w)
               /\ Home(cs[i], ks[i], S)

(* Judged branches meet. *)
Met(cs, ks, ls, I, F, c, k, S, g, w) ==
  Meet(cs, ks, ls, I, F, c, k, S) /\ ArmsJudged(cs, ks, ls, I, S, g, w)

(* Branches that meet have the right form. *)
LEMMA MeetShaped ==
  ASSUME NEW cs, NEW ks, NEW ls, NEW I, NEW F, NEW c, NEW k, NEW S, NEW g, NEW w,
         Met(cs, ks, ls, I, F, c, k, S, g, w)
  PROVE  Shaped(c, k, S, S, FALSE)
<1> SUFFICES ASSUME NEW e \in EnvsOf(S)
             PROVE  /\ c[e] \in Results /\ c[e].left = FALSE /\ c[e].env \in EnvsOf(S)
                    /\ k[e] \subseteq Outcomes
                    /\ \A o \in k[e] : o.how = "next" => o.env \in EnvsOf(S) /\ Same(o.env, c[e].env)
                    /\ \A f \in EnvsOf(S) : Same(e, f) => Same(c[e].env, c[f].env)
  BY DEF Shaped
<1>1. ASSUME NEW f \in EnvsOf(S)
      PROVE  c[f] \in Results /\ c[f].left = FALSE /\ c[f].env \in EnvsOf(S) /\ Same(c[f].env, f)
  BY DEF Met, Meet, MeetAt
<1>2. ASSUME NEW o \in k[e] PROVE o \in Outcomes /\ o.env \in EnvsOf(S) /\ Same(o.env, e)
  <2>1. PICK i \in I : o \in ks[i][e]
    BY DEF Met, Meet, MeetAt
  <2>2. Shaped(cs[i], ks[i], S, S, ls[i]) /\ Home(cs[i], ks[i], S)
    BY DEF Met, ArmsJudged, Judged
  <2> QED BY <2>1, <2>2 DEF Shaped, Home
<1>3. \A o \in k[e] : Same(o.env, c[e].env)
  <2>1. Same(c[e].env, e)
    BY <1>1
  <2>2. \A o \in k[e] : Same(o.env, e)
    BY <1>2
  <2> QED BY <2>1, <2>2 DEF Same
<1>4. \A f \in EnvsOf(S) : Same(e, f) => Same(c[e].env, c[f].env)
  BY <1>1 DEF Same
<1> QED BY <1>1, <1>2, <1>3, <1>4

(* They are steady. *)
LEMMA MeetSteady ==
  ASSUME NEW cs, NEW ks, NEW ls, NEW I, NEW F, NEW c, NEW k, NEW S, NEW g, NEW w,
         Met(cs, ks, ls, I, F, c, k, S, g, w)
  PROVE  Steady(c, S)
<1> SUFFICES ASSUME NEW e \in EnvsOf(S), NEW f \in EnvsOf(S), Leq(e, f), ~c[f].err
             PROVE  /\ ~c[e].err
                    /\ Gains(c[e].env.moved, c[f].env.moved, e, f)
                    /\ Gains(MovedIn(c[e].brk), MovedIn(c[f].brk), e, f)
                    /\ Gains(MovedIn(c[e].cont), MovedIn(c[f].cont), e, f)
  BY DEF Steady
<1>1. ASSUME NEW i \in I
      PROVE  /\ ~cs[i][e].err
             /\ Gains(cs[i][e].env.moved, cs[i][f].env.moved, e, f)
             /\ Gains(MovedIn(cs[i][e].brk), MovedIn(cs[i][f].brk), e, f)
             /\ Gains(MovedIn(cs[i][e].cont), MovedIn(cs[i][f].cont), e, f)
  <2>1. ~cs[i][f].err
    BY DEF Met, Meet, MeetAt
  <2>2. Steady(cs[i], S)
    BY DEF Met, ArmsJudged, Judged
  <2> QED BY <2>1, <2>2 DEF Steady
<1>2. ~c[e].err
  BY <1>1 DEF Met, Meet, MeetAt
<1>3. Gains(c[e].env.moved, c[f].env.moved, e, f)
  <2>1. F \subseteq I
    BY DEF Met, Meet
  <2>2. /\ \A m : m \in c[e].env.moved <=> \E i \in F : m \in cs[i][e].env.moved
        /\ \A m : m \in c[f].env.moved <=> \E i \in F : m \in cs[i][f].env.moved
    BY DEF Met, Meet, MeetAt
  <2> QED BY <1>1, <2>1, <2>2 DEF Gains
<1>4. Gains(MovedIn(c[e].brk), MovedIn(c[f].brk), e, f)
  <2>1. /\ \A m : m \in MovedIn(c[e].brk) <=> \E i \in I : m \in MovedIn(cs[i][e].brk)
        /\ \A m : m \in MovedIn(c[f].brk) <=> \E i \in I : m \in MovedIn(cs[i][f].brk)
    BY DEF Met, Meet, MeetAt
  <2> QED BY <1>1, <2>1 DEF Gains
<1>5. Gains(MovedIn(c[e].cont), MovedIn(c[f].cont), e, f)
  <2>1. /\ \A m : m \in MovedIn(c[e].cont) <=> \E i \in I : m \in MovedIn(cs[i][e].cont)
        /\ \A m : m \in MovedIn(c[f].cont) <=> \E i \in I : m \in MovedIn(cs[i][f].cont)
    BY DEF Met, Meet, MeetAt
  <2> QED BY <1>1, <2>1 DEF Gains
<1> QED BY <1>2, <1>3, <1>4, <1>5

(* What they do is foreseen, since an end that is not merged is none. *)
LEMMA MeetForeseen ==
  ASSUME NEW cs, NEW ks, NEW ls, NEW I, NEW F, NEW c, NEW k, NEW S, NEW g, NEW w,
         Met(cs, ks, ls, I, F, c, k, S, g, w)
  PROVE  Foreseen(c, k, S)
<1> SUFFICES ASSUME NEW e \in EnvsOf(S), NEW f \in EnvsOf(S), Leq(e, f), ~c[f].err,
                    NEW o \in k[e]
             PROVE  /\ o.how # "bad"
                    /\ o.how = "next" => Leq(o.env, c[f].env)
                    /\ o.how = "break" => o.env.moved \subseteq MovedIn(c[f].brk)
                    /\ o.how = "continue" => o.env.moved \subseteq MovedIn(c[f].cont)
  BY DEF Foreseen
<1>1. PICK i \in I : o \in ks[i][e]
  BY DEF Met, Meet, MeetAt
<1>2. /\ Foreseen(cs[i], ks[i], S) /\ Shaped(cs[i], ks[i], S, S, ls[i]) /\ Home(cs[i], ks[i], S)
      /\ ls[i] \in BOOLEAN
  BY DEF Met, ArmsJudged, Judged
<1>3. ~cs[i][f].err
  BY DEF Met, Meet, MeetAt
<1>4. /\ o.how # "bad"
      /\ o.how = "next" => Leq(o.env, cs[i][f].env)
      /\ o.how = "break" => o.env.moved \subseteq MovedIn(cs[i][f].brk)
      /\ o.how = "continue" => o.env.moved \subseteq MovedIn(cs[i][f].cont)
  BY <1>1, <1>2, <1>3 DEF Foreseen
<1>5. o.how = "next" => i \in F
  <2>1. o.how = "next" => ~ls[i]
    BY <1>1, <1>2 DEF Shaped
  <2> QED BY <2>1 DEF Met, Meet
<1>6. /\ \A m : m \in c[f].env.moved <=> \E j \in F : m \in cs[j][f].env.moved
      /\ \A m : m \in MovedIn(c[f].brk) <=> \E j \in I : m \in MovedIn(cs[j][f].brk)
      /\ \A m : m \in MovedIn(c[f].cont) <=> \E j \in I : m \in MovedIn(cs[j][f].cont)
      /\ Same(c[f].env, f)
  BY DEF Met, Meet, MeetAt
<1>7. o.how = "next" => Leq(o.env, c[f].env)
  <2>1. Same(o.env, c[f].env)
    <3>1. Same(o.env, e)
      BY <1>1, <1>2 DEF Home
    <3> QED BY <3>1, <1>6 DEF Same, Leq
  <2> QED BY <1>4, <1>5, <1>6, <2>1 DEF Leq
<1> QED BY <1>4, <1>6, <1>7

(* They give nothing back, since some end is merged. *)
LEMMA MeetGrows ==
  ASSUME NEW cs, NEW ks, NEW ls, NEW I, NEW F, NEW c, NEW k, NEW S, NEW g, NEW w,
         Met(cs, ks, ls, I, F, c, k, S, g, w), g
  PROVE  Grows(c, S)
<1> SUFFICES ASSUME NEW e \in EnvsOf(S) PROVE e.moved \subseteq c[e].env.moved
  BY DEF Grows
<1>1. PICK i \in F : i \in I
  BY DEF Met, Meet
<1>2. Grows(cs[i], S)
  BY <1>1 DEF Met, ArmsJudged, Judged
<1>3. e.moved \subseteq cs[i][e].env.moved
  BY <1>2 DEF Grows
<1>4. \A m : m \in c[e].env.moved <=> \E j \in F : m \in cs[j][e].env.moved
  BY DEF Met, Meet, MeetAt
<1> QED BY <1>1, <1>3, <1>4

(* What is claimed of them is witnessed, if the ends that are merged can   *)
(* be reached. (Where every branch leaves, the code goes on with the state *)
(* of one.)                                                                *)
LEMMA MeetWitnessed ==
  ASSUME NEW cs, NEW ks, NEW ls, NEW I, NEW F, NEW c, NEW k, NEW S, NEW g, NEW w,
         Met(cs, ks, ls, I, F, c, k, S, g, w), w, \A i \in F : ~ls[i]
  PROVE  Witnessed(c, k, S, FALSE)
<1> SUFFICES ASSUME NEW f \in EnvsOf(S), NEW E \in SUBSET EnvsOf(S), Covers(E, f, S),
                    ~ \E o \in Runs(k, E) : o.how = "bad"
             PROVE  /\ ~c[f].err
                    /\ Ends(Runs(k, E), "next") # {}
                    /\ c[f].env.moved \subseteq MovedIn(Ends(Runs(k, E), "next"))
                    /\ MovedIn(c[f].brk) \subseteq MovedIn(Ends(Runs(k, E), "break"))
                    /\ MovedIn(c[f].cont) \subseteq MovedIn(Ends(Runs(k, E), "continue"))
  BY DEF Witnessed
<1>1. ASSUME NEW i \in I, NEW o \in Runs(ks[i], E) PROVE o \in Runs(k, E)
  <2>1. PICK e \in E : o \in ks[i][e]
    BY InRuns
  <2>2. o \in k[e]
    BY <2>1 DEF Met, Meet, MeetAt
  <2> QED BY <2>2, InRuns
<1>2. ASSUME NEW i \in I
      PROVE  /\ ~cs[i][f].err
             /\ ~ls[i] => /\ Ends(Runs(ks[i], E), "next") # {}
                          /\ cs[i][f].env.moved \subseteq MovedIn(Ends(Runs(ks[i], E), "next"))
             /\ MovedIn(cs[i][f].brk) \subseteq MovedIn(Ends(Runs(ks[i], E), "break"))
             /\ MovedIn(cs[i][f].cont) \subseteq MovedIn(Ends(Runs(ks[i], E), "continue"))
  <2>1. ~ \E o \in Runs(ks[i], E) : o.how = "bad"
    BY <1>1
  <2>2. Witnessed(cs[i], ks[i], S, ls[i])
    BY DEF Met, ArmsJudged, Judged
  <2> QED BY <2>1, <2>2 DEF Witnessed
<1>3. ASSUME NEW i \in I, NEW how, NEW m \in MovedIn(Ends(Runs(ks[i], E), how))
      PROVE  m \in MovedIn(Ends(Runs(k, E), how))
  <2>1. PICK e \in Ends(Runs(ks[i], E), how) : m \in e.moved
    BY InMoved
  <2>2. e \in Ends(Runs(k, E), how)
    BY <1>1, InEnds
  <2> QED BY <2>1, <2>2, InMoved
<1>4. F \subseteq I /\ F # {}
  BY DEF Met, Meet
<1>5. ~c[f].err
  BY <1>2 DEF Met, Meet, MeetAt
<1>6. Ends(Runs(k, E), "next") # {}
  <2>1. PICK i \in F : i \in I /\ ~ls[i]
    BY <1>4
  <2>2. PICK o \in Runs(ks[i], E) : o.how = "next"
    BY <1>2, <2>1, SomeEnd
  <2>3. o \in Runs(k, E)
    BY <1>1, <2>1
  <2> QED BY <2>2, <2>3, SomeEnd
<1>7. c[f].env.moved \subseteq MovedIn(Ends(Runs(k, E), "next"))
  <2> SUFFICES ASSUME NEW m \in c[f].env.moved PROVE m \in MovedIn(Ends(Runs(k, E), "next"))
    OBVIOUS
  <2>1. PICK i \in F : m \in cs[i][f].env.moved
    BY DEF Met, Meet, MeetAt
  <2>2. i \in I /\ ~ls[i] /\ m \in MovedIn(Ends(Runs(ks[i], E), "next"))
    BY <1>2, <1>4, <2>1
  <2> QED BY <1>3, <2>2
<1>8. MovedIn(c[f].brk) \subseteq MovedIn(Ends(Runs(k, E), "break"))
  <2> SUFFICES ASSUME NEW m \in MovedIn(c[f].brk) PROVE m \in MovedIn(Ends(Runs(k, E), "break"))
    OBVIOUS
  <2>1. PICK i \in I : m \in MovedIn(cs[i][f].brk)
    BY DEF Met, Meet, MeetAt
  <2> QED BY <1>2, <1>3, <2>1
<1>9. MovedIn(c[f].cont) \subseteq MovedIn(Ends(Runs(k, E), "continue"))
  <2> SUFFICES ASSUME NEW m \in MovedIn(c[f].cont) PROVE m \in MovedIn(Ends(Runs(k, E), "continue"))
    OBVIOUS
  <2>1. PICK i \in I : m \in MovedIn(cs[i][f].cont)
    BY DEF Met, Meet, MeetAt
  <2> QED BY <1>2, <1>3, <2>1
<1> QED BY <1>5, <1>6, <1>7, <1>8, <1>9

(* Judged branches meet, and none of those that are merged leaves if w is  *)
(* claimed.                                                                *)
MeetOf(cs, ks, ls, I, F, c, k, S, g, w) ==
  /\ g \in BOOLEAN /\ w \in BOOLEAN
  /\ Meet(cs, ks, ls, I, F, c, k, S) /\ ArmsJudged(cs, ks, ls, I, S, g, w)
  /\ w => \A i \in F : ~ls[i]

(* Branches that meet are judged when each branch is. *)
LEMMA MeetJudged ==
  ASSUME NEW cs, NEW ks, NEW ls, NEW I, NEW F, NEW c, NEW k, NEW S, NEW g, NEW w,
         MeetOf(cs, ks, ls, I, F, c, k, S, g, w)
  PROVE  Judged(c, k, S, S, FALSE, g, w)
<1>0. /\ g \in BOOLEAN /\ w \in BOOLEAN
      /\ Meet(cs, ks, ls, I, F, c, k, S) /\ ArmsJudged(cs, ks, ls, I, S, g, w)
      /\ w => \A i \in F : ~ls[i]
  BY DEF MeetOf
<1> USE <1>0
<1>1. Met(cs, ks, ls, I, F, c, k, S, g, w)
  BY DEF Met
<1>2. Shaped(c, k, S, S, FALSE) /\ Steady(c, S) /\ Foreseen(c, k, S)
  BY <1>1, MeetShaped, MeetSteady, MeetForeseen
<1>3. g => Grows(c, S)
  BY <1>1, MeetGrows
<1>4. w => Witnessed(c, k, S, FALSE)
  BY <1>1, MeetWitnessed
<1> QED BY <1>2, <1>3, <1>4 DEF Judged

-----------------------------------------------------------------------------
(* Blocks of compound statements. *)

(* What a block means, alone and in a scope. *)
BlockOf(check, b)   == [e \in Envs |-> Block(check, b, e)]
RunBlockOf(run, b)  == [e \in Envs |-> RunBlock(run, b, e)]
ScopedOf(check, b)  == [e \in Envs |-> Scoped(check, b, e)]
RunScopedOf(run, b) == [e \in Envs |-> RunScoped(run, b, e)]

(* The judgement of a block. *)
BlockJudged(check, run, b, S, T, l, g, w) ==
  Judged(BlockOf(check, b), RunBlockOf(run, b), S, T, l, g, w)

(* A judged block, with what is claimed of it. *)
ScopedBlock(check, run, b, S, T, l, g, w) ==
  /\ l \in BOOLEAN /\ g \in BOOLEAN /\ w \in BOOLEAN
  /\ BlockJudged(check, run, b, S, T, l, g, w)

(* A block of a compound statement is judged, in its scope, when it is     *)
(* judged alone.                                                           *)
LEMMA ScopedJudged ==
  ASSUME NEW check, NEW run, NEW b, NEW S, NEW T, NEW l, NEW g, NEW w,
         ScopedBlock(check, run, b, S, T, l, g, w)
  PROVE  /\ Judged(ScopedOf(check, b), RunScopedOf(run, b), S, S, l, g, w)
         /\ Home(ScopedOf(check, b), RunScopedOf(run, b), S)
<1>1. Enclosed(BlockOf(check, b), RunBlockOf(run, b), ScopedOf(check, b), RunScopedOf(run, b), S)
  <2> SUFFICES ASSUME NEW e \in EnvsOf(S)
               PROVE  /\ ScopedOf(check, b)[e] =
                           [BlockOf(check, b)[PushScope(e)] EXCEPT
                              !.env  = PopScope(@, e),
                              !.brk  = {PopScope(x, e) : x \in @},
                              !.cont = {PopScope(x, e) : x \in @}]
                      /\ RunScopedOf(run, b)[e] =
                           {[o EXCEPT !.env = PopScope(@, e)] : o \in RunBlockOf(run, b)[PushScope(e)]}
    BY DEF Enclosed
  <2>1. e \in Envs /\ PushScope(e) \in Envs
    BY Pushed, EnvsOfEnvs
  <2>2. BlockOf(check, b)[PushScope(e)] = Block(check, b, PushScope(e))
    BY <2>1 DEF BlockOf
  <2>3. RunBlockOf(run, b)[PushScope(e)] = RunBlock(run, b, PushScope(e))
    BY <2>1 DEF RunBlockOf
  <2>4. ScopedOf(check, b)[e] = Scoped(check, b, e) /\ RunScopedOf(run, b)[e] = RunScoped(run, b, e)
    BY <2>1 DEF ScopedOf, RunScopedOf
  <2> QED BY <2>2, <2>3, <2>4 DEF Scoped, RunScoped
<1>2. /\ l \in BOOLEAN /\ g \in BOOLEAN /\ w \in BOOLEAN
      /\ Judged(BlockOf(check, b), RunBlockOf(run, b), S, T, l, g, w)
  BY DEF ScopedBlock, BlockJudged
<1> QED BY <1>1, <1>2, JudgedEnclosed

(* The result r goes on with e and has what the results rs report. *)
SumOf(rs, e, r) ==
  /\ r \in Results /\ r.env = e /\ r.left = FALSE /\ (r.err <=> \E x \in rs : x.err)
  /\ \A m : m \in MovedIn(r.brk) <=> \E x \in rs : m \in MovedIn(x.brk)
  /\ \A m : m \in MovedIn(r.cont) <=> \E x \in rs : m \in MovedIn(x.cont)

(* That is what Together makes. *)
LEMMA TogetherFields ==
  ASSUME NEW rs \in SUBSET Results, NEW e \in Envs
  PROVE  SumOf(rs, e, Together(rs, e))
<1> DEFINE r == Together(rs, e)
<1>1. /\ UNION {x.brk : x \in rs} \in SUBSET Envs
      /\ UNION {x.cont : x \in rs} \in SUBSET Envs
      /\ UNION {x.reowns : x \in rs} \in SUBSET Nat
  BY DEF Results
<1>2. /\ r.env = e /\ r.left = FALSE /\ r.err = \E x \in rs : x.err
      /\ r.brk = UNION {x.brk : x \in rs} /\ r.cont = UNION {x.cont : x \in rs}
  BY DEF Together
<1>3. r \in Results
  BY <1>1 DEF Together, Results
<1>4. \A m : m \in MovedIn(r.brk) <=> \E x \in rs : m \in MovedIn(x.brk)
  BY <1>2 DEF MovedIn
<1>5. \A m : m \in MovedIn(r.cont) <=> \E x \in rs : m \in MovedIn(x.cont)
  BY <1>2 DEF MovedIn
<1> HIDE DEF r
<1>6. SumOf(rs, e, r)
  BY <1>2, <1>3, <1>4, <1>5 DEF SumOf
<1> QED BY <1>6 DEF r

(* The meanings of a block of a statement, in its scope. *)
Arm(check, run, b, S, l) ==
  /\ Shaped(ScopedOf(check, b), RunScopedOf(run, b), S, S, l)
  /\ Home(ScopedOf(check, b), RunScopedOf(run, b), S)

(* What they are in an environment. *)
LEMMA ArmFields ==
  ASSUME NEW check, NEW run, NEW b, NEW S, NEW l \in BOOLEAN, Arm(check, run, b, S, l),
         NEW e \in EnvsOf(S)
  PROVE  /\ ScopedOf(check, b)[e] = Scoped(check, b, e)
         /\ RunScopedOf(run, b)[e] = RunScoped(run, b, e)
         /\ Scoped(check, b, e) \in Results /\ Scoped(check, b, e).left = l
         /\ Scoped(check, b, e).env \in EnvsOf(S) /\ Same(Scoped(check, b, e).env, e)
         /\ Scoped(check, b, e).env \in Envs
<1>1. e \in Envs
  BY EnvsOfEnvs
<1>2. ScopedOf(check, b)[e] = Scoped(check, b, e) /\ RunScopedOf(run, b)[e] = RunScoped(run, b, e)
  BY <1>1 DEF ScopedOf, RunScopedOf
<1> QED BY <1>2, EnvsOfEnvs DEF Arm, Shaped, Home

(* The meanings of the side of an `if` that is not written. *)
NoResult  == [e \in Envs |-> Result(e, FALSE, FALSE)]
NoOutcome == [e \in Envs |-> {Outcome("next", e)}]

(* What they are in an environment. *)
LEMMA NoFields ==
  ASSUME NEW S, NEW e \in EnvsOf(S)
  PROVE  NoResult[e] = Result(e, FALSE, FALSE) /\ NoOutcome[e] = {Outcome("next", e)}
BY EnvsOfEnvs DEF NoResult, NoOutcome

(* They are judged. *)
LEMMA NoJudged ==
  ASSUME NEW S, NEW g \in BOOLEAN, NEW w \in BOOLEAN
  PROVE  Judged(NoResult, NoOutcome, S, S, FALSE, g, w) /\ Home(NoResult, NoOutcome, S)
<1>1. \A e \in EnvsOf(S) : NoResult[e] = Result(e, FALSE, FALSE) /\ NoOutcome[e] = {Outcome("next", e)}
  BY NoFields
<1>2. Home(NoResult, NoOutcome, S)
  <2> SUFFICES ASSUME NEW e \in EnvsOf(S)
               PROVE  /\ NoResult[e].env \in EnvsOf(S) /\ Same(NoResult[e].env, e)
                      /\ \A x \in NoResult[e].brk \cup NoResult[e].cont : x \in EnvsOf(S) /\ Same(x, e)
                      /\ \A o \in NoOutcome[e] : o.env \in EnvsOf(S) /\ Same(o.env, e)
    BY DEF Home
  <2>1. Plain(NoResult[e], e, FALSE, FALSE) /\ Same(e, e)
    BY <1>1, ResultFields, EnvsOfEnvs DEF Same
  <2>2. \A o \in NoOutcome[e] : o.env = e
    <3>1. NoOutcome[e] = {Outcome("next", e)}
      BY <1>1
    <3> QED BY <3>1 DEF Outcome
  <2> QED BY <2>1, <2>2 DEF Plain
<1>3. Judged(NoResult, NoOutcome, S, S, FALSE, g, w)
  BY <1>1, NothingJudged
<1> QED BY <1>2, <1>3

-----------------------------------------------------------------------------
(* An `if`, an if/else and a match. *)

(* The block of an `if` without an else gives nothing back. *)
ThenLone(check, run, s, S, T, l, t, w) == t /\ BlockJudged(check, run, s.blocks[1], S, T, l, t, w)

(* c and k are what such an `if` means. *)
IfOf(c, k, check, run, s, S, T, l, t, g, w) ==
  /\ l \in BOOLEAN /\ t \in BOOLEAN /\ g \in BOOLEAN /\ w \in BOOLEAN
  /\ s.op = "if" /\ Means(c, k, check, run, s, S) /\ ThenLone(check, run, s, S, T, l, t, w)

(* An `if` without an else is judged: the checker goes on with the end of  *)
(* the branch alone, which is right as long as that has moved all that the *)
(* beginning has.                                                          *)
LEMMA IfJudged ==
  ASSUME NEW c, NEW k, NEW check, NEW run, NEW s, NEW S, NEW T, NEW l, NEW t, NEW g, NEW w,
         IfOf(c, k, check, run, s, S, T, l, t, g, w)
  PROVE  Judged(c, k, S, S, FALSE, g, w)
<1>t. /\ l \in BOOLEAN /\ t \in BOOLEAN /\ g \in BOOLEAN /\ w \in BOOLEAN
      /\ s.op = "if" /\ Means(c, k, check, run, s, S)
      /\ t /\ BlockJudged(check, run, s.blocks[1], S, T, l, t, w)
  BY DEF IfOf, ThenLone
<1> USE <1>t
<1>0. PICK n \in BOOLEAN : n = FALSE
  OBVIOUS
<1> DEFINE b  == s.blocks[1]
           cs == <<ScopedOf(check, b), NoResult>>
           ks == <<RunScopedOf(run, b), NoOutcome>>
           ls == <<l, n>>
           I  == {1, 2}
           F  == IF l THEN {2} ELSE {1, 2}
<1>1. /\ Judged(ScopedOf(check, b), RunScopedOf(run, b), S, S, l, t, w)
      /\ Home(ScopedOf(check, b), RunScopedOf(run, b), S)
  <2>1. ScopedBlock(check, run, b, S, T, l, t, w)
    BY DEF ScopedBlock
  <2> QED BY <2>1, ScopedJudged
<1>2. ArmsJudged(cs, ks, ls, I, S, t, w)
  <2> SUFFICES ASSUME NEW i \in I
               PROVE  /\ ls[i] \in BOOLEAN /\ Judged(cs[i], ks[i], S, S, ls[i], t, w)
                      /\ Home(cs[i], ks[i], S)
    BY DEF ArmsJudged
  <2>1. Judged(NoResult, NoOutcome, S, S, n, t, w) /\ Home(NoResult, NoOutcome, S)
    BY <1>0, NoJudged
  <2>2. CASE i = 1
    BY <1>1, <2>2
  <2>3. CASE i = 2
    <3>1. cs[2] = NoResult /\ ks[2] = NoOutcome /\ ls[2] = n
      OBVIOUS
    <3> QED BY <2>1, <2>3, <3>1
  <2> QED BY <2>2, <2>3
<1>a. Arm(check, run, b, S, l)
  BY <1>1 DEF Arm, Judged
<1>3. ASSUME NEW e \in EnvsOf(S) PROVE MeetAt(cs, ks, I, F, c[e], k[e], e, S)
  <2> DEFINE then == Scoped(check, b, e)
             out == IF then.left THEN RestoreStates(then.env, SaveStates(e)) ELSE then.env
             no == Result(e, FALSE, FALSE)
  <2>1. c[e] = IfThen(check, s, e) /\ k[e] = {Outcome("next", e)} \cup RunScoped(run, b, e)
    <3>1. Stmt(check, s, e) = IfThen(check, s, e)
      BY DEF Stmt, PlaceOps
    <3>2. RunStmt(run, s, e) = {Outcome("next", e)} \cup RunScoped(run, b, e)
      BY DEF RunStmt, PlaceOps, Exits, Branching
    <3> QED BY <3>1, <3>2 DEF Means
  <2>2. c[e] = Together({then}, out)
    BY <2>1 DEF IfThen
  <2>3. /\ cs[1][e] = then /\ ks[1][e] = RunScoped(run, b, e)
        /\ then \in Results /\ then.left = l /\ then.env \in EnvsOf(S) /\ Same(then.env, e)
        /\ then.env \in Envs
    BY <1>a, ArmFields
  <2>4. cs[2][e] = no /\ ks[2][e] = {Outcome("next", e)} /\ Plain(no, e, FALSE, FALSE) /\ e \in Envs
    BY NoFields, ResultFields, EnvsOfEnvs
  <2>5. out = IF l THEN e ELSE then.env
    BY <2>3, RestoreSaved
  <2>6. out \in EnvsOf(S) /\ out \in Envs /\ Same(out, e)
    BY <2>3, <2>4, <2>5 DEF Same
  <2>7. \A m : m \in out.moved <=> \E i \in F : m \in cs[i][e].env.moved
    <3>1. e.moved \subseteq then.env.moved
      BY <1>1, <2>3 DEF Judged, Grows
    <3>2. no.env = e
      BY <2>4 DEF Plain
    <3> HIDE DEF then, no, cs, out
    <3> QED BY <2>3, <2>4, <2>5, <3>1, <3>2
  <2> HIDE DEF out, then, no, cs, ks
  <2>8. /\ c[e] \in Results /\ c[e].env = out /\ c[e].left = FALSE
        /\ (c[e].err <=> \E x \in {then} : x.err)
        /\ \A m : m \in MovedIn(c[e].brk) <=> \E x \in {then} : m \in MovedIn(x.brk)
        /\ \A m : m \in MovedIn(c[e].cont) <=> \E x \in {then} : m \in MovedIn(x.cont)
    <3>1. {then} \in SUBSET Results
      BY <2>3
    <3>2. SumOf({then}, out, c[e])
      BY <2>2, <2>6, <3>1, TogetherFields
    <3> QED BY <3>2 DEF SumOf
  <2>9. no.err = FALSE /\ MovedIn(no.brk) = {} /\ MovedIn(no.cont) = {}
    BY <2>4, NothingMoved DEF Plain
  <2>10. \A o : o \in k[e] <=> \E i \in I : o \in ks[i][e]
    BY <2>1, <2>3, <2>4
  <2>11. /\ (c[e].err <=> \E i \in I : cs[i][e].err)
         /\ \A m : m \in MovedIn(c[e].brk) <=> \E i \in I : m \in MovedIn(cs[i][e].brk)
         /\ \A m : m \in MovedIn(c[e].cont) <=> \E i \in I : m \in MovedIn(cs[i][e].cont)
    BY <2>3, <2>4, <2>8, <2>9
  <2> HIDE DEF I, F
  <2> QED BY <2>6, <2>7, <2>8, <2>10, <2>11 DEF MeetAt
<1>4. F \subseteq I /\ F # {} /\ (\A i \in I \ F : ls[i]) /\ \A i \in F : ~ls[i]
  <2>1. CASE l
    <3>1. F = {2} /\ ls[1] = l /\ ls[2] = n /\ I \ F = {1}
      BY <2>1
    <3> QED BY <1>0, <2>1, <3>1
  <2>2. CASE ~l
    BY <1>0, <2>2
  <2> QED BY <2>1, <2>2
<1> HIDE DEF cs, ks, ls, I, F
<1>5. Meet(cs, ks, ls, I, F, c, k, S)
  BY <1>3, <1>4 DEF Meet
<1>6. Judged(c, k, S, S, FALSE, t, w)
  <2>1. MeetOf(cs, ks, ls, I, F, c, k, S, t, w)
    BY <1>2, <1>4, <1>5 DEF MeetOf
  <2> QED BY <2>1, MeetJudged
<1> QED BY <1>6 DEF Judged

(* The two blocks of an if/else; one of them does not leave. *)
ThenElse(check, run, s, S, T1, l1, T2, l2, g, w) ==
  /\ DOMAIN s.blocks = 1..2
  /\ BlockJudged(check, run, s.blocks[1], S, T1, l1, g, w)
  /\ BlockJudged(check, run, s.blocks[2], S, T2, l2, g, w)
  /\ w => ~(l1 /\ l2)

(* c and k are what such a statement means. *)
IfElseOf(c, k, check, run, s, S, T1, l1, T2, l2, g, w) ==
  /\ l1 \in BOOLEAN /\ l2 \in BOOLEAN /\ g \in BOOLEAN /\ w \in BOOLEAN
  /\ s.op = "ifelse" /\ Means(c, k, check, run, s, S)
  /\ ThenElse(check, run, s, S, T1, l1, T2, l2, g, w)

(* An if/else is judged: the second branch begins where the first one did, *)
(* and the two ends are merged.                                            *)
LEMMA IfElseJudged ==
  ASSUME NEW c, NEW k, NEW check, NEW run, NEW s, NEW S, NEW T1, NEW l1, NEW T2, NEW l2,
         NEW g, NEW w, IfElseOf(c, k, check, run, s, S, T1, l1, T2, l2, g, w)
  PROVE  Judged(c, k, S, S, FALSE, g, w)
<1>0. /\ l1 \in BOOLEAN /\ l2 \in BOOLEAN /\ g \in BOOLEAN /\ w \in BOOLEAN
      /\ s.op = "ifelse" /\ Means(c, k, check, run, s, S)
      /\ ThenElse(check, run, s, S, T1, l1, T2, l2, g, w)
  BY DEF IfElseOf
<1> USE <1>0
<1>t. /\ DOMAIN s.blocks = 1..2
      /\ BlockJudged(check, run, s.blocks[1], S, T1, l1, g, w)
      /\ BlockJudged(check, run, s.blocks[2], S, T2, l2, g, w)
      /\ w => ~(l1 /\ l2)
  BY DEF ThenElse
<1> USE <1>t
<1> DEFINE b1 == s.blocks[1]
           b2 == s.blocks[2]
           cs == <<ScopedOf(check, b1), ScopedOf(check, b2)>>
           ks == <<RunScopedOf(run, b1), RunScopedOf(run, b2)>>
           ls == <<l1, l2>>
           I  == {1, 2}
           F  == IF l1 THEN {2} ELSE IF l2 THEN {1} ELSE {1, 2}
<1>1. /\ Judged(ScopedOf(check, b1), RunScopedOf(run, b1), S, S, l1, g, w)
      /\ Home(ScopedOf(check, b1), RunScopedOf(run, b1), S)
      /\ Judged(ScopedOf(check, b2), RunScopedOf(run, b2), S, S, l2, g, w)
      /\ Home(ScopedOf(check, b2), RunScopedOf(run, b2), S)
  <2>1. /\ ScopedBlock(check, run, b1, S, T1, l1, g, w)
        /\ ScopedBlock(check, run, b2, S, T2, l2, g, w)
    BY DEF ScopedBlock
  <2> QED BY <2>1, ScopedJudged
<1>2. ArmsJudged(cs, ks, ls, I, S, g, w)
  BY <1>1 DEF ArmsJudged
<1>a. Arm(check, run, b1, S, l1) /\ Arm(check, run, b2, S, l2)
  BY <1>1 DEF Arm, Judged
<1>3. ASSUME NEW e \in EnvsOf(S) PROVE MeetAt(cs, ks, I, F, c[e], k[e], e, S)
  <2> DEFINE then == Scoped(check, b1, e)
             else == Scoped(check, b2, e)
             after == SaveStates(then.env)
             out == IF then.left THEN else.env
                    ELSE IF else.left THEN RestoreStates(else.env, after)
                    ELSE MergeStates(else.env, after, SaveStates(else.env))
  <2>1. c[e] = IfElse(check, s, e) /\ k[e] = RunScoped(run, b1, e) \cup RunScoped(run, b2, e)
    <3>1. Stmt(check, s, e) = IfElse(check, s, e)
      BY DEF Stmt, PlaceOps
    <3>2. RunStmt(run, s, e) = UNION {RunScoped(run, s.blocks[i], e) : i \in 1..2}
      BY DEF RunStmt, PlaceOps, Exits, Branching
    <3>3. UNION {RunScoped(run, s.blocks[i], e) : i \in 1..2} = RunScoped(run, b1, e) \cup RunScoped(run, b2, e)
      <4>1. 1..2 = {1, 2}
        OBVIOUS
      <4> QED BY <4>1
    <3> QED BY <3>1, <3>2, <3>3 DEF Means
  <2>2. /\ cs[1][e] = then /\ ks[1][e] = RunScoped(run, b1, e)
        /\ then \in Results /\ then.left = l1 /\ then.env \in EnvsOf(S) /\ Same(then.env, e)
        /\ then.env \in Envs
    BY <1>a, ArmFields
  <2>3. /\ cs[2][e] = else /\ ks[2][e] = RunScoped(run, b2, e)
        /\ else \in Results /\ else.left = l2 /\ else.env \in EnvsOf(S) /\ Same(else.env, e)
        /\ else.env \in Envs
    BY <1>a, ArmFields
  <2>4. c[e] = Together({then, else}, out)
    <3>1. RestoreStates(then.env, SaveStates(e)) = e
      BY <2>2, RestoreSaved
    <3> QED BY <2>1, <3>1 DEF IfElse
  <2>5. Same(else.env, then.env)
    BY <2>2, <2>3 DEF Same
  <2>6. out = IF l1 THEN else.env ELSE IF l2 THEN then.env
              ELSE MergeStates(else.env, SaveStates(then.env), SaveStates(else.env))
    <3>1. RestoreStates(else.env, after) = then.env
      BY <2>2, <2>3, <2>5, RestoreSaved
    <3> QED BY <2>2, <2>3, <3>1
  <2> HIDE DEF out, then, else, cs, ks
  <2>7. /\ out \in EnvsOf(S) /\ Same(out, e)
        /\ \A m : m \in out.moved <=> \E i \in F : m \in cs[i][e].env.moved
    <3> DEFINE x == MergeStates(else.env, SaveStates(then.env), SaveStates(else.env))
    <3>2. x \in EnvsOf(S) /\ Same(x, else.env) /\ x.moved = then.env.moved \cup else.env.moved
      BY <2>2, <2>3, <2>5, MergeSaved
    <3>3. Same(x, e)
      BY <2>3, <3>2 DEF Same
    <3> HIDE DEF x
    <3>4. CASE l1
      BY <2>3, <2>6, <3>4
    <3>5. CASE ~l1 /\ l2
      BY <2>2, <2>6, <3>5
    <3>6. CASE ~l1 /\ ~l2
      <4>1. out = x
        BY <2>6, <3>6 DEF x
      <4> QED BY <2>2, <2>3, <3>2, <3>3, <3>6, <4>1
    <3> QED BY <3>4, <3>5, <3>6
  <2>8. /\ c[e] \in Results /\ c[e].env = out /\ c[e].left = FALSE
        /\ (c[e].err <=> \E x \in {then, else} : x.err)
        /\ \A m : m \in MovedIn(c[e].brk) <=> \E x \in {then, else} : m \in MovedIn(x.brk)
        /\ \A m : m \in MovedIn(c[e].cont) <=> \E x \in {then, else} : m \in MovedIn(x.cont)
    <3>1. {then, else} \in SUBSET Results /\ out \in Envs
      BY <2>2, <2>3, <2>7, EnvsOfEnvs
    <3>2. SumOf({then, else}, out, c[e])
      BY <2>4, <3>1, TogetherFields
    <3> QED BY <3>2 DEF SumOf
  <2>10. \A o : o \in k[e] <=> \E i \in I : o \in ks[i][e]
    BY <2>1, <2>2, <2>3
  <2>11. /\ (c[e].err <=> \E i \in I : cs[i][e].err)
         /\ \A m : m \in MovedIn(c[e].brk) <=> \E i \in I : m \in MovedIn(cs[i][e].brk)
         /\ \A m : m \in MovedIn(c[e].cont) <=> \E i \in I : m \in MovedIn(cs[i][e].cont)
    BY <2>2, <2>3, <2>8
  <2> HIDE DEF I, F
  <2> QED BY <2>7, <2>8, <2>10, <2>11 DEF MeetAt
<1>4. F \subseteq I /\ F # {} /\ (\A i \in I \ F : ls[i]) /\ (w => \A i \in F : ~ls[i])
  OBVIOUS
<1> HIDE DEF cs, ks, ls, I, F
<1>5. Meet(cs, ks, ls, I, F, c, k, S)
  BY <1>3, <1>4 DEF Meet
<1>6. MeetOf(cs, ks, ls, I, F, c, k, S, g, w)
  BY <1>2, <1>4, <1>5 DEF MeetOf
<1> QED BY <1>6, MeetJudged

(* Each of several blocks is judged. *)
BlocksJudged(check, run, bs, S, Ts, ls, g, w) ==
  \A i \in DOMAIN bs : ls[i] \in BOOLEAN /\ BlockJudged(check, run, bs[i], S, Ts[i], ls[i], g, w)

(* c and k are what a match of such blocks means; one arm does not leave. *)
MatchOf(c, k, check, run, s, S, Ts, ls, g, w) ==
  /\ g \in BOOLEAN /\ w \in BOOLEAN
  /\ s.op = "match" /\ Means(c, k, check, run, s, S)
  /\ Len(s.blocks) \in DOMAIN s.blocks
  /\ BlocksJudged(check, run, s.blocks, S, Ts, ls, g, w)
  /\ w => \E i \in DOMAIN s.blocks : ~ls[i]

(* A match is judged: each arm begins where the match does, and the ends   *)
(* are joined.                                                             *)
LEMMA MatchJudged ==
  ASSUME NEW c, NEW k, NEW check, NEW run, NEW s, NEW S, NEW Ts, NEW ls, NEW g, NEW w,
         MatchOf(c, k, check, run, s, S, Ts, ls, g, w)
  PROVE  Judged(c, k, S, S, FALSE, g, w)
<1>0. /\ g \in BOOLEAN /\ w \in BOOLEAN
      /\ s.op = "match" /\ Means(c, k, check, run, s, S)
      /\ Len(s.blocks) \in DOMAIN s.blocks
      /\ BlocksJudged(check, run, s.blocks, S, Ts, ls, g, w)
      /\ w => \E i \in DOMAIN s.blocks : ~ls[i]
  BY DEF MatchOf
<1> USE <1>0
<1> DEFINE bs == s.blocks
           I  == DOMAIN bs
           cs == [i \in I |-> ScopedOf(check, bs[i])]
           ks == [i \in I |-> RunScopedOf(run, bs[i])]
           F  == IF \E i \in I : ~ls[i] THEN {i \in I : ~ls[i]} ELSE {Len(bs)}
<1>1. ASSUME NEW i \in I
      PROVE  /\ Judged(ScopedOf(check, bs[i]), RunScopedOf(run, bs[i]), S, S, ls[i], g, w)
             /\ Home(ScopedOf(check, bs[i]), RunScopedOf(run, bs[i]), S)
             /\ ls[i] \in BOOLEAN
  <2>1. ls[i] \in BOOLEAN /\ BlockJudged(check, run, bs[i], S, Ts[i], ls[i], g, w)
    BY DEF BlocksJudged
  <2>2. ScopedBlock(check, run, bs[i], S, Ts[i], ls[i], g, w)
    BY <2>1 DEF ScopedBlock
  <2> QED BY <2>1, <2>2, ScopedJudged
<1>2. ArmsJudged(cs, ks, ls, I, S, g, w)
  BY <1>1 DEF ArmsJudged
<1>3. ASSUME NEW i \in I, NEW e \in EnvsOf(S)
      PROVE  /\ cs[i][e] = Scoped(check, bs[i], e) /\ ks[i][e] = RunScoped(run, bs[i], e)
             /\ cs[i][e] \in Results /\ cs[i][e].left = ls[i] /\ cs[i][e].env \in EnvsOf(S)
             /\ Same(cs[i][e].env, e) /\ cs[i][e].env \in Envs
  <2>1. Arm(check, run, bs[i], S, ls[i]) /\ ls[i] \in BOOLEAN
    BY <1>1 DEF Arm, Judged
  <2>2. cs[i] = ScopedOf(check, bs[i]) /\ ks[i] = RunScopedOf(run, bs[i])
    OBVIOUS
  <2> HIDE DEF cs, ks
  <2> QED BY <2>1, <2>2, ArmFields
<1>4. F \subseteq I /\ F # {} /\ (\A i \in I \ F : ls[i]) /\ (w => \A i \in F : ~ls[i])
  OBVIOUS
<1>5. ASSUME NEW e \in EnvsOf(S) PROVE MeetAt(cs, ks, I, F, c[e], k[e], e, S)
  <2> DEFINE rs == {Scoped(check, bs[i], e) : i \in I}
             outs == {r.env : r \in {r \in rs : ~r.left}}
             out == IF outs = {} THEN Scoped(check, Last(bs), e).env
                    ELSE Join(CHOOSE x \in outs : TRUE, outs)
  <2>1. c[e] = Together(rs, out)
    <3>1. Stmt(check, s, e) = Match(check, s, e)
      BY DEF Stmt, PlaceOps
    <3>2. c[e] = Match(check, s, e)
      BY <3>1 DEF Means
    <3> QED BY <3>2 DEF Match
  <2>2. k[e] = UNION {RunScoped(run, bs[i], e) : i \in I}
    <3>1. RunStmt(run, s, e) = UNION {RunScoped(run, bs[i], e) : i \in I}
      BY DEF RunStmt, PlaceOps, Exits, Branching
    <3> QED BY <3>1 DEF Means
  <2>3. /\ \A r : r \in rs <=> \E i \in I : r = cs[i][e]
        /\ rs \in SUBSET Results
    <3>1. \A r : r \in rs <=> \E i \in I : r = Scoped(check, bs[i], e)
      OBVIOUS
    <3> HIDE DEF rs, cs, ks, I
    <3>2. \A i \in I : cs[i][e] = Scoped(check, bs[i], e) /\ cs[i][e] \in Results
      BY <1>3
    <3>3. \A r : r \in rs <=> \E i \in I : r = cs[i][e]
      BY <3>1, <3>2
    <3>4. rs \subseteq Results
      BY <3>2, <3>3
    <3> QED BY <3>3, <3>4
  <2>4. \A x : x \in outs <=> \E i \in I : ~ls[i] /\ x = cs[i][e].env
    <3> HIDE DEF rs, cs, ks, I
    <3> QED BY <1>3, <2>3
  <2>5. \A x \in outs : x \in EnvsOf(S) /\ Same(x, e)
    <3> HIDE DEF outs, cs, ks, I
    <3> QED BY <1>3, <2>4
  <2>6. /\ out \in EnvsOf(S) /\ Same(out, e)
        /\ \A m : m \in out.moved <=> \E i \in F : m \in cs[i][e].env.moved
    <3>1. CASE outs = {}
      <4>1. \A i \in I : ls[i]
        <5> HIDE DEF outs, cs, ks, I
        <5> QED BY <1>1, <2>4, <3>1
      <4>2. F = {Len(bs)}
        BY <4>1
      <4>3. out = cs[Len(bs)][e].env
        BY <1>3, <3>1 DEF Last
      <4> HIDE DEF out, outs, cs, ks, F
      <4> QED BY <1>3, <4>2, <4>3
    <3>2. CASE outs # {}
      <4> DEFINE h == CHOOSE x \in outs : TRUE
      <4>1. h \in outs
        BY <3>2
      <4>2. out = Join(h, outs)
        BY <3>2
      <4> HIDE DEF out, outs, h, cs, ks, I, F
      <4>3. h \in EnvsOf(S) /\ Same(h, e) /\ \A p \in outs : p \in EnvsOf(S) /\ Same(p, h)
        BY <2>5, <4>1 DEF Same
      <4>4. out \in EnvsOf(S) /\ Same(out, h) /\ out.moved = h.moved \cup MovedIn(outs)
        BY <4>2, <4>3, Joined
      <4>5. out.moved = MovedIn(outs)
        BY <4>1, <4>4, InMoved
      <4>6. Same(out, e)
        BY <4>3, <4>4 DEF Same
      <4>7. \E i \in I : ~ls[i]
        BY <2>4, <4>1
      <4>8. F = {i \in I : ~ls[i]}
        BY <4>7 DEF F
      <4>9. \A m : m \in out.moved <=> \E i \in F : m \in cs[i][e].env.moved
        BY <2>4, <4>5, <4>8, InMoved
      <4> QED BY <4>4, <4>6, <4>9
    <3> QED BY <3>1, <3>2
  <2> HIDE DEF out, outs, rs, cs, ks, I, F
  <2>7. SumOf(rs, out, c[e])
    <3>1. out \in Envs
      BY <2>6, EnvsOfEnvs
    <3> QED BY <2>1, <2>3, <3>1, TogetherFields
  <2>8. \A o : o \in k[e] <=> \E i \in I : o \in ks[i][e]
    BY <1>3, <2>2
  <2>9. /\ (c[e].err <=> \E i \in I : cs[i][e].err)
        /\ \A m : m \in MovedIn(c[e].brk) <=> \E i \in I : m \in MovedIn(cs[i][e].brk)
        /\ \A m : m \in MovedIn(c[e].cont) <=> \E i \in I : m \in MovedIn(cs[i][e].cont)
    BY <2>3, <2>7 DEF SumOf
  <2> QED BY <2>6, <2>7, <2>8, <2>9 DEF MeetAt, SumOf
<1> HIDE DEF cs, ks, I, F
<1>6. Meet(cs, ks, ls, I, F, c, k, S)
  BY <1>4, <1>5 DEF Meet
<1>7. MeetOf(cs, ks, ls, I, F, c, k, S, g, w)
  BY <1>2, <1>4, <1>6 DEF MeetOf
<1> QED BY <1>7, MeetJudged

-----------------------------------------------------------------------------
(* Loops. *)

(* What comes back to the head of a loop. *)
Back(c, l, h) == MovedIn(c[h].cont) \cup (IF l THEN {} ELSE c[h].env.moved)

(* Passes from heads that have all that e has. *)
PassesFrom(e, S) ==
  {p \in [head : EnvsOf(S), r : Results, next : EnvsOf(S)] :
     /\ Same(p.head, e) /\ Same(p.next, e)
     /\ e.moved \subseteq p.head.moved /\ p.head.moved \subseteq p.next.moved
     /\ \A x \in p.r.brk : x \in EnvsOf(S) /\ Same(x, e)}

(* What a loop needs of its body to settle. *)
LoopBody(check, run, b, S, l) ==
  /\ l \in BOOLEAN /\ Arm(check, run, b, S, l)
  /\ Steady(ScopedOf(check, b), S)

(* p is the pass from the head h. *)
PassAt(c, l, h, p, S) ==
  /\ p.head = h /\ p.r = c[h] /\ p = [head |-> p.head, r |-> p.r, next |-> p.next]
  /\ p.next \in EnvsOf(S) /\ Same(p.next, h)
  /\ p.next.moved = h.moved \cup Back(c, l, h)

(* That is what Pass makes. *)
LEMMA PassFields ==
  ASSUME NEW check, NEW run, NEW b, NEW S, NEW l, LoopBody(check, run, b, S, l),
         NEW h \in EnvsOf(S)
  PROVE  PassAt(ScopedOf(check, b), l, h, Pass(check, b, h), S)
<1> DEFINE c == ScopedOf(check, b)
           r == Scoped(check, b, h)
           P == r.cont \cup (IF r.left THEN {} ELSE {r.env})
           p == Pass(check, b, h)
<1>1. Arm(check, run, b, S, l) /\ l \in BOOLEAN
  BY DEF LoopBody
<1>2. c[h] = r /\ r.left = l /\ r.env \in EnvsOf(S) /\ Same(r.env, h)
  BY <1>1, ArmFields
<1>3. \A x \in r.cont : x \in EnvsOf(S) /\ Same(x, h)
  BY <1>1, <1>2 DEF Arm, Home
<1>4. \A x \in P : x \in EnvsOf(S) /\ Same(x, h)
  BY <1>2, <1>3
<1>5. p = [head |-> h, r |-> r, next |-> Join(h, P)]
  BY DEF Pass
<1>6. MovedIn(P) = Back(c, l, h)
  <2>1. MovedIn(P) = MovedIn(r.cont) \cup MovedIn(IF r.left THEN {} ELSE {r.env})
    BY DEF MovedIn
  <2>2. MovedIn(IF r.left THEN {} ELSE {r.env}) = IF l THEN {} ELSE r.env.moved
    BY <1>1, <1>2, NothingMoved, MovedInOne
  <2> HIDE DEF c, r, P
  <2> QED BY <1>2, <2>1, <2>2 DEF Back
<1> HIDE DEF r, P, c
<1>7. Join(h, P) \in EnvsOf(S) /\ Same(Join(h, P), h) /\ Join(h, P).moved = h.moved \cup MovedIn(P)
  BY <1>4, Joined
<1>8. p.head = h /\ p.r = r /\ p.next = Join(h, P)
  BY <1>5
<1> HIDE DEF p
<1>9. PassAt(c, l, h, p, S)
  BY <1>2, <1>5, <1>6, <1>7, <1>8 DEF PassAt
<1> QED BY <1>9 DEF c, p

(* A pass is one from any environment below its head. *)
LEMMA PassIn ==
  ASSUME NEW check, NEW run, NEW b, NEW S, NEW l, LoopBody(check, run, b, S, l),
         NEW e \in EnvsOf(S), NEW h \in EnvsOf(S), Leq(e, h)
  PROVE  Pass(check, b, h) \in PassesFrom(e, S)
<1> DEFINE c == ScopedOf(check, b)
           p == Pass(check, b, h)
<1>1. /\ p.head = h /\ p.r = c[h] /\ p = [head |-> p.head, r |-> p.r, next |-> p.next]
      /\ p.next \in EnvsOf(S) /\ Same(p.next, h)
      /\ h.moved \subseteq p.next.moved
  BY PassFields DEF PassAt
<1>2. Home(c, RunScopedOf(run, b), S) /\ Shaped(c, RunScopedOf(run, b), S, S, l)
  BY DEF LoopBody, Arm
<1>3. c[h] \in Results /\ \A x \in c[h].brk : x \in EnvsOf(S) /\ Same(x, h)
  BY <1>2 DEF Home, Shaped
<1> HIDE DEF p, c
<1>4. p \in [head : EnvsOf(S), r : Results, next : EnvsOf(S)]
  BY <1>1, <1>3
<1>5. Same(h, e) /\ e.moved \subseteq h.moved /\ Same(p.next, e)
  BY <1>1 DEF Leq, Same
<1>6. \A x \in p.r.brk : x \in EnvsOf(S) /\ Same(x, e)
  BY <1>1, <1>3, <1>5 DEF Same
<1>7. p \in PassesFrom(e, S)
  BY <1>1, <1>4, <1>5, <1>6 DEF PassesFrom
<1> QED BY <1>7 DEF p

(* A further pass keeps what was reported, and is one from the merged head *)
(* unless nothing was added.                                               *)
AgainAt(check, b, p, q) ==
  /\ p.next = p.head => q = p
  /\ p.next # p.head =>
       /\ q.head = Pass(check, b, p.next).head /\ q.next = Pass(check, b, p.next).next
       /\ q.r.brk = Pass(check, b, p.next).r.brk
       /\ (q.r.err <=> Pass(check, b, p.next).r.err \/ p.r.err)

(* That is what Again makes. *)
LEMMA AgainFields ==
  ASSUME NEW check, NEW run, NEW b, NEW S, NEW l, LoopBody(check, run, b, S, l),
         NEW e \in EnvsOf(S), NEW p \in PassesFrom(e, S)
  PROVE  /\ Again(check, b, p) \in PassesFrom(e, S)
         /\ AgainAt(check, b, p, Again(check, b, p))
<1> DEFINE q == Pass(check, b, p.next)
           z == [q EXCEPT !.r.err = @ \/ p.r.err, !.r.reowns = @ \cup p.r.reowns]
<1>1. CASE p.next = p.head
  BY <1>1 DEF Again, AgainAt
<1>2. CASE p.next # p.head
  <2>1. p.next \in EnvsOf(S) /\ Leq(e, p.next) /\ p.r \in Results
    BY DEF PassesFrom, Leq, Same
  <2>2. q \in PassesFrom(e, S)
    BY <2>1, PassIn
  <2>3. Again(check, b, p) = z
    BY <1>2 DEF Again
  <2> HIDE DEF q
  <2>4. q \in [head : EnvsOf(S), r : Results, next : EnvsOf(S)]
    BY <2>2 DEF PassesFrom
  <2>5. /\ z \in [head : EnvsOf(S), r : Results, next : EnvsOf(S)]
        /\ z.head = q.head /\ z.next = q.next /\ z.r.brk = q.r.brk
        /\ (z.r.err <=> q.r.err \/ p.r.err)
    BY <2>1, <2>4 DEF Results
  <2> HIDE DEF z
  <2>6. z \in PassesFrom(e, S)
    BY <2>2, <2>5 DEF PassesFrom
  <2>7. AgainAt(check, b, p, z)
    BY <1>2, <2>5 DEF AgainAt, q
  <2> QED BY <2>3, <2>6, <2>7
<1> QED BY <1>1, <1>2

(* The result of a loop: that of its body from the head with what one pass *)
(* adds. If nothing is reported there, nothing more comes back.            *)
LoopAt(c, l, e, r, S) ==
  /\ r \in Results /\ r.left = FALSE /\ r.brk = {} /\ r.cont = {}
  /\ r.env \in EnvsOf(S) /\ Same(r.env, e) /\ e.moved \subseteq r.env.moved
  /\ \E h \in EnvsOf(S) :
       /\ Same(h, e) /\ h.moved = e.moved \cup Back(c, l, e)
       /\ (r.err <=> c[h].err)
       /\ ~r.err => /\ Back(c, l, h) \subseteq h.moved
                    /\ r.env.moved = h.moved \cup MovedIn(c[h].brk)

(* Eight passes give that result. By Steady, the second pass adds to the   *)
(* head only what the first one had added, so the third is the second.     *)
LEMMA LoopMeaning ==
  ASSUME NEW check, NEW run, NEW b, NEW S, NEW l, LoopBody(check, run, b, S, l),
         NEW e \in EnvsOf(S)
  PROVE  LoopAt(ScopedOf(check, b), l, e, LoopEnd(Passes(check, b, e)[8]), S)
<1> DEFINE c == ScopedOf(check, b)
           P == Passes(check, b, e)
           h == Pass(check, b, e).next
<1>1. P[1] = Pass(check, b, e) /\ \A n \in 2..8 : P[n] = Again(check, b, P[n - 1])
  <2>1. P = [i \in 1..8 |-> IF i = 1 THEN Pass(check, b, e) ELSE Again(check, b, P[i - 1])]
    BY PassesOfLoop
  <2> HIDE DEF P
  <2> QED BY <2>1
<1>2. /\ P[2] = Again(check, b, P[1]) /\ P[3] = Again(check, b, P[2])
      /\ P[4] = Again(check, b, P[3]) /\ P[5] = Again(check, b, P[4])
      /\ P[6] = Again(check, b, P[5]) /\ P[7] = Again(check, b, P[6])
      /\ P[8] = Again(check, b, P[7])
  <2> HIDE DEF P
  <2> QED BY <1>1
<1>3. P[1] \in PassesFrom(e, S)
  <2>1. Leq(e, e)
    BY DEF Leq, Same
  <2> QED BY <1>1, <2>1, PassIn
<1> HIDE DEF P
<1>4. ASSUME NEW p \in PassesFrom(e, S)
      PROVE  /\ Again(check, b, p) \in PassesFrom(e, S)
             /\ AgainAt(check, b, p, Again(check, b, p))
             /\ p.r.err => Again(check, b, p).r.err
             /\ p.next = p.head => Again(check, b, p) = p
  <2>1. /\ Again(check, b, p) \in PassesFrom(e, S)
        /\ AgainAt(check, b, p, Again(check, b, p))
    BY AgainFields
  <2> QED BY <2>1 DEF AgainAt
<1>5. /\ P[2] \in PassesFrom(e, S) /\ P[3] \in PassesFrom(e, S) /\ P[4] \in PassesFrom(e, S)
      /\ P[5] \in PassesFrom(e, S) /\ P[6] \in PassesFrom(e, S) /\ P[7] \in PassesFrom(e, S)
      /\ P[8] \in PassesFrom(e, S)
  BY <1>2, <1>3, <1>4
<1>6. (P[1].r.err => P[2].r.err) /\ (P[2].r.err => P[8].r.err)
  BY <1>2, <1>3, <1>4, <1>5
<1>7. P[2].next = P[2].head => P[8] = P[2]
  BY <1>2, <1>4, <1>5
<1>8. PassAt(c, l, e, P[1], S)
  BY <1>1, PassFields
<1>9. h = P[1].next /\ h \in EnvsOf(S) /\ Same(h, e) /\ h.moved = e.moved \cup Back(c, l, e)
  <2>1. h = P[1].next
    BY <1>1
  <2> HIDE DEF h
  <2> QED BY <1>8, <2>1 DEF PassAt
<1> HIDE DEF h
<1>10. PassAt(c, l, h, Pass(check, b, h), S)
  BY <1>9, PassFields
<1>11. Leq(e, h)
  BY <1>9 DEF Leq, Same
<1>12. /\ P[2].head = h /\ P[2].next = Pass(check, b, h).next /\ P[2].r.brk = c[h].brk
       /\ (P[2].r.err <=> c[h].err \/ c[e].err)
  <2>1. AgainAt(check, b, P[1], P[2])
    BY <1>2, <1>3, <1>4
  <2>2. P[1].head = e /\ P[1].r = c[e]
    BY <1>8 DEF PassAt
  <2>3. CASE h = e
    <3>1. P[2] = P[1]
      BY <1>9, <2>1, <2>2, <2>3 DEF AgainAt
    <3> QED BY <1>1, <2>2, <2>3, <3>1
  <2>4. CASE h # e
    BY <1>9, <1>10, <2>1, <2>2, <2>4 DEF AgainAt, PassAt
  <2> QED BY <2>3, <2>4
<1>13. ASSUME ~c[h].err
       PROVE  ~c[e].err /\ Back(c, l, h) \subseteq h.moved
  <2>1. /\ ~c[e].err
        /\ Gains(c[e].env.moved, c[h].env.moved, e, h)
        /\ Gains(MovedIn(c[e].cont), MovedIn(c[h].cont), e, h)
    BY <1>9, <1>11, <1>13 DEF LoopBody, Steady
  <2> QED BY <1>9, <2>1 DEF Back, Gains
<1>14. ASSUME ~c[h].err
       PROVE  ~P[8].r.err /\ P[8].next = h /\ P[8].r.brk = c[h].brk
  <2>1. P[2].next.moved = h.moved /\ P[2].next \in EnvsOf(S) /\ Same(P[2].next, h)
    BY <1>10, <1>12, <1>13, <1>14 DEF PassAt
  <2>2. P[2].next = h
    BY <1>9, <2>1, SameMoved
  <2> QED BY <1>7, <1>12, <1>13, <1>14, <2>2
<1>15. P[8].r.err <=> c[h].err
  <2>1. ASSUME c[h].err PROVE P[8].r.err
    BY <1>6, <1>12, <2>1
  <2> QED BY <1>14, <2>1
<1> DEFINE p == P[8]
           r == LoopEnd(p)
<1>16. /\ p.r \in Results /\ p.next \in EnvsOf(S) /\ Same(p.next, e)
       /\ e.moved \subseteq p.next.moved
       /\ \A x \in p.r.brk : x \in EnvsOf(S) /\ Same(x, e) /\ Same(x, p.next)
  BY <1>5 DEF PassesFrom, Same
<1>17. /\ Join(p.next, p.r.brk) \in EnvsOf(S) /\ Same(Join(p.next, p.r.brk), p.next)
       /\ Join(p.next, p.r.brk).moved = p.next.moved \cup MovedIn(p.r.brk)
  BY <1>16, Joined
<1>18. /\ r \in Results /\ r.left = FALSE /\ r.brk = {} /\ r.cont = {}
       /\ r.env = Join(p.next, p.r.brk) /\ (r.err <=> p.r.err)
  <2>1. Join(p.next, p.r.brk) \in Envs
    BY <1>17, EnvsOfEnvs
  <2>2. r = [p.r EXCEPT !.env = Join(p.next, p.r.brk), !.left = FALSE, !.brk = {}, !.cont = {}]
    BY DEF LoopEnd
  <2> HIDE DEF p, r
  <2> QED BY <1>16, <2>1, <2>2 DEF Results
<1>19. Same(r.env, e) /\ e.moved \subseteq r.env.moved /\ r.env \in EnvsOf(S)
  BY <1>16, <1>17, <1>18 DEF Same
<1>20. ASSUME ~r.err
       PROVE  /\ Back(c, l, h) \subseteq h.moved
              /\ r.env.moved = h.moved \cup MovedIn(c[h].brk)
  <2>1. ~c[h].err
    BY <1>15, <1>18, <1>20
  <2> QED BY <1>13, <1>14, <1>17, <1>18, <2>1
<1> HIDE DEF r, c
<1>21. LoopAt(c, l, e, r, S)
  <2>1. r.err <=> c[h].err
    BY <1>15, <1>18
  <2> QED BY <1>9, <1>18, <1>19, <1>20, <2>1 DEF LoopAt
<1> QED BY <1>21 DEF c, r, P

(* The environments in which a loop evaluates its condition. *)
Heads(run, b, e) == Turns(run, b, e)[MaxTurns]

(* What a turn keeps, the heads of a loop have. *)
LEMMA HeadsIn ==
  ASSUME NEW run, NEW b, NEW e, NEW X, e \in X,
         \A h \in X : \A o \in RunScoped(run, b, h) : o.how \in {"next", "continue"} => o.env \in X
  PROVE  Heads(run, b, e) \subseteq X
<1> DEFINE T == Turns(run, b, e)
           Bad == {n \in 0..MaxTurns : ~(T[n] \subseteq X)}
<1>1. T = [i \in 0..MaxTurns |-> IF i = 0 THEN {e} ELSE Turn(run, b, T[i - 1])]
  BY TurnsOfLoop
<1> HIDE DEF T
<1>2. Bad = {}
  <2> SUFFICES ASSUME Bad # {} PROVE FALSE
    OBVIOUS
  <2>1. Bad \in SUBSET Nat
    BY Bounds
  <2>2. PICK n \in Bad : \A k \in Bad : n <= k
    BY <2>1, LeastNat
  <2>3. CASE n = 0
    <3>1. T[0] = {e}
      BY <1>1, Bounds
    <3> QED BY <2>2, <2>3, <3>1
  <2>4. CASE n # 0
    <3>1. n - 1 \in 0..MaxTurns /\ n - 1 \notin Bad /\ n \in 0..MaxTurns
      BY <2>2, <2>4, Bounds
    <3>2. T[n - 1] \subseteq X
      BY <3>1
    <3>3. T[n] = Turn(run, b, T[n - 1])
      BY <1>1, <2>4, <3>1
    <3>4. T[n] \subseteq X
      BY <3>2, <3>3 DEF Turn
    <3> QED BY <2>2, <3>4
  <2> QED BY <2>3, <2>4
<1> QED BY <1>2, Bounds DEF Heads, T

(* They are the first one and, if there is a turn, those it leads to. *)
LEMMA HeadsHave ==
  ASSUME NEW run, NEW b, NEW e
  PROVE  /\ e \in Heads(run, b, e)
         /\ MaxTurns >= 1 =>
              \A o \in RunScoped(run, b, e) : o.how \in {"next", "continue"} => o.env \in Heads(run, b, e)
<1> DEFINE T == Turns(run, b, e)
           Y == {e} \cup (IF MaxTurns >= 1
                          THEN {o.env : o \in {o \in RunScoped(run, b, e) : o.how \in {"next", "continue"}}}
                          ELSE {})
           Bad == {n \in Nat : n \in 1..MaxTurns /\ ~(Y \subseteq T[n])}
<1>1. T = [i \in 0..MaxTurns |-> IF i = 0 THEN {e} ELSE Turn(run, b, T[i - 1])]
  BY TurnsOfLoop
<1> HIDE DEF T
<1>2. T[0] = {e}
  BY <1>1, Bounds
<1>3. Bad = {}
  <2> SUFFICES ASSUME Bad # {} PROVE FALSE
    OBVIOUS
  <2>1. PICK n \in Bad : \A k \in Bad : n <= k
    BY LeastNat
  <2>a. n \in 1..MaxTurns
    BY <2>1
  <2>2. T[n] = Turn(run, b, T[n - 1])
    <3>1. n \in 0..MaxTurns /\ n # 0
      BY <2>a, Bounds
    <3> QED BY <1>1, <3>1
  <2>3. CASE n = 1
    <3>1. T[n] = Turn(run, b, {e})
      BY <1>2, <2>2, <2>3
    <3>2. UNION {RunScoped(run, b, x) : x \in {e}} = RunScoped(run, b, e)
      OBVIOUS
    <3>3. Y \subseteq T[n]
      BY <3>1, <3>2 DEF Turn
    <3> QED BY <2>1, <3>3
  <2>4. CASE n # 1
    <3>1. n - 1 \in Nat /\ n - 1 \in 1..MaxTurns /\ n - 1 \notin Bad
      BY <2>1, <2>a, <2>4, Bounds
    <3>2. Y \subseteq T[n - 1]
      BY <3>1
    <3>3. T[n - 1] \subseteq T[n]
      BY <2>2 DEF Turn
    <3> QED BY <2>1, <3>2, <3>3
  <2> QED BY <2>3, <2>4
<1>4. CASE MaxTurns = 0
  BY <1>2, <1>4 DEF Heads, T
<1>5. CASE MaxTurns # 0
  <2>1. MaxTurns \in Nat /\ MaxTurns \in 1..MaxTurns /\ MaxTurns >= 1
    BY <1>5, Bounds
  <2>2. Y \subseteq T[MaxTurns]
    BY <1>3, <2>1
  <2> QED BY <2>2 DEF Heads, T
<1> QED BY <1>4, <1>5

(* The outcomes of a loop. *)
LoopRuns(k, H, os) ==
  \A o : o \in os <=>
    \/ \E h \in H : o = Outcome("next", h)
    \/ \E h \in H : \E p \in k[h] : p.how = "break" /\ o = Outcome("next", p.env)
    \/ \E h \in H : o \in k[h] /\ o.how \in {"return", "bad"}

(* The environments of the scopes of e. *)
InShape(e, S) == {x \in EnvsOf(S) : Same(x, e)}

(* The heads of a loop have the scopes it began with. *)
LEMMA HeadsShape ==
  ASSUME NEW check, NEW run, NEW b, NEW S, NEW l, LoopBody(check, run, b, S, l), NEW e \in EnvsOf(S)
  PROVE  Heads(run, b, e) \subseteq InShape(e, S)
<1> DEFINE X == InShape(e, S)
<1>1. e \in X
  BY DEF InShape, Same
<1>2. ASSUME NEW h \in X, NEW o \in RunScoped(run, b, h) PROVE o.env \in X
  <2>1. h \in EnvsOf(S) /\ Same(h, e)
    BY DEF InShape
  <2>2. o \in RunScopedOf(run, b)[h]
    BY <2>1, EnvsOfEnvs DEF RunScopedOf
  <2>3. o.env \in EnvsOf(S) /\ Same(o.env, h)
    BY <2>1, <2>2 DEF LoopBody, Arm, Home
  <2> QED BY <2>1, <2>3 DEF InShape, Same
<1> HIDE DEF X
<1>3. Heads(run, b, e) \subseteq X
  BY <1>1, <1>2, HeadsIn
<1> QED BY <1>3 DEF X

(* The outcomes are those from the heads. *)
LEMMA RunLoopFields ==
  ASSUME NEW check, NEW run, NEW b, NEW S, NEW l, LoopBody(check, run, b, S, l), NEW e \in EnvsOf(S)
  PROVE  LoopRuns(RunScopedOf(run, b), Heads(run, b, e), RunLoop(run, b, e))
<1> DEFINE H == Heads(run, b, e)
           k == RunScopedOf(run, b)
           ends == UNION {RunScoped(run, b, x) : x \in H}
<1>1. \A h \in H : k[h] = RunScoped(run, b, h)
  BY HeadsShape, EnvsOfEnvs DEF InShape, RunScopedOf
<1>2. RunLoop(run, b, e) = {Outcome("next", x) : x \in H}
                           \cup {Outcome("next", o.env) : o \in {o \in ends : o.how = "break"}}
                           \cup {o \in ends : o.how \in {"return", "bad"}}
  BY DEF RunLoop, Heads
<1> HIDE DEF H, k
<1>3. LoopRuns(k, H, RunLoop(run, b, e))
  BY <1>1, <1>2 DEF LoopRuns
<1> QED BY <1>3 DEF H, k

(* A loop, from the meanings of its body. *)
LoopOf(check, run, b, l, c, k, S, g, w) ==
  /\ LoopBody(check, run, b, S, l)
  /\ Judged(ScopedOf(check, b), RunScopedOf(run, b), S, S, l, g, w)
  /\ \A e \in EnvsOf(S) : c[e] = LoopEnd(Passes(check, b, e)[8]) /\ k[e] = RunLoop(run, b, e)

(* Where an outcome of a loop comes from. *)
LEMMA LoopOut ==
  ASSUME NEW check, NEW run, NEW b, NEW l, NEW c, NEW k, NEW S, NEW g, NEW w,
         LoopOf(check, run, b, l, c, k, S, g, w), NEW e \in EnvsOf(S), NEW o \in k[e]
  PROVE  /\ o \in Outcomes /\ o.env \in EnvsOf(S) /\ Same(o.env, e)
         /\ \/ o.how = "next" /\ o.env \in Heads(run, b, e)
            \/ /\ o.how = "next"
               /\ \E h \in Heads(run, b, e) : \E p \in RunScopedOf(run, b)[h] :
                     p.how = "break" /\ o.env = p.env
            \/ /\ o.how \in {"return", "bad"}
               /\ \E h \in Heads(run, b, e) : o \in RunScopedOf(run, b)[h]
<1> DEFINE H == Heads(run, b, e)
           k0 == RunScopedOf(run, b)
<1>1. LoopBody(check, run, b, S, l) /\ LoopRuns(k0, H, k[e])
  BY RunLoopFields DEF LoopOf
<1>2. \A h \in H : h \in EnvsOf(S) /\ Same(h, e) /\ h \in Envs
  BY <1>1, HeadsShape, EnvsOfEnvs DEF InShape
<1>3. \A h \in H : \A p \in k0[h] : p \in Outcomes /\ p.env \in EnvsOf(S) /\ Same(p.env, e) /\ p.env \in Envs
  <2> SUFFICES ASSUME NEW h \in H, NEW p \in k0[h]
               PROVE  p \in Outcomes /\ p.env \in EnvsOf(S) /\ Same(p.env, e) /\ p.env \in Envs
    OBVIOUS
  <2>1. h \in EnvsOf(S) /\ Same(h, e)
    BY <1>2
  <2>2. p \in Outcomes
    BY <2>1 DEF LoopOf, Judged, Shaped
  <2>3. p.env \in EnvsOf(S) /\ Same(p.env, h)
    BY <1>1, <2>1 DEF LoopBody, Arm, Home
  <2> QED BY <2>1, <2>2, <2>3, EnvsOfEnvs DEF Same
<1> HIDE DEF H, k0
<1>4. CASE \E h \in H : o = Outcome("next", h)
  <2>1. PICK h \in H : o = Outcome("next", h)
    BY <1>4
  <2>2. o.how = "next" /\ o.env = h /\ o \in Outcomes
    BY <1>2, <2>1, OutcomeFields
  <2> QED BY <1>2, <2>2 DEF H
<1>5. CASE \E h \in H : \E p \in k0[h] : p.how = "break" /\ o = Outcome("next", p.env)
  <2>1. PICK h \in H : \E p \in k0[h] : p.how = "break" /\ o = Outcome("next", p.env)
    BY <1>5
  <2>2. PICK p \in k0[h] : p.how = "break" /\ o = Outcome("next", p.env)
    BY <2>1
  <2>3. p.env \in EnvsOf(S) /\ Same(p.env, e) /\ p.env \in Envs
    BY <1>3
  <2>4. o.how = "next" /\ o.env = p.env /\ o \in Outcomes
    BY <2>2, <2>3, OutcomeFields
  <2> QED BY <2>2, <2>3, <2>4 DEF H, k0
<1>6. CASE \E h \in H : o \in k0[h] /\ o.how \in {"return", "bad"}
  BY <1>3, <1>6 DEF H, k0
<1> QED BY <1>1, <1>4, <1>5, <1>6 DEF LoopRuns

(* The result of the loop is the one of LoopAt. *)
LEMMA LoopResult ==
  ASSUME NEW check, NEW run, NEW b, NEW l, NEW c, NEW k, NEW S, NEW g, NEW w,
         LoopOf(check, run, b, l, c, k, S, g, w), NEW e \in EnvsOf(S)
  PROVE  LoopAt(ScopedOf(check, b), l, e, c[e], S)
BY LoopMeaning DEF LoopOf

(* A loop has the right form and gives nothing back, for it may not run. *)
LEMMA LoopShaped ==
  ASSUME NEW check, NEW run, NEW b, NEW l, NEW c, NEW k, NEW S, NEW g, NEW w,
         LoopOf(check, run, b, l, c, k, S, g, w)
  PROVE  Shaped(c, k, S, S, FALSE) /\ Grows(c, S)
<1>1. ASSUME NEW e \in EnvsOf(S)
      PROVE  /\ c[e] \in Results /\ c[e].left = FALSE /\ c[e].env \in EnvsOf(S)
             /\ Same(c[e].env, e) /\ e.moved \subseteq c[e].env.moved
  <2>1. LoopAt(ScopedOf(check, b), l, e, c[e], S)
    BY LoopResult
  <2> QED BY <2>1 DEF LoopAt
<1>2. ASSUME NEW e \in EnvsOf(S), NEW o \in k[e]
      PROVE  o \in Outcomes /\ o.env \in EnvsOf(S) /\ Same(o.env, c[e].env)
  <2>1. o \in Outcomes /\ o.env \in EnvsOf(S) /\ Same(o.env, e)
    BY LoopOut
  <2>2. Same(c[e].env, e)
    BY <1>1
  <2> QED BY <2>1, <2>2 DEF Same
<1>3. ASSUME NEW e \in EnvsOf(S), NEW f \in EnvsOf(S), Same(e, f) PROVE Same(c[e].env, c[f].env)
  <2>1. Same(c[e].env, e) /\ Same(c[f].env, f)
    BY <1>1
  <2> QED BY <1>3, <2>1 DEF Same
<1>4. Grows(c, S)
  BY <1>1 DEF Grows
<1> QED BY <1>1, <1>2, <1>3, <1>4 DEF Shaped

(* A loop is steady. *)
LEMMA LoopSteady ==
  ASSUME NEW check, NEW run, NEW b, NEW l, NEW c, NEW k, NEW S, NEW g, NEW w,
         LoopOf(check, run, b, l, c, k, S, g, w)
  PROVE  Steady(c, S)
<1> SUFFICES ASSUME NEW e \in EnvsOf(S), NEW f \in EnvsOf(S), Leq(e, f), ~c[f].err
             PROVE  /\ ~c[e].err
                    /\ Gains(c[e].env.moved, c[f].env.moved, e, f)
                    /\ Gains(MovedIn(c[e].brk), MovedIn(c[f].brk), e, f)
                    /\ Gains(MovedIn(c[e].cont), MovedIn(c[f].cont), e, f)
  BY DEF Steady
<1> DEFINE c0 == ScopedOf(check, b)
<1>1. LoopAt(c0, l, e, c[e], S) /\ LoopAt(c0, l, f, c[f], S)
  BY LoopResult
<1>2. Steady(c0, S)
  BY DEF LoopOf, LoopBody
<1> HIDE DEF c0
<1>3. PICK x \in EnvsOf(S) : /\ Same(x, e) /\ x.moved = e.moved \cup Back(c0, l, e)
                             /\ (c[e].err <=> c0[x].err)
                             /\ ~c[e].err => c[e].env.moved = x.moved \cup MovedIn(c0[x].brk)
  BY <1>1 DEF LoopAt
<1>4. PICK y \in EnvsOf(S) : /\ Same(y, f) /\ y.moved = f.moved \cup Back(c0, l, f)
                             /\ ~c0[y].err
                             /\ c[f].env.moved = y.moved \cup MovedIn(c0[y].brk)
  BY <1>1 DEF LoopAt
<1>5. Leq(f, y) /\ Same(x, y)
  BY <1>3, <1>4 DEF Leq, Same
<1>6. ~c0[f].err
  BY <1>2, <1>4, <1>5 DEF Steady
<1>7. Gains(Back(c0, l, e), Back(c0, l, f), e, f)
  <2>1. /\ Gains(c0[e].env.moved, c0[f].env.moved, e, f)
        /\ Gains(MovedIn(c0[e].cont), MovedIn(c0[f].cont), e, f)
    BY <1>2, <1>6 DEF Steady
  <2> QED BY <2>1 DEF Back, Gains
<1>8. /\ Leq(x, y)
      /\ y.moved \ x.moved \subseteq f.moved \ e.moved
      /\ Gains(x.moved, y.moved, e, f)
  BY <1>3, <1>4, <1>5, <1>7 DEF Gains, Leq
<1>9. ~c0[x].err /\ Gains(MovedIn(c0[x].brk), MovedIn(c0[y].brk), x, y)
  BY <1>2, <1>4, <1>8 DEF Steady
<1>10. ~c[e].err /\ c[e].env.moved = x.moved \cup MovedIn(c0[x].brk)
  BY <1>3, <1>9
<1>11. Gains(c[e].env.moved, c[f].env.moved, e, f)
  BY <1>4, <1>8, <1>9, <1>10 DEF Gains
<1>12. /\ c[e].brk = {} /\ c[e].cont = {} /\ c[f].brk = {} /\ c[f].cont = {}
       /\ Gains({}, {}, e, f)
  BY <1>1 DEF LoopAt, Gains
<1> QED BY <1>10, <1>11, <1>12, NothingMoved

(* What a loop does is foreseen: all heads are below the one that the last *)
(* pass began with.                                                        *)
LEMMA LoopForeseen ==
  ASSUME NEW check, NEW run, NEW b, NEW l, NEW c, NEW k, NEW S, NEW g, NEW w,
         LoopOf(check, run, b, l, c, k, S, g, w)
  PROVE  Foreseen(c, k, S)
<1> SUFFICES ASSUME NEW e \in EnvsOf(S), NEW f \in EnvsOf(S), Leq(e, f), ~c[f].err,
                    NEW o \in k[e]
             PROVE  /\ o.how # "bad" /\ o.how # "break" /\ o.how # "continue"
                    /\ o.how = "next" => Leq(o.env, c[f].env)
  BY DEF Foreseen
<1> DEFINE c0 == ScopedOf(check, b)
           k0 == RunScopedOf(run, b)
<1>1. LoopAt(c0, l, f, c[f], S)
  BY LoopResult
<1>2. Foreseen(c0, k0, S) /\ Shaped(c0, k0, S, S, l) /\ Home(c0, k0, S) /\ l \in BOOLEAN
  BY DEF LoopOf, LoopBody, Judged, Arm
<1>3. PICK y \in EnvsOf(S) : /\ Same(y, f) /\ y.moved = f.moved \cup Back(c0, l, f)
                             /\ ~c0[y].err /\ Back(c0, l, y) \subseteq y.moved
                             /\ c[f].env.moved = y.moved \cup MovedIn(c0[y].brk)
  BY <1>1 DEF LoopAt
<1> DEFINE X == {x \in EnvsOf(S) : Leq(x, y)}
<1>4. e \in X
  BY <1>3 DEF Leq, Same
<1>5. ASSUME NEW h \in X, NEW p \in k0[h]
      PROVE  /\ p.how # "bad"
             /\ p.how \in {"next", "continue"} => p.env \in X
             /\ p.how = "break" => p.env.moved \subseteq MovedIn(c0[y].brk)
  <2>1. h \in EnvsOf(S) /\ Leq(h, y)
    OBVIOUS
  <2>2. /\ p.how # "bad"
        /\ p.how = "next" => Leq(p.env, c0[y].env)
        /\ p.how = "break" => p.env.moved \subseteq MovedIn(c0[y].brk)
        /\ p.how = "continue" => p.env.moved \subseteq MovedIn(c0[y].cont)
    BY <1>2, <1>3, <2>1 DEF Foreseen
  <2>3. p.env \in EnvsOf(S) /\ Same(p.env, y)
    <3>1. p.env \in EnvsOf(S) /\ Same(p.env, h)
      BY <1>2, <2>1 DEF Home
    <3> QED BY <2>1, <3>1 DEF Same, Leq
  <2>4. p.how = "next" => ~l
    BY <1>2, <2>1 DEF Shaped
  <2>5. p.how = "next" => p.env.moved \subseteq y.moved
    BY <1>3, <2>2, <2>4 DEF Back, Leq
  <2>6. p.how = "continue" => p.env.moved \subseteq y.moved
    BY <1>3, <2>2 DEF Back
  <2> QED BY <2>2, <2>3, <2>5, <2>6 DEF Leq
<1>6. Heads(run, b, e) \subseteq X
  <2>1. ASSUME NEW h \in X, NEW p \in RunScoped(run, b, h), p.how \in {"next", "continue"}
        PROVE  p.env \in X
    <3>1. k0[h] = RunScoped(run, b, h)
      BY EnvsOfEnvs DEF RunScopedOf
    <3> HIDE DEF k0, X
    <3> QED BY <1>5, <2>1, <3>1
  <2> HIDE DEF X
  <2> QED BY <1>4, <2>1, HeadsIn
<1>7. \/ o.how = "next" /\ o.env \in Heads(run, b, e)
      \/ /\ o.how = "next"
         /\ \E h \in Heads(run, b, e) : \E p \in k0[h] : p.how = "break" /\ o.env = p.env
      \/ /\ o.how \in {"return", "bad"}
         /\ \E h \in Heads(run, b, e) : o \in k0[h]
  BY LoopOut
<1>8. o.env \in EnvsOf(S) /\ Same(o.env, e)
  BY LoopOut
<1>9. Same(o.env, c[f].env)
  <2>1. Same(c[f].env, f)
    BY <1>1 DEF LoopAt
  <2> QED BY <1>8, <2>1 DEF Same, Leq
<1>10. y.moved \subseteq c[f].env.moved /\ MovedIn(c0[y].brk) \subseteq c[f].env.moved
  BY <1>3
<1>11. CASE o.how = "next" /\ o.env \in Heads(run, b, e)
  <2>1. o.env.moved \subseteq y.moved
    BY <1>6, <1>11 DEF Leq
  <2> QED BY <1>9, <1>10, <1>11, <2>1 DEF Leq
<1> HIDE DEF k0
<1>12. CASE o.how = "next" /\ \E h \in Heads(run, b, e) : \E p \in k0[h] : p.how = "break" /\ o.env = p.env
  <2>1. o.env.moved \subseteq MovedIn(c0[y].brk)
    <3> HIDE DEF X
    <3> QED BY <1>5, <1>6, <1>12
  <2> QED BY <1>9, <1>10, <1>12, <2>1 DEF Leq
<1>13. CASE o.how \in {"return", "bad"} /\ \E h \in Heads(run, b, e) : o \in k0[h]
  <2>1. o.how # "bad"
    <3> HIDE DEF X
    <3> QED BY <1>5, <1>6, <1>13
  <2> QED BY <1>13, <2>1
<1> QED BY <1>7, <1>11, <1>12, <1>13

(* The outcomes that a head has. *)
LEMMA LoopIn ==
  ASSUME NEW check, NEW run, NEW b, NEW l, NEW c, NEW k, NEW S, NEW g, NEW w,
         LoopOf(check, run, b, l, c, k, S, g, w), NEW e \in EnvsOf(S), NEW h \in Heads(run, b, e)
  PROVE  /\ Outcome("next", h) \in k[e]
         /\ \A p \in RunScopedOf(run, b)[h] : p.how = "break" => Outcome("next", p.env) \in k[e]
         /\ \A p \in RunScopedOf(run, b)[h] : p.how \in {"return", "bad"} => p \in k[e]
<1>1. LoopRuns(RunScopedOf(run, b), Heads(run, b, e), k[e])
  BY RunLoopFields DEF LoopOf
<1> QED BY <1>1 DEF LoopRuns

(* What is claimed of a loop is witnessed by runs that go back to its head *)
(* once at most.                                                           *)
LEMMA LoopWitnessed ==
  ASSUME NEW check, NEW run, NEW b, NEW l, NEW c, NEW k, NEW S, NEW g, NEW w,
         LoopOf(check, run, b, l, c, k, S, g, w), w, MaxTurns >= 1
  PROVE  Witnessed(c, k, S, FALSE)
<1> SUFFICES ASSUME NEW f \in EnvsOf(S), NEW E \in SUBSET EnvsOf(S), Covers(E, f, S),
                    ~ \E o \in Runs(k, E) : o.how = "bad"
             PROVE  /\ ~c[f].err
                    /\ Ends(Runs(k, E), "next") # {}
                    /\ c[f].env.moved \subseteq MovedIn(Ends(Runs(k, E), "next"))
                    /\ MovedIn(c[f].brk) \subseteq MovedIn(Ends(Runs(k, E), "break"))
                    /\ MovedIn(c[f].cont) \subseteq MovedIn(Ends(Runs(k, E), "continue"))
  BY DEF Witnessed
<1> DEFINE c0 == ScopedOf(check, b)
           k0 == RunScopedOf(run, b)
           N == Ends(Runs(k, E), "next")
           E2 == IF l THEN Ends(Runs(k0, E), "continue")
                 ELSE Ends(Runs(k0, E), "next") \cup Ends(Runs(k0, E), "continue")
           G == E \cup E2
<1>1. LoopAt(c0, l, f, c[f], S)
  BY LoopResult
<1>2. /\ Witnessed(c0, k0, S, l) /\ Home(c0, k0, S) /\ Shaped(c0, k0, S, S, l)
      /\ LoopBody(check, run, b, S, l) /\ l \in BOOLEAN
  BY DEF LoopOf, LoopBody, Judged, Arm
<1>3. PICK y \in EnvsOf(S) : /\ Same(y, f) /\ y.moved = f.moved \cup Back(c0, l, f)
                             /\ (c[f].err <=> c0[y].err)
                             /\ ~c[f].err => c[f].env.moved = y.moved \cup MovedIn(c0[y].brk)
  BY <1>1 DEF LoopAt
<1> HIDE DEF c0, k0
<1>4. ASSUME NEW e \in E
      PROVE  /\ e \in Heads(run, b, e)
             /\ \A o \in k0[e] : o.how \in {"next", "continue"} => o.env \in Heads(run, b, e)
  <2>1. k0[e] = RunScoped(run, b, e)
    BY EnvsOfEnvs DEF RunScopedOf, k0
  <2> QED BY <2>1, HeadsHave
<1>5. ASSUME NEW h \in G PROVE \E e \in E : h \in Heads(run, b, e)
  <2>1. CASE h \in E
    BY <1>4, <2>1
  <2>2. CASE h \in E2
    <3>1. PICK o \in Runs(k0, E) : o.how \in {"next", "continue"} /\ h = o.env
      BY <1>2, <2>2, InEnds
    <3>2. PICK e \in E : o \in k0[e]
      BY InRuns
    <3> QED BY <1>4, <3>1, <3>2
  <2> QED BY <2>1, <2>2
<1>6. ASSUME NEW h \in G
      PROVE  /\ h \in N /\ h \in EnvsOf(S) /\ Same(h, f)
             /\ \A p \in k0[h] : p.how = "break" => p.env \in N
             /\ \A p \in k0[h] : p.how # "bad"
  <2>1. PICK e \in E : h \in Heads(run, b, e)
    BY <1>5
  <2>2. h \in EnvsOf(S) /\ Same(h, f)
    <3>1. h \in EnvsOf(S) /\ Same(h, e)
      BY <1>2, <2>1, HeadsShape DEF InShape
    <3>2. Same(e, f)
      BY DEF Covers
    <3> QED BY <3>1, <3>2 DEF Same
  <2>3. /\ Outcome("next", h) \in k[e]
        /\ \A p \in k0[h] : p.how = "break" => Outcome("next", p.env) \in k[e]
        /\ \A p \in k0[h] : p.how \in {"return", "bad"} => p \in k[e]
    BY <2>1, LoopIn DEF k0
  <2>4. \A x : Outcome("next", x) \in k[e] => x \in N
    <3> SUFFICES ASSUME NEW x, Outcome("next", x) \in k[e] PROVE x \in N
      OBVIOUS
    <3> DEFINE o == Outcome("next", x)
    <3>1. o.how = "next" /\ o.env = x
      BY OutcomeFields
    <3> HIDE DEF o
    <3>2. o \in Runs(k, E)
      BY InRuns DEF o
    <3> QED BY <3>1, <3>2, InEnds
  <2>5. \A p \in k[e] : p.how # "bad"
    BY InRuns
  <2> QED BY <2>2, <2>3, <2>4, <2>5
<1> HIDE DEF N
<1>7. ~ \E o \in Runs(k0, E) : o.how = "bad"
  BY <1>6, InRuns
<1>8. /\ ~l => /\ Ends(Runs(k0, E), "next") # {}
               /\ c0[f].env.moved \subseteq MovedIn(Ends(Runs(k0, E), "next"))
      /\ MovedIn(c0[f].cont) \subseteq MovedIn(Ends(Runs(k0, E), "continue"))
  BY <1>2, <1>7 DEF Witnessed
<1>9. Back(c0, l, f) \subseteq MovedIn(E2)
  <2>1. CASE l
    BY <1>8, <2>1 DEF Back
  <2>2. CASE ~l
    <3>1. MovedIn(E2) = MovedIn(Ends(Runs(k0, E), "next")) \cup MovedIn(Ends(Runs(k0, E), "continue"))
      BY <2>2 DEF MovedIn
    <3> HIDE DEF E2
    <3> QED BY <1>8, <2>2, <3>1 DEF Back
  <2> QED BY <1>2, <2>1, <2>2
<1> HIDE DEF E2
<1>10. Covers(G, y, S)
  <2>1. MovedIn(G) = MovedIn(E) \cup MovedIn(E2)
    BY DEF MovedIn
  <2>2. y.moved \subseteq MovedIn(G)
    BY <1>3, <1>9, <2>1 DEF Covers
  <2>3. E # {}
    BY DEF Covers
  <2>4. \A h \in G : Same(h, y)
    BY <1>3, <1>6 DEF Same
  <2> QED BY <1>6, <2>2, <2>3, <2>4 DEF Covers
<1>11. ~ \E o \in Runs(k0, G) : o.how = "bad"
  BY <1>6, InRuns
<1>12. ~c0[y].err /\ MovedIn(c0[y].brk) \subseteq MovedIn(Ends(Runs(k0, G), "break"))
  <2>1. G \in SUBSET EnvsOf(S)
    BY <1>6
  <2> QED BY <1>2, <1>10, <1>11, <2>1 DEF Witnessed
<1>13. ASSUME NEW m \in MovedIn(Ends(Runs(k0, G), "break")) PROVE m \in MovedIn(N)
  <2>1. PICK x \in Ends(Runs(k0, G), "break") : m \in x.moved
    BY InMoved
  <2>2. PICK o \in Runs(k0, G) : o.how = "break" /\ x = o.env
    BY InEnds
  <2>3. PICK h \in G : o \in k0[h]
    BY InRuns
  <2>4. x \in N
    BY <1>6, <2>2, <2>3
  <2> QED BY <2>1, <2>4, InMoved
<1>14. MovedIn(G) \subseteq MovedIn(N) /\ y.moved \subseteq MovedIn(G)
  BY <1>6, <1>10 DEF MovedIn, Covers
<1>15. c[f].env.moved \subseteq MovedIn(N)
  BY <1>3, <1>12, <1>13, <1>14
<1>16. N # {}
  BY <1>6 DEF Covers
<1>17. c[f].brk = {} /\ c[f].cont = {}
  BY <1>1 DEF LoopAt
<1> QED BY <1>3, <1>12, <1>15, <1>16, <1>17, NothingMoved DEF N

(* c and k are what a loop with a judged body means. *)
WhileOf(c, k, check, run, s, S, T, l, g, w) ==
  /\ l \in BOOLEAN /\ g \in BOOLEAN /\ w \in BOOLEAN
  /\ s.op = "while" /\ Means(c, k, check, run, s, S)
  /\ BlockJudged(check, run, s.blocks[1], S, T, l, g, w)
  /\ w => MaxTurns >= 1

(* A loop is judged when its body is. *)
LEMMA LoopJudged ==
  ASSUME NEW c, NEW k, NEW check, NEW run, NEW s, NEW S, NEW T, NEW l, NEW g, NEW w,
         WhileOf(c, k, check, run, s, S, T, l, g, w)
  PROVE  Judged(c, k, S, S, FALSE, g, w)
<1>0. /\ l \in BOOLEAN /\ g \in BOOLEAN /\ w \in BOOLEAN
      /\ s.op = "while" /\ Means(c, k, check, run, s, S)
      /\ BlockJudged(check, run, s.blocks[1], S, T, l, g, w)
      /\ w => MaxTurns >= 1
  BY DEF WhileOf
<1> USE <1>0
<1> DEFINE b == s.blocks[1]
<1>1. /\ Judged(ScopedOf(check, b), RunScopedOf(run, b), S, S, l, g, w)
      /\ Home(ScopedOf(check, b), RunScopedOf(run, b), S)
  <2>1. ScopedBlock(check, run, b, S, T, l, g, w)
    BY DEF ScopedBlock
  <2> QED BY <2>1, ScopedJudged
<1>2. LoopBody(check, run, b, S, l)
  BY <1>1 DEF LoopBody, Arm, Judged
<1>3. ASSUME NEW e \in EnvsOf(S)
      PROVE  c[e] = LoopEnd(Passes(check, b, e)[8]) /\ k[e] = RunLoop(run, b, e)
  <2>1. Stmt(check, s, e) = Loop(check, s, e)
    BY DEF Stmt, PlaceOps
  <2>2. RunStmt(run, s, e) = RunLoop(run, b, e)
    BY DEF RunStmt, PlaceOps, Exits, Branching
  <2> QED BY <2>1, <2>2 DEF Means, Loop
<1>4. LoopOf(check, run, b, l, c, k, S, g, w)
  BY <1>1, <1>2, <1>3 DEF LoopOf
<1>5. Shaped(c, k, S, S, FALSE) /\ Grows(c, S)
  BY <1>4, LoopShaped
<1>6. Steady(c, S) /\ Foreseen(c, k, S)
  BY <1>4, LoopSteady, LoopForeseen
<1>7. w => Witnessed(c, k, S, FALSE)
  BY <1>4, LoopWitnessed
<1> QED BY <1>5, <1>6, <1>7 DEF Judged

-----------------------------------------------------------------------------
(* Blocks, as they are written. *)

(* The equations of After, one by one. *)
LEMMA AfterSteps ==
  ASSUME NEW check, NEW b, NEW env, Len(b) \in Nat
  PROVE  /\ After(check, b, env)[0] = Fresh(env)
         /\ \A j \in 1..Len(b) :
               After(check, b, env)[j] = Follow(check, b[j], After(check, b, env)[j - 1])
<1> DEFINE A == After(check, b, env)
           B == Fresh(env)
           F(j) == Follow(check, b[j], A[j - 1])
<1>1. A = [j \in 0..Len(b) |-> IF j = 0 THEN B ELSE F(j)]
  BY AfterWalk
<1>2. 0 \in 0..Len(b) /\ \A j \in 1..Len(b) : j \in 0..Len(b) /\ j # 0
  OBVIOUS
<1>3. A[0] = B
  <2> HIDE DEF A, B, F
  <2> QED BY <1>1, <1>2
<1>4. \A j \in 1..Len(b) : A[j] = F(j)
  <2> HIDE DEF A, B, F
  <2> QED BY <1>1, <1>2
<1> QED BY <1>3, <1>4

(* Those of RunAfter. *)
LEMMA RunAfterSteps ==
  ASSUME NEW run, NEW b, NEW env, Len(b) \in Nat
  PROVE  /\ RunAfter(run, b, env)[0] = {Outcome("next", env)}
         /\ \A j \in 1..Len(b) :
               RunAfter(run, b, env)[j] = RunFollow(run, b[j], RunAfter(run, b, env)[j - 1])
<1> DEFINE A == RunAfter(run, b, env)
           B == {Outcome("next", env)}
           F(j) == RunFollow(run, b[j], A[j - 1])
<1>1. A = [j \in 0..Len(b) |-> IF j = 0 THEN B ELSE F(j)]
  BY RunAfterWalk
<1>2. 0 \in 0..Len(b) /\ \A j \in 1..Len(b) : j \in 0..Len(b) /\ j # 0
  OBVIOUS
<1>3. A[0] = B
  <2> HIDE DEF A, B, F
  <2> QED BY <1>1, <1>2
<1>4. \A j \in 1..Len(b) : A[j] = F(j)
  <2> HIDE DEF A, B, F
  <2> QED BY <1>1, <1>2
<1> QED BY <1>3, <1>4

(* One more statement changes nothing of what is before it. *)
LEMMA AfterAppend ==
  ASSUME NEW X, NEW b \in Seq(X), NEW s \in X, NEW check, NEW env, NEW i \in 0..Len(b)
  PROVE  After(check, Append(b, s), env)[i] = After(check, b, env)[i]
<1> DEFINE c  == Append(b, s)
           A  == After(check, b, env)
           A2 == After(check, c, env)
           Bad == {j \in 0..Len(b) : A2[j] # A[j]}
<1>1. /\ Len(b) \in Nat /\ Len(c) = Len(b) + 1
      /\ \A j \in 1..Len(b) : c[j] = b[j]
  OBVIOUS
<1> HIDE DEF c
<1>2. /\ A[0] = Fresh(env)
      /\ \A j \in 1..Len(b) : A[j] = Follow(check, b[j], A[j - 1])
  BY <1>1, AfterSteps
<1>a. /\ A2[0] = Fresh(env)
      /\ \A j \in 1..Len(c) : A2[j] = Follow(check, c[j], A2[j - 1])
  BY <1>1, AfterSteps
<1> HIDE DEF A, A2
<1>3. Bad = {}
  <2> SUFFICES ASSUME Bad # {} PROVE FALSE OBVIOUS
  <2>1. PICK m \in Bad : \A k \in Bad : m <= k
    <3>1. Bad \in SUBSET Nat
      BY <1>1
    <3> HIDE DEF Bad
    <3> QED BY <3>1, LeastNat
  <2>2. m # 0
    <3>1. A2[0] = A[0]
      BY <1>2, <1>a
    <3> QED BY <2>1, <3>1
  <2>3. m - 1 \in 0..Len(b) /\ m - 1 \notin Bad
    BY <1>1, <2>1, <2>2
  <2>4. A2[m - 1] = A[m - 1]
    BY <2>3
  <2>5. m \in 1..Len(b) /\ m \in 1..Len(c)
    BY <1>1, <2>1, <2>2
  <2>6. A2[m] = Follow(check, c[m], A2[m - 1]) /\ A[m] = Follow(check, b[m], A[m - 1])
    BY <1>2, <1>a, <2>5
  <2> QED BY <1>1, <2>1, <2>4, <2>5, <2>6
<1> QED BY <1>3 DEF A, A2, c

(* The same of the runs. *)
LEMMA RunAfterAppend ==
  ASSUME NEW X, NEW b \in Seq(X), NEW s \in X, NEW run, NEW env, NEW i \in 0..Len(b)
  PROVE  RunAfter(run, Append(b, s), env)[i] = RunAfter(run, b, env)[i]
<1> DEFINE c  == Append(b, s)
           A  == RunAfter(run, b, env)
           A2 == RunAfter(run, c, env)
           Bad == {j \in 0..Len(b) : A2[j] # A[j]}
<1>1. /\ Len(b) \in Nat /\ Len(c) = Len(b) + 1
      /\ \A j \in 1..Len(b) : c[j] = b[j]
  OBVIOUS
<1> HIDE DEF c
<1>2. /\ A[0] = {Outcome("next", env)}
      /\ \A j \in 1..Len(b) : A[j] = RunFollow(run, b[j], A[j - 1])
  BY <1>1, RunAfterSteps
<1>a. /\ A2[0] = {Outcome("next", env)}
      /\ \A j \in 1..Len(c) : A2[j] = RunFollow(run, c[j], A2[j - 1])
  BY <1>1, RunAfterSteps
<1> HIDE DEF A, A2
<1>3. Bad = {}
  <2> SUFFICES ASSUME Bad # {} PROVE FALSE OBVIOUS
  <2>1. PICK m \in Bad : \A k \in Bad : m <= k
    <3>1. Bad \in SUBSET Nat
      BY <1>1
    <3> HIDE DEF Bad
    <3> QED BY <3>1, LeastNat
  <2>2. m # 0
    <3>1. A2[0] = A[0]
      BY <1>2, <1>a
    <3> QED BY <2>1, <3>1
  <2>3. m - 1 \in 0..Len(b) /\ m - 1 \notin Bad
    BY <1>1, <2>1, <2>2
  <2>4. A2[m - 1] = A[m - 1]
    BY <2>3
  <2>5. m \in 1..Len(b) /\ m \in 1..Len(c)
    BY <1>1, <2>1, <2>2
  <2>6. A2[m] = RunFollow(run, c[m], A2[m - 1]) /\ A[m] = RunFollow(run, b[m], A[m - 1])
    BY <1>2, <1>a, <2>5
  <2> QED BY <1>1, <2>1, <2>4, <2>5, <2>6
<1> QED BY <1>3 DEF A, A2, c

(* The meaning of a block with one more statement. *)
LEMMA BlockAppend ==
  ASSUME NEW X, NEW b \in Seq(X), NEW s \in X, NEW check, NEW run, NEW env
  PROVE  /\ Block(check, Append(b, s), env) = Follow(check, s, Block(check, b, env))
         /\ RunBlock(run, Append(b, s), env) = RunFollow(run, s, RunBlock(run, b, env))
<1> DEFINE c == Append(b, s)
           n == Len(b)
<1>1. n \in Nat /\ Len(c) = n + 1 /\ c[n + 1] = s /\ n + 1 \in 0..Len(c) /\ n + 1 # 0 /\ (n + 1) - 1 = n
  OBVIOUS
<1>2. /\ After(check, c, env)[n] = After(check, b, env)[n]
      /\ RunAfter(run, c, env)[n] = RunAfter(run, b, env)[n]
  BY AfterAppend, RunAfterAppend
<1> HIDE DEF c, n
<1>a. Len(c) \in Nat /\ n + 1 \in 1..Len(c) /\ c[n + 1] = s /\ (n + 1) - 1 = n
  BY <1>1
<1>3. After(check, c, env)[n + 1] = Follow(check, s, After(check, c, env)[n])
  BY <1>a, AfterSteps
<1>4. RunAfter(run, c, env)[n + 1] = RunFollow(run, s, RunAfter(run, c, env)[n])
  BY <1>a, RunAfterSteps
<1> QED BY <1>1, <1>2, <1>3, <1>4 DEF Block, RunBlock, c, n

(* The meaning of the empty block. *)
LEMMA EmptyBlock ==
  ASSUME NEW check, NEW run, NEW env
  PROVE  /\ Block(check, <<>>, env) = Result(env, FALSE, FALSE)
         /\ RunBlock(run, <<>>, env) = {Outcome("next", env)}
<1>1. Len(<<>>) = 0 /\ 0 \in Nat
  OBVIOUS
<1>2. After(check, <<>>, env)[0] = Fresh(env)
  BY <1>1, AfterSteps
<1>3. RunAfter(run, <<>>, env)[0] = {Outcome("next", env)}
  BY <1>1, RunAfterSteps
<1> QED BY <1>1, <1>2, <1>3 DEF Block, RunBlock, Fresh

(* The empty block is judged. *)
LEMMA EmptyJudged ==
  ASSUME NEW check, NEW run, NEW S, NEW g \in BOOLEAN, NEW w \in BOOLEAN
  PROVE  BlockJudged(check, run, <<>>, S, S, FALSE, g, w)
<1>1. ASSUME NEW e \in EnvsOf(S)
      PROVE  /\ BlockOf(check, <<>>)[e] = Result(e, FALSE, FALSE)
             /\ RunBlockOf(run, <<>>)[e] = {Outcome("next", e)}
  <2>1. e \in Envs
    BY EnvsOfEnvs
  <2> QED BY <2>1, EmptyBlock DEF BlockOf, RunBlockOf
<1> QED BY <1>1, NothingJudged DEF BlockJudged

(* A judged block that does not leave, and a judged statement that         *)
(* follows.                                                                *)
AppendOf(check, run, b, s, S, T, U, l, g, w) ==
  /\ l \in BOOLEAN /\ g \in BOOLEAN /\ w \in BOOLEAN
  /\ BlockJudged(check, run, b, S, T, FALSE, g, w)
  /\ Judged(check[s], run[s], T, U, l, g, w)

(* A block that does not leave is judged with one more statement that is. *)
LEMMA AppendJudged ==
  ASSUME NEW X, NEW b \in Seq(X), NEW s \in X, NEW check, NEW run, NEW S, NEW T, NEW U,
         NEW l, NEW g, NEW w, AppendOf(check, run, b, s, S, T, U, l, g, w)
  PROVE  BlockJudged(check, run, Append(b, s), S, U, l, g, w)
<1>0. /\ l \in BOOLEAN /\ g \in BOOLEAN /\ w \in BOOLEAN
      /\ BlockJudged(check, run, b, S, T, FALSE, g, w) /\ Judged(check[s], run[s], T, U, l, g, w)
  BY DEF AppendOf
<1> USE <1>0
<1> DEFINE c  == BlockOf(check, b)
           k  == RunBlockOf(run, b)
           c3 == BlockOf(check, Append(b, s))
           k3 == RunBlockOf(run, Append(b, s))
<1>1. ASSUME NEW e \in EnvsOf(S)
      PROVE  /\ c3[e] = Then(c[e], check[s][c[e].env])
             /\ k3[e] = UNION {IF o.how = "next" THEN run[s][o.env] ELSE {o} : o \in k[e]}
  <2>1. e \in Envs
    BY EnvsOfEnvs
  <2>2. c[e] = Block(check, b, e) /\ k[e] = RunBlock(run, b, e)
    BY <2>1 DEF BlockOf, RunBlockOf
  <2>3. c3[e] = Follow(check, s, c[e]) /\ k3[e] = RunFollow(run, s, k[e])
    BY <2>1, <2>2, BlockAppend DEF BlockOf, RunBlockOf
  <2>4. c[e].left = FALSE
    BY DEF BlockJudged, Judged, Shaped
  <2> HIDE DEF c, k, c3, k3
  <2> QED BY <2>3, <2>4 DEF Follow, RunFollow
<1>2. Judged(c, k, S, T, FALSE, g, w)
  BY DEF BlockJudged
<1> HIDE DEF c, k, c3, k3
<1>3. Sequel(c, k, check[s], run[s], c3, k3, S)
  BY <1>1 DEF Sequel
<1>4. Judged(c3, k3, S, U, l, g, w)
  <2> DEFINE c2 == check[s]
             k2 == run[s]
  <2>1. Both(c, k, c2, k2, S, T, U, l, g, w) /\ Sequel(c, k, c2, k2, c3, k3, S)
    BY <1>2, <1>3 DEF Both
  <2> HIDE DEF c2, k2
  <2> QED BY <2>1, JudgedSequel
<1> QED BY <1>4 DEF BlockJudged, c3, k3

(* Check and Run are what statements mean. *)
LEMMA MeaningByDepth ==
  ASSUME NEW d \in 0..MaxSize, NEW s \in Stmts[d], NEW S
  PROVE  Means(Check[d][s], Run[d][s], IF d = 0 THEN <<>> ELSE Check[d - 1],
               IF d = 0 THEN <<>> ELSE Run[d - 1], s, S)
<1> SUFFICES ASSUME NEW e \in EnvsOf(S)
             PROVE  /\ Check[d][s][e] = Stmt(IF d = 0 THEN <<>> ELSE Check[d - 1], s, e)
                    /\ Run[d][s][e] = RunStmt(IF d = 0 THEN <<>> ELSE Run[d - 1], s, e)
  BY DEF Means
<1>1. e \in Envs
  BY EnvsOfEnvs
<1>2. Check[d] = [x \in Stmts[d] |-> [env \in Envs |-> Stmt(IF d = 0 THEN <<>> ELSE Check[d - 1], x, env)]]
  BY CheckByDepth
<1>3. Run[d] = [x \in Stmts[d] |-> [env \in Envs |-> RunStmt(IF d = 0 THEN <<>> ELSE Run[d - 1], x, env)]]
  BY RunByDepth
<1> QED BY <1>1, <1>2, <1>3

-----------------------------------------------------------------------------
(* The chain of statements that are being written. *)

(* Statements of any depth and the frames of the chain; the k-th block of  *)
(* a chain holds statements that nest no deeper than DepthAt(k).           *)
AllStmts   == UNION {Stmts[d] : d \in 0..MaxSize}
Frames     == [op : {"fn", "if", "while"} \cup Branching, blocks : Seq(Seq(AllStmts))]
DepthAt(k) == MaxSize - k + 1

(* The frames of a chain: the function and then compound statements, each  *)
(* begun in a block that had not left.                                     *)
FrameShape(f, k) ==
  /\ f.op = "fn" <=> k = 1
  /\ Len(f.blocks) \in {1, 2} /\ (Len(f.blocks) = 2 => f.op \in Branching)
  /\ \A j \in 1..Len(f.blocks) : f.blocks[j] \in Seq(Stmts[DepthAt(k)])
ChainShape(chain) ==
  /\ chain \in Seq(Frames) /\ Len(chain) \in 1..(MaxSize + 1)
  /\ \A k \in 1..Len(chain) : FrameShape(chain[k], k)
  /\ \A k \in 1..(Len(chain) - 1) : ~Leaves(chain[k].blocks[Len(chain[k].blocks)])

(* chain2 is chain with s added to the current block. *)
Added(chain, chain2, s) ==
  /\ Len(chain2) = Len(chain)
  /\ \A i \in 1..(Len(chain) - 1) : chain2[i] = chain[i]
  /\ LET f  == chain[Len(chain)]
         f2 == chain2[Len(chain)] IN
     /\ f2.op = f.op /\ Len(f2.blocks) = Len(f.blocks)
     /\ \A j \in 1..(Len(f.blocks) - 1) : f2.blocks[j] = f.blocks[j]
     /\ f2.blocks[Len(f.blocks)] = Append(f.blocks[Len(f.blocks)], s)

(* What the statements of a depth are. *)
LEMMA StmtsIn ==
  ASSUME NEW d \in 0..MaxSize
  PROVE  /\ Stmts[d] \subseteq AllStmts /\ Simple \subseteq Stmts[d]
         /\ d > 0 => Stmts[d] = Simple \cup Compound(Stmts[d - 1])
<1>1. Stmts[d] = IF d = 0 THEN Simple ELSE Simple \cup Compound(Stmts[d - 1])
  BY StmtsByDepth
<1> QED BY <1>1, Bounds DEF AllStmts

(* The types of a frame of the chain. *)
LEMMA FrameTyped ==
  ASSUME NEW chain, ChainShape(chain), NEW k \in 1..Len(chain)
  PROVE  /\ DepthAt(k) \in 0..MaxSize /\ k \in Nat /\ Len(chain) \in Nat
         /\ chain[k] \in Frames /\ Len(chain[k].blocks) \in {1, 2}
         /\ chain[k].blocks \in Seq(Seq(AllStmts))
         /\ \A j \in 1..Len(chain[k].blocks) : chain[k].blocks[j] \in Seq(Stmts[DepthAt(k)])
<1>1. Len(chain) \in 1..(MaxSize + 1) /\ chain \in Seq(Frames) /\ FrameShape(chain[k], k)
  BY DEF ChainShape
<1>2. DepthAt(k) \in 0..MaxSize
  BY <1>1, Bounds DEF DepthAt
<1>3. chain[k] \in Frames
  BY <1>1
<1>4. chain[k].blocks \in Seq(Seq(AllStmts))
  BY <1>3 DEF Frames
<1> QED BY <1>1, <1>2, <1>3, <1>4 DEF FrameShape

(* Facts of sequences, said once for the provers. *)
LEMMA SeqFacts ==
  ASSUME NEW X, NEW q \in Seq(X)
  PROVE  /\ Len(q) \in Nat /\ \A i \in 1..Len(q) : q[i] \in X
         /\ \A x \in X : Append(q, x) \in Seq(X)
OBVIOUS

(* AddTo adds a statement to the current block. *)
LEMMA AddToAdded ==
  ASSUME NEW chain, ChainShape(chain), NEW s \in AllStmts
  PROVE  Added(chain, AddTo(chain, s), s) /\ AddTo(chain, s) \in Seq(Frames)
<1> DEFINE n  == Len(chain)
           f  == chain[n]
           m  == Len(f.blocks)
           bs == [f.blocks EXCEPT ![m] = Append(@, s)]
           f2 == [f EXCEPT !.blocks = bs]
           c2 == [chain EXCEPT ![n] = f2]
<1>1. n \in Nat /\ n \in 1..n /\ chain \in Seq(Frames)
  BY DEF ChainShape
<1>2. f \in Frames /\ f.blocks \in Seq(Seq(AllStmts)) /\ m \in {1, 2}
  BY <1>1, FrameTyped
<1>3. AddTo(chain, s) = c2
  BY DEF AddTo
<1>4. f.blocks[m] \in Seq(AllStmts) /\ Append(f.blocks[m], s) \in Seq(AllStmts)
  <2>1. m \in 1..m
    <3> HIDE DEF m
    <3> QED BY <1>2
  <2>2. f.blocks[m] \in Seq(AllStmts)
    BY <1>2, <2>1, SeqFacts
  <2> QED BY <2>2, SeqFacts
<1>5. /\ bs \in Seq(Seq(AllStmts)) /\ Len(bs) = m
      /\ \A j \in 1..(m - 1) : bs[j] = f.blocks[j]
      /\ bs[m] = Append(f.blocks[m], s)
  <2> DEFINE x == Append(f.blocks[m], s)
             A == f.blocks
  <2>1. x \in Seq(AllStmts) /\ A \in Seq(Seq(AllStmts)) /\ m = Len(A) /\ bs = [A EXCEPT ![m] = x]
    BY <1>2, <1>4
  <2> HIDE DEF x, A, m, bs
  <2>2. bs \in Seq(Seq(AllStmts)) /\ Len(bs) = m /\ (\A j \in 1..(m - 1) : bs[j] = A[j]) /\ bs[m] = x
    BY <1>2, <2>1
  <2> QED BY <2>2 DEF x, A
<1>6. f2 \in Frames /\ f2.op = f.op /\ f2.blocks = bs
  BY <1>2, <1>5 DEF Frames
<1>7. c2 \in Seq(Frames) /\ Len(c2) = n /\ (\A i \in 1..(n - 1) : c2[i] = chain[i]) /\ c2[n] = f2
  <2> HIDE DEF f2
  <2> QED BY <1>1, <1>6
<1> HIDE DEF c2, f2, bs
<1> QED BY <1>3, <1>5, <1>6, <1>7 DEF Added

(* The chain keeps its form. *)
LEMMA AddedShape ==
  ASSUME NEW chain, ChainShape(chain), NEW s \in Stmts[DepthAt(Len(chain))]
  PROVE  Added(chain, AddTo(chain, s), s) /\ ChainShape(AddTo(chain, s))
<1> DEFINE n  == Len(chain)
           c2 == AddTo(chain, s)
<1>1. n \in Nat /\ n \in 1..n /\ n \in 1..(MaxSize + 1)
  BY Bounds DEF ChainShape
<1>2. DepthAt(n) \in 0..MaxSize
  BY <1>1, FrameTyped
<1>3. s \in AllStmts
  BY <1>2, StmtsIn
<1>4. Added(chain, c2, s) /\ c2 \in Seq(Frames)
  BY <1>3, AddToAdded
<1> HIDE DEF c2
<1>5. ASSUME NEW k \in 1..n, k # n PROVE c2[k] = chain[k] /\ k \in 1..(n - 1)
  BY <1>1, <1>4, <1>5 DEF Added
<1>6. \A k \in 1..n : FrameShape(chain[k], k)
  BY DEF ChainShape
<1>7. FrameShape(c2[n], n)
  <2> DEFINE f == chain[n]
             f2 == c2[n]
             m == Len(f.blocks)
  <2>1. /\ f2.op = f.op /\ Len(f2.blocks) = m
        /\ \A j \in 1..(m - 1) : f2.blocks[j] = f.blocks[j]
        /\ f2.blocks[m] = Append(f.blocks[m], s)
    BY <1>4 DEF Added
  <2>2. FrameShape(f, n)
    BY <1>1, <1>6
  <2> HIDE DEF f, f2, m
  <2>3. m \in {1, 2} /\ \A j \in 1..m : f.blocks[j] \in Seq(Stmts[DepthAt(n)])
    BY <2>2 DEF FrameShape, m
  <2>4. f2.blocks[m] \in Seq(Stmts[DepthAt(n)])
    <3>1. f.blocks[m] \in Seq(Stmts[DepthAt(n)])
      BY <2>3
    <3> QED BY <2>1, <3>1, SeqFacts
  <2>5. \A j \in 1..m : f2.blocks[j] \in Seq(Stmts[DepthAt(n)])
    <3> SUFFICES ASSUME NEW j \in 1..m, j # m PROVE f2.blocks[j] \in Seq(Stmts[DepthAt(n)])
      BY <2>4
    <3>1. j \in 1..(m - 1)
      BY <2>3
    <3> QED BY <2>1, <2>3, <3>1
  <2>6. FrameShape(f2, n)
    BY <2>1, <2>2, <2>5 DEF FrameShape, m
  <2> QED BY <2>6 DEF f2
<1>8. Len(c2) = n
  BY <1>4 DEF Added
<1>9. \A k \in 1..(n - 1) : c2[k] = chain[k]
  BY <1>4 DEF Added
<1>10. \A k \in 1..n : FrameShape(c2[k], k)
  BY <1>5, <1>6, <1>7
<1> QED BY <1>1, <1>4, <1>8, <1>9, <1>10 DEF ChainShape, c2

(* The current block of a chain. *)
CurrentOf(chain) == chain[Len(chain)].blocks[Len(chain[Len(chain)].blocks)]

(* chain2 is chain with one more frame. *)
Opened(chain, chain2, f) ==
  /\ Len(chain2) = Len(chain) + 1 /\ chain2[Len(chain2)] = f
  /\ \A i \in 1..Len(chain) : chain2[i] = chain[i]

(* A new frame has one empty block. *)
LEMMA FrameFields ==
  ASSUME NEW op \in {"fn", "if", "while"} \cup Branching
  PROVE  /\ Frame(op) \in Frames /\ Frame(op).op = op /\ Len(Frame(op).blocks) = 1
         /\ Frame(op).blocks[1] = <<>>
<1>1. <<<<>>>> \in Seq(Seq(AllStmts))
  OBVIOUS
<1> QED BY <1>1 DEF Frame, Frames

(* The chain keeps its form when a statement begins. *)
LEMMA OpenedShape ==
  ASSUME NEW chain, ChainShape(chain), NEW op \in {"if", "while"} \cup Branching,
         Len(chain) < MaxSize + 1, ~Leaves(CurrentOf(chain))
  PROVE  /\ Opened(chain, Append(chain, Frame(op)), Frame(op))
         /\ ChainShape(Append(chain, Frame(op)))
<1> DEFINE n  == Len(chain)
           c2 == Append(chain, Frame(op))
           f  == Frame(op)
<1>1. n \in Nat /\ n \in 1..n /\ n \in 1..(MaxSize + 1) /\ chain \in Seq(Frames)
  BY Bounds DEF ChainShape
<1>2. /\ f \in Frames /\ f.op = op /\ Len(f.blocks) = 1 /\ f.blocks[1] = <<>>
  BY FrameFields
<1>3. /\ c2 \in Seq(Frames) /\ Len(c2) = n + 1 /\ c2[n + 1] = f
      /\ \A i \in 1..n : c2[i] = chain[i]
  <2> HIDE DEF f
  <2> QED BY <1>1, <1>2 DEF f
<1> HIDE DEF c2, f
<1>4. op # "fn" /\ n + 1 # 1
  BY <1>1 DEF Branching
<1>5. FrameShape(f, n + 1)
  <2>1. \A j \in 1..1 : f.blocks[j] \in Seq(Stmts[DepthAt(n + 1)])
    <3>1. <<>> \in Seq(Stmts[DepthAt(n + 1)])
      OBVIOUS
    <3>2. f.blocks[1] \in Seq(Stmts[DepthAt(n + 1)])
      BY <1>2, <3>1
    <3>3. \A j \in 1..1 : j = 1
      OBVIOUS
    <3> QED BY <3>2, <3>3
  <2> QED BY <1>2, <1>4, <2>1 DEF FrameShape
<1>6. \A k \in 1..n : FrameShape(chain[k], k)
  BY DEF ChainShape
<1>7. \A k \in 1..(n + 1) : FrameShape(c2[k], k)
  <2> SUFFICES ASSUME NEW k \in 1..(n + 1) PROVE FrameShape(c2[k], k)
    OBVIOUS
  <2>1. k = n + 1 \/ k \in 1..n
    BY <1>1
  <2> QED BY <1>3, <1>5, <1>6, <2>1
<1>8. \A k \in 1..n : ~Leaves(c2[k].blocks[Len(c2[k].blocks)])
  <2> SUFFICES ASSUME NEW k \in 1..n PROVE ~Leaves(c2[k].blocks[Len(c2[k].blocks)])
    OBVIOUS
  <2>1. k = n \/ k \in 1..(n - 1)
    BY <1>1
  <2>2. c2[k] = chain[k]
    BY <1>3
  <2> QED BY <2>1, <2>2 DEF ChainShape, CurrentOf
<1>9. (n + 1) - 1 = n /\ n + 1 \in 1..(MaxSize + 1)
  BY <1>1, Bounds
<1>10. ChainShape(c2)
  BY <1>3, <1>7, <1>8, <1>9 DEF ChainShape
<1> QED BY <1>3, <1>10 DEF Opened, c2, f

(* What Append makes, said once for the provers. *)
LEMMA AppendFacts ==
  ASSUME NEW X, NEW q \in Seq(X), NEW x \in X
  PROVE  /\ Append(q, x) \in Seq(X) /\ Len(Append(q, x)) = Len(q) + 1
         /\ \A i \in 1..Len(q) : Append(q, x)[i] = q[i]
         /\ Append(q, x)[Len(q) + 1] = x
OBVIOUS

(* Appending to one. *)
LEMMA AppendTwo ==
  ASSUME NEW X, NEW q \in Seq(X), NEW x \in X
  PROVE  /\ Append(q, x) \in Seq(X)
         /\ Len(q) = 1 => /\ Len(Append(q, x)) = 2
                          /\ Append(q, x)[1] = q[1] /\ Append(q, x)[2] = x
<1> DEFINE a == Append(q, x)
           n == Len(q)
<1>1. /\ a \in Seq(X) /\ Len(a) = n + 1 /\ (\A i \in 1..n : a[i] = q[i]) /\ a[n + 1] = x
  BY AppendFacts
<1> HIDE DEF a, n
<1>2. a \in Seq(X) /\ (n = 1 => Len(a) = 2 /\ a[1] = q[1] /\ a[2] = x)
  BY <1>1
<1> QED BY <1>2 DEF a, n

(* chain2 is chain with a second block in its last frame. *)
Further(chain, chain2) ==
  /\ Len(chain2) = Len(chain)
  /\ \A i \in 1..(Len(chain) - 1) : chain2[i] = chain[i]
  /\ LET f  == chain[Len(chain)]
         f2 == chain2[Len(chain)] IN
     f2.op = f.op /\ Len(f2.blocks) = 2 /\ f2.blocks[1] = f.blocks[1] /\ f2.blocks[2] = <<>>

(* The chain keeps its form when a second block begins. *)
LEMMA FurtherShape ==
  ASSUME NEW chain, ChainShape(chain), chain[Len(chain)].op \in Branching,
         Len(chain[Len(chain)].blocks) = 1
  PROVE  LET chain2 == [chain EXCEPT ![Len(chain)].blocks = Append(@, <<>>)]
         IN  Further(chain, chain2) /\ ChainShape(chain2)
<1> DEFINE n  == Len(chain)
           f  == chain[n]
           bs == Append(f.blocks, <<>>)
           f2 == [f EXCEPT !.blocks = bs]
           c2 == [chain EXCEPT ![n].blocks = Append(@, <<>>)]
<1>1. n \in Nat /\ n \in 1..n /\ n \in 1..(MaxSize + 1) /\ chain \in Seq(Frames)
  BY Bounds DEF ChainShape
<1>2. /\ f \in Frames /\ f.blocks \in Seq(Seq(AllStmts))
      /\ FrameShape(f, n)
  BY <1>1, FrameTyped DEF ChainShape
<1>3. /\ bs \in Seq(Seq(AllStmts)) /\ Len(bs) = 2 /\ bs[1] = f.blocks[1] /\ bs[2] = <<>>
  <2> DEFINE A == f.blocks
  <2>1. A \in Seq(Seq(AllStmts)) /\ Len(A) = 1
    BY <1>2
  <2>2. <<>> \in Seq(AllStmts)
    OBVIOUS
  <2> HIDE DEF A
  <2>3. /\ Append(A, <<>>) \in Seq(Seq(AllStmts)) /\ Len(Append(A, <<>>)) = 2
        /\ Append(A, <<>>)[1] = A[1] /\ Append(A, <<>>)[2] = <<>>
    <3> DEFINE x == <<>>
               X == Seq(AllStmts)
    <3>1. A \in Seq(X) /\ x \in X
      BY <2>1, <2>2
    <3> HIDE DEF x, X
    <3>2. /\ Append(A, x) \in Seq(X) /\ Len(Append(A, x)) = 2
          /\ Append(A, x)[1] = A[1] /\ Append(A, x)[2] = x
      BY <2>1, <3>1, AppendTwo
    <3> QED BY <3>2 DEF x, X
  <2> QED BY <2>3 DEF A
<1>4. f2 \in Frames /\ f2.op = f.op /\ f2.blocks = bs
  BY <1>2, <1>3 DEF Frames
<1>5. c2 = [chain EXCEPT ![n] = f2]
  OBVIOUS
<1>6. c2 \in Seq(Frames) /\ Len(c2) = n /\ (\A i \in 1..(n - 1) : c2[i] = chain[i]) /\ c2[n] = f2
  <2> HIDE DEF f2, c2
  <2> QED BY <1>1, <1>4, <1>5
<1> HIDE DEF c2, bs, f2
<1>7. FrameShape(f2, n)
  <2>1. f.blocks[1] \in Seq(Stmts[DepthAt(n)])
    BY <1>2 DEF FrameShape
  <2>2. <<>> \in Seq(Stmts[DepthAt(n)])
    OBVIOUS
  <2>3. \A j \in 1..2 : j = 1 \/ j = 2
    OBVIOUS
  <2>4. \A j \in 1..2 : f2.blocks[j] \in Seq(Stmts[DepthAt(n)])
    BY <1>3, <1>4, <2>1, <2>2, <2>3
  <2> QED BY <1>2, <1>3, <1>4, <2>4 DEF FrameShape
<1>8. \A k \in 1..n : FrameShape(c2[k], k)
  <2> SUFFICES ASSUME NEW k \in 1..n PROVE FrameShape(c2[k], k)
    OBVIOUS
  <2>1. k = n \/ k \in 1..(n - 1)
    BY <1>1
  <2> QED BY <1>6, <1>7, <2>1 DEF ChainShape
<1>9. ChainShape(c2)
  BY <1>1, <1>6, <1>8 DEF ChainShape
<1>10. Further(chain, c2)
  BY <1>3, <1>4, <1>6 DEF Further
<1> QED BY <1>9, <1>10 DEF c2

(* What is left of the chain when a statement ends. *)
LEMMA FrontShape ==
  ASSUME NEW chain, ChainShape(chain), Len(chain) > 1
  PROVE  /\ ChainShape(Front(chain)) /\ Len(Front(chain)) = Len(chain) - 1
         /\ \A i \in 1..(Len(chain) - 1) : Front(chain)[i] = chain[i]
         /\ ~Leaves(CurrentOf(Front(chain)))
<1> DEFINE n  == Len(chain)
           c2 == Front(chain)
<1>1. n \in Nat /\ n \in 1..n /\ n \in 1..(MaxSize + 1) /\ chain \in Seq(Frames) /\ n > 1
  BY Bounds DEF ChainShape
<1>2. /\ c2 \in Seq(Frames) /\ Len(c2) = n - 1
      /\ \A i \in 1..(n - 1) : c2[i] = chain[i]
  BY <1>1 DEF Front
<1> HIDE DEF c2
<1>3. \A k \in 1..(n - 1) : k \in 1..n
  BY <1>1
<1>4. \A k \in 1..((n - 1) - 1) : k \in 1..(n - 1)
  BY <1>1
<1>5. n - 1 \in 1..(MaxSize + 1) /\ n - 1 \in 1..(n - 1)
  BY <1>1, Bounds
<1>6. ChainShape(c2)
  BY <1>2, <1>3, <1>4, <1>5 DEF ChainShape
<1>7. ~Leaves(CurrentOf(c2))
  BY <1>2, <1>5 DEF ChainShape, CurrentOf
<1> QED BY <1>2, <1>6, <1>7 DEF c2

(* The statement that ends nests one deeper than its blocks. *)
LEMMA WrittenIn ==
  ASSUME NEW chain, ChainShape(chain), Len(chain) > 1
  PROVE  /\ Written(chain[Len(chain)]) \in Stmts[DepthAt(Len(chain) - 1)]
         /\ DepthAt(Len(chain) - 1) \in 0..MaxSize /\ DepthAt(Len(chain) - 1) > 0
         /\ DepthAt(Len(chain) - 1) - 1 = DepthAt(Len(chain))
         /\ chain[Len(chain)].op \in {"if", "while"} \cup Branching
<1> DEFINE n == Len(chain)
           f == chain[n]
           d == DepthAt(n - 1)
<1>1. n \in Nat /\ n \in 1..n /\ n \in 1..(MaxSize + 1) /\ n > 1
  BY Bounds DEF ChainShape
<1>2. d \in 0..MaxSize /\ d > 0 /\ d - 1 = DepthAt(n)
  BY <1>1, Bounds DEF DepthAt
<1>3. f \in Frames /\ f.blocks \in Seq(Seq(AllStmts)) /\ FrameShape(f, n)
  BY <1>1, FrameTyped DEF ChainShape
<1>4. f.op \in {"if", "while"} \cup Branching
  BY <1>1, <1>3 DEF FrameShape, Frames
<1>5. f.blocks \in Seq(Seq(Stmts[d - 1]))
  <2> DEFINE A == f.blocks
             X == Seq(Stmts[d - 1])
  <2>1. A \in Seq(Seq(AllStmts)) /\ \A j \in 1..Len(A) : A[j] \in X
    BY <1>2, <1>3 DEF FrameShape
  <2> HIDE DEF A, X
  <2>2. A \in Seq(X)
    BY <2>1
  <2> QED BY <2>2 DEF A, X
<1>6. (\A b \in ToSet(f.blocks) : Leaves(b)) \in BOOLEAN
  OBVIOUS
<1>7. Written(f) \in Compound(Stmts[d - 1])
  BY <1>4, <1>5, <1>6 DEF Written, Compound
<1>8. Written(f) \in Stmts[d]
  BY <1>2, <1>7, StmtsIn
<1> QED BY <1>2, <1>4, <1>8

-----------------------------------------------------------------------------
(* What the invariant says of the chain. *)

(* What the witnesses need: no statement after one all of whose branches   *)
(* leave, and loops that run.                                              *)
Exact == ~AllLeave /\ MaxTurns >= 1

(* The current block of a frame; the names declared around the k-th frame, *)
(* and in scope at the end of the chain; whether an `if` without an else   *)
(* encloses it.                                                            *)
LastOf(f) == f.blocks[Len(f.blocks)]
ScopeAt(chain, k) == {Param} \cup UNION {Declared(LastOf(chain[i])) : i \in 1..(k - 1)}
LoneAt(chain, k)  == \E i \in 1..k : chain[i].op = "if"
EndScope(chain)   == ScopeAt(chain, Len(chain)) \cup Declared(CurrentOf(chain))

(* A block is judged: it binds, at its end, what it declares, and leaves   *)
(* only if it says so. What an `if` without an else encloses gives nothing *)
(* back.                                                                   *)
KnownAs(d, b, S, l, g) ==
  (l => Leaves(b)) /\ BlockJudged(Check[d], Run[d], b, S, S \cup Declared(b), l, g, Exact)
Known(d, b, S, g) == \E l \in BOOLEAN : KnownAs(d, b, S, l, g)
FrameKnown(chain, k) ==
  \A j \in 1..Len(chain[k].blocks) :
    Known(DepthAt(k), chain[k].blocks[j], ScopeAt(chain, k), LoneAt(chain, k))

(* All blocks of the chain are judged. *)
Understood(chain) == \A k \in 1..Len(chain) : FrameKnown(chain, k)

(* What a statement declares. *)
Adds(s) == IF s.op = "let" THEN {s.v} ELSE {}

(* What a block declares with one more statement. *)
LEMMA DeclaredAppend ==
  ASSUME NEW X, NEW b \in Seq(X), NEW s \in X
  PROVE  Declared(Append(b, s)) = Declared(b) \cup Adds(s)
<1> DEFINE c == Append(b, s)
<1>1. /\ Len(b) \in Nat /\ Len(c) = Len(b) + 1 /\ c[Len(b) + 1] = s
      /\ \A i \in 1..Len(b) : c[i] = b[i]
      /\ DOMAIN c = 1..Len(c) /\ DOMAIN b = 1..Len(b)
  OBVIOUS
<1> HIDE DEF c
<1>2. \A x : x \in ToSet(c) <=> x \in ToSet(b) \/ x = s
  <2> SUFFICES ASSUME NEW x PROVE x \in ToSet(c) <=> x \in ToSet(b) \/ x = s
    OBVIOUS
  <2>1. ASSUME x \in ToSet(c) PROVE x \in ToSet(b) \/ x = s
    <3>1. PICK i \in 1..Len(c) : x = c[i]
      BY <1>1, <2>1 DEF ToSet
    <3>2. i \in 1..Len(b) \/ i = Len(b) + 1
      BY <1>1
    <3> QED BY <1>1, <3>1, <3>2 DEF ToSet
  <2>2. ASSUME x \in ToSet(b) PROVE x \in ToSet(c)
    <3>1. PICK i \in 1..Len(b) : x = b[i]
      BY <1>1, <2>2 DEF ToSet
    <3>2. i \in 1..Len(c)
      BY <1>1
    <3> QED BY <1>1, <3>1, <3>2 DEF ToSet
  <2>3. s \in ToSet(c)
    <3>1. Len(b) + 1 \in 1..Len(c)
      BY <1>1
    <3> QED BY <1>1, <3>1 DEF ToSet
  <2> QED BY <2>1, <2>2, <2>3
<1>3. \A y, q : y \in Declared(q) <=> \E x \in ToSet(q) : x.op = "let" /\ y = x.v
  BY DEF Declared
<1>4. \A y : y \in Declared(c) <=> y \in Declared(b) \/ y \in Adds(s)
  BY <1>2, <1>3 DEF Adds
<1> QED BY <1>4 DEF c

(* The last of a sequence that was appended to. *)
LEMMA LastAppend ==
  ASSUME NEW X, NEW q \in Seq(X), NEW x \in X
  PROVE  Append(q, x) # <<>> /\ Last(Append(q, x)) = x
<1> DEFINE a == Append(q, x)
<1>1. Len(q) \in Nat /\ Len(a) = Len(q) + 1 /\ a[Len(q) + 1] = x
  BY AppendFacts
<1> HIDE DEF a
<1>2. a # <<>> /\ a[Len(a)] = x
  BY <1>1
<1> QED BY <1>2 DEF Last, a

(* The empty block declares nothing. *)
LEMMA DeclaredNone == Declared(<<>>) = {}
<1>1. ToSet(<<>>) = {}
  BY DEF ToSet
<1> QED BY <1>1 DEF Declared

(* What is around a frame is a matter of the frames before it. *)
LEMMA SameAround ==
  ASSUME NEW chain, NEW chain2, NEW k \in Nat, k >= 1,
         \A i \in 1..(k - 1) : chain2[i] = chain[i], chain2[k].op = chain[k].op
  PROVE  ScopeAt(chain2, k) = ScopeAt(chain, k) /\ LoneAt(chain2, k) = LoneAt(chain, k)
<1>1. ScopeAt(chain2, k) = ScopeAt(chain, k)
  <2>1. {Declared(LastOf(chain2[i])) : i \in 1..(k - 1)} = {Declared(LastOf(chain[i])) : i \in 1..(k - 1)}
    OBVIOUS
  <2> QED BY <2>1 DEF ScopeAt
<1>2. \A i \in 1..k : chain2[i].op = chain[i].op
  <2> SUFFICES ASSUME NEW i \in 1..k PROVE chain2[i].op = chain[i].op
    OBVIOUS
  <2>1. i = k \/ i \in 1..(k - 1)
    OBVIOUS
  <2> QED BY <2>1
<1>3. LoneAt(chain2, k) <=> LoneAt(chain, k)
  BY <1>2 DEF LoneAt
<1>4. LoneAt(chain2, k) = LoneAt(chain, k)
  BY <1>3 DEF LoneAt
<1> QED BY <1>1, <1>4

(* A frame stays judged when chains agree up to it. *)
LEMMA SameKnown ==
  ASSUME NEW chain, NEW chain2, NEW k \in Nat, k >= 1,
         \A i \in 1..k : chain2[i] = chain[i], FrameKnown(chain, k)
  PROVE  FrameKnown(chain2, k)
<1>1. ScopeAt(chain2, k) = ScopeAt(chain, k) /\ LoneAt(chain2, k) = LoneAt(chain, k)
  BY SameAround
<1>2. chain2[k] = chain[k]
  OBVIOUS
<1> QED BY <1>1, <1>2 DEF FrameKnown

(* The empty block is judged. *)
LEMMA EmptyKnown ==
  ASSUME NEW d, NEW S, NEW g \in BOOLEAN
  PROVE  Known(d, <<>>, S, g)
<1> DEFINE T == S \cup Declared(<<>>)
<1>1. T = S
  BY DeclaredNone
<1>2. Exact \in BOOLEAN
  BY DEF Exact
<1>3. BlockJudged(Check[d], Run[d], <<>>, S, S, FALSE, g, Exact)
  BY <1>2, EmptyJudged
<1>4. KnownAs(d, <<>>, S, FALSE, g)
  BY <1>1, <1>3 DEF KnownAs
<1> QED BY <1>4 DEF Known

(* The chain stays judged when a statement begins. *)
LEMMA OpenedUnderstood ==
  ASSUME NEW chain, ChainShape(chain), Understood(chain), NEW chain2, NEW op,
         Opened(chain, chain2, Frame(op))
  PROVE  Understood(chain2)
<1> SUFFICES ASSUME NEW k \in 1..Len(chain2) PROVE FrameKnown(chain2, k)
  BY DEF Understood
<1>1. /\ Len(chain) \in Nat /\ Len(chain2) = Len(chain) + 1 /\ chain2[Len(chain2)] = Frame(op)
      /\ \A i \in 1..Len(chain) : chain2[i] = chain[i]
  BY DEF Opened, ChainShape
<1>2. CASE k = Len(chain2)
  <2>1. Len(chain2[k].blocks) = 1 /\ chain2[k].blocks[1] = <<>>
    BY <1>1, <1>2 DEF Frame
  <2>2. LoneAt(chain2, k) \in BOOLEAN
    BY DEF LoneAt
  <2>3. Known(DepthAt(k), <<>>, ScopeAt(chain2, k), LoneAt(chain2, k))
    BY <2>2, EmptyKnown
  <2>4. \A j \in 1..1 : j = 1
    OBVIOUS
  <2> QED BY <2>1, <2>3, <2>4 DEF FrameKnown
<1>3. CASE k # Len(chain2)
  <2>1. k \in 1..Len(chain) /\ k \in Nat /\ k >= 1
    BY <1>1, <1>3
  <2>2. \A i \in 1..k : chain2[i] = chain[i]
    BY <1>1, <2>1
  <2>3. FrameKnown(chain, k)
    BY <2>1 DEF Understood
  <2> QED BY <2>1, <2>2, <2>3, SameKnown
<1> QED BY <1>2, <1>3

(* What is left of the chain stays judged. *)
LEMMA FrontUnderstood ==
  ASSUME NEW chain, ChainShape(chain), Understood(chain), Len(chain) > 1
  PROVE  Understood(Front(chain))
<1> SUFFICES ASSUME NEW k \in 1..Len(Front(chain)) PROVE FrameKnown(Front(chain), k)
  BY DEF Understood
<1>1. /\ Len(chain) \in Nat /\ Len(Front(chain)) = Len(chain) - 1
      /\ \A i \in 1..(Len(chain) - 1) : Front(chain)[i] = chain[i]
  BY FrontShape DEF ChainShape
<1>2. k \in 1..Len(chain) /\ k \in Nat /\ k >= 1 /\ \A i \in 1..k : i \in 1..(Len(chain) - 1)
  BY <1>1
<1>3. FrameKnown(chain, k)
  BY <1>2 DEF Understood
<1>4. \A i \in 1..k : Front(chain)[i] = chain[i]
  BY <1>1, <1>2
<1> QED BY <1>2, <1>3, <1>4, SameKnown

(* The chain stays judged when a second block begins. *)
LEMMA FurtherUnderstood ==
  ASSUME NEW chain, ChainShape(chain), Understood(chain), Len(chain[Len(chain)].blocks) = 1,
         NEW chain2, Further(chain, chain2)
  PROVE  Understood(chain2)
<1> DEFINE n == Len(chain)
<1> SUFFICES ASSUME NEW k \in 1..Len(chain2) PROVE FrameKnown(chain2, k)
  BY DEF Understood
<1>1. /\ n \in Nat /\ Len(chain2) = n /\ \A i \in 1..(n - 1) : chain2[i] = chain[i]
      /\ chain2[n].op = chain[n].op /\ Len(chain2[n].blocks) = 2
      /\ chain2[n].blocks[1] = chain[n].blocks[1] /\ chain2[n].blocks[2] = <<>>
  BY DEF Further, ChainShape
<1>2. k \in 1..n /\ k \in Nat /\ k >= 1
  BY <1>1
<1>3. FrameKnown(chain, k)
  BY <1>2 DEF Understood
<1>4. CASE k = n
  <2>1. ScopeAt(chain2, n) = ScopeAt(chain, n) /\ LoneAt(chain2, n) = LoneAt(chain, n)
    BY <1>1, <1>2, <1>4, SameAround
  <2>2. LoneAt(chain2, n) \in BOOLEAN
    BY DEF LoneAt
  <2>3. Known(DepthAt(n), <<>>, ScopeAt(chain2, n), LoneAt(chain2, n))
    BY <2>2, EmptyKnown
  <2>4. Known(DepthAt(n), chain[n].blocks[1], ScopeAt(chain2, n), LoneAt(chain2, n))
    <3>1. 1 \in 1..Len(chain[n].blocks)
      OBVIOUS
    <3> QED BY <1>3, <1>4, <2>1, <3>1 DEF FrameKnown
  <2>5. \A j \in 1..2 : j = 1 \/ j = 2
    OBVIOUS
  <2> QED BY <1>1, <1>4, <2>3, <2>4, <2>5 DEF FrameKnown
<1>5. CASE k # n
  <2>1. \A i \in 1..k : i \in 1..(n - 1)
    BY <1>2, <1>5
  <2>2. \A i \in 1..k : chain2[i] = chain[i]
    BY <1>1, <2>1
  <2> QED BY <1>2, <1>3, <2>2, SameKnown
<1> QED BY <1>4, <1>5

(* The statement s is judged where the chain ends. *)
NewJudged(chain, s, l) ==
  LET d == DepthAt(Len(chain)) IN
  /\ l => s.op \in Exits
  /\ Judged(Check[d][s], Run[d][s], EndScope(chain), EndScope(chain) \cup Adds(s), l,
            LoneAt(chain, Len(chain)), Exact)

(* The chain stays judged when such a statement is added. *)
LEMMA AddedUnderstood ==
  ASSUME NEW chain, ChainShape(chain), Understood(chain), ~Leaves(CurrentOf(chain)),
         NEW s \in Stmts[DepthAt(Len(chain))], NEW l \in BOOLEAN, NewJudged(chain, s, l)
  PROVE  Understood(AddTo(chain, s))
<1> DEFINE n  == Len(chain)
           c2 == AddTo(chain, s)
           m  == Len(chain[n].blocks)
           b  == chain[n].blocks[m]
           d  == DepthAt(n)
           S  == ScopeAt(chain, n)
           g  == LoneAt(chain, n)
<1> SUFFICES ASSUME NEW k \in 1..Len(c2) PROVE FrameKnown(c2, k)
  BY DEF Understood
<1>1. /\ n \in Nat /\ Len(c2) = n /\ \A i \in 1..(n - 1) : c2[i] = chain[i]
      /\ c2[n].op = chain[n].op /\ Len(c2[n].blocks) = m
      /\ \A j \in 1..(m - 1) : c2[n].blocks[j] = chain[n].blocks[j]
      /\ c2[n].blocks[m] = Append(b, s)
  BY AddedShape DEF Added, ChainShape
<1>2. k \in 1..n /\ k \in Nat /\ k >= 1
  BY <1>1
<1>3. FrameKnown(chain, k)
  BY <1>2 DEF Understood
<1>4. CASE k # n
  <2>1. \A i \in 1..k : i \in 1..(n - 1)
    BY <1>2, <1>4
  <2>2. \A i \in 1..k : c2[i] = chain[i]
    BY <1>1, <2>1
  <2> QED BY <1>2, <1>3, <2>2, SameKnown
<1>5. CASE k = n
  <2>1. ScopeAt(c2, n) = S /\ LoneAt(c2, n) = g
    BY <1>1, <1>2, <1>5, SameAround
  <2>2. m \in {1, 2} /\ m \in 1..m /\ b \in Seq(Stmts[d])
    <3>1. m \in {1, 2} /\ \A j \in 1..m : chain[n].blocks[j] \in Seq(Stmts[d])
      BY <1>2, <1>5, FrameTyped
    <3>2. m \in 1..m
      <4> HIDE DEF m
      <4> QED BY <3>1
    <3> QED BY <3>1, <3>2
  <2>3. PICK l0 \in BOOLEAN : KnownAs(d, b, S, l0, g)
    BY <1>3, <1>5, <2>2 DEF FrameKnown, Known
  <2>4. l0 = FALSE
    BY <2>3 DEF KnownAs, CurrentOf
  <2>5. BlockJudged(Check[d], Run[d], b, S, S \cup Declared(b), FALSE, g, Exact)
    BY <2>3, <2>4 DEF KnownAs
  <2>6. Judged(Check[d][s], Run[d][s], S \cup Declared(b), (S \cup Declared(b)) \cup Adds(s), l, g, Exact)
    BY DEF NewJudged, EndScope, CurrentOf
  <2>7. g \in BOOLEAN /\ Exact \in BOOLEAN
    BY DEF LoneAt, Exact
  <2>8. BlockJudged(Check[d], Run[d], Append(b, s), S, (S \cup Declared(b)) \cup Adds(s), l, g, Exact)
    <3> DEFINE T == S \cup Declared(b)
               U == T \cup Adds(s)
               X == Stmts[d]
               W == Exact
    <3>1. /\ b \in Seq(X) /\ s \in X /\ g \in BOOLEAN /\ W \in BOOLEAN /\ l \in BOOLEAN
          /\ BlockJudged(Check[d], Run[d], b, S, T, FALSE, g, W)
          /\ Judged(Check[d][s], Run[d][s], T, U, l, g, W)
      BY <2>2, <2>5, <2>6, <2>7
    <3> DEFINE ch == Check[d]
               rn == Run[d]
    <3> HIDE DEF T, U, X, W, S, g, d, b
    <3>2. BlockJudged(Check[d], Run[d], Append(b, s), S, U, l, g, W)
      <4>1. AppendOf(ch, rn, b, s, S, T, U, l, g, W)
        BY <3>1 DEF AppendOf
      <4> HIDE DEF ch, rn
      <4>2. BlockJudged(ch, rn, Append(b, s), S, U, l, g, W)
        BY <3>1, <4>1, AppendJudged
      <4> QED BY <4>2 DEF ch, rn
    <3> QED BY <3>2 DEF T, U, W
  <2>9. (S \cup Declared(b)) \cup Adds(s) = S \cup Declared(Append(b, s))
    BY <2>2, DeclaredAppend
  <2>10. l => Leaves(Append(b, s))
    <3>1. Append(b, s) # <<>> /\ Last(Append(b, s)) = s
      BY <2>2, LastAppend
    <3> QED BY <3>1 DEF NewJudged, Leaves
  <2>11. Known(d, Append(b, s), S, g)
    <3>1. KnownAs(d, Append(b, s), S, l, g)
      BY <2>8, <2>9, <2>10 DEF KnownAs
    <3> QED BY <3>1 DEF Known
  <2>12. ASSUME NEW j \in 1..m PROVE Known(d, c2[n].blocks[j], S, g)
    <3>1. CASE j = m
      BY <1>1, <2>11, <3>1
    <3>2. CASE j # m
      <4>1. j \in 1..(m - 1)
        BY <2>2, <3>2
      <4>2. c2[n].blocks[j] = chain[n].blocks[j]
        BY <1>1, <4>1
      <4> QED BY <1>3, <1>5, <4>2 DEF FrameKnown
    <3> QED BY <3>1, <3>2
  <2> HIDE DEF c2
  <2> QED BY <1>1, <1>5, <2>1, <2>12 DEF FrameKnown
<1> QED BY <1>4, <1>5

-----------------------------------------------------------------------------
(* A statement that ends is judged from its blocks. *)

(* The statement that a frame becomes: its blocks are judged within d, and *)
(* it lies in S.                                                           *)
Closing(d, s, S, g) ==
  /\ d \in 0..MaxSize /\ d > 0 /\ s \in Stmts[d]
  /\ Len(s.blocks) \in {1, 2} /\ DOMAIN s.blocks = 1..Len(s.blocks)
  /\ s.op = "ifelse" => Len(s.blocks) = 2
  /\ Exact /\ s.op \in Branching => \E j \in 1..Len(s.blocks) : ~Leaves(s.blocks[j])
  /\ \A j \in 1..Len(s.blocks) : Known(d - 1, s.blocks[j], S, g)

(* What it means. *)
LEMMA ClosingMeans ==
  ASSUME NEW d, NEW s, NEW S, NEW g \in BOOLEAN, Closing(d, s, S, g)
  PROVE  Means(Check[d][s], Run[d][s], Check[d - 1], Run[d - 1], s, S)
<1>1. d # 0 /\ d \in 0..MaxSize /\ s \in Stmts[d]
  BY Bounds DEF Closing
<1>2. Means(Check[d][s], Run[d][s], IF d = 0 THEN <<>> ELSE Check[d - 1],
            IF d = 0 THEN <<>> ELSE Run[d - 1], s, S)
  BY <1>1, MeaningByDepth
<1> QED BY <1>1, <1>2

(* What is known of a block of it. *)
LEMMA ClosingBlock ==
  ASSUME NEW d, NEW s, NEW S, NEW g \in BOOLEAN, Closing(d, s, S, g), NEW j \in 1..Len(s.blocks)
  PROVE  \E l \in BOOLEAN :
           /\ l => Leaves(s.blocks[j])
           /\ BlockJudged(Check[d - 1], Run[d - 1], s.blocks[j], S, S \cup Declared(s.blocks[j]), l, g, Exact)
BY DEF Closing, Known, KnownAs

(* Exact is TRUE or FALSE. *)
LEMMA ExactBoolean == Exact \in BOOLEAN
BY DEF Exact

(* The same for an `if` without an else. *)
ClosingLone(d, s, S, t) == t /\ Closing(d, s, S, t)

(* An `if` without an else that ends is judged. *)
LEMMA ClosingIf ==
  ASSUME NEW d, NEW s, NEW S, NEW t \in BOOLEAN, ClosingLone(d, s, S, t), s.op = "if",
         NEW g \in BOOLEAN
  PROVE  Judged(Check[d][s], Run[d][s], S, S, FALSE, g, Exact)
<1> DEFINE T == S \cup Declared(s.blocks[1])
           W == Exact
<1>0. Closing(d, s, S, t)
  BY DEF ClosingLone
<1>1. 1 \in 1..Len(s.blocks)
  <2>1. Len(s.blocks) \in {1, 2}
    BY <1>0 DEF Closing
  <2> QED BY <2>1
<1>2. PICK l \in BOOLEAN : BlockJudged(Check[d - 1], Run[d - 1], s.blocks[1], S, T, l, t, W)
  BY <1>0, <1>1, ClosingBlock
<1>a. ThenLone(Check[d - 1], Run[d - 1], s, S, T, l, t, W)
  BY <1>2 DEF ThenLone, ClosingLone
<1>3. Means(Check[d][s], Run[d][s], Check[d - 1], Run[d - 1], s, S)
  BY <1>0, ClosingMeans
<1>4. W \in BOOLEAN
  BY ExactBoolean
<1> HIDE DEF T, W
<1>5. Judged(Check[d][s], Run[d][s], S, S, FALSE, g, W)
  <2> DEFINE c == Check[d][s]
             k == Run[d][s]
             ch == Check[d - 1]
             rn == Run[d - 1]
  <2> HIDE DEF c, k, ch, rn
  <2>1. Judged(c, k, S, S, FALSE, g, W)
    <3>1. IfOf(c, k, ch, rn, s, S, T, l, t, g, W)
      BY <1>a, <1>2, <1>3, <1>4 DEF c, k, ch, rn, IfOf
    <3> QED BY <3>1, IfJudged
  <2> QED BY <2>1 DEF c, k
<1> QED BY <1>5 DEF W

(* A loop that ends is judged. *)
LEMMA ClosingWhile ==
  ASSUME NEW d, NEW s, NEW S, NEW g \in BOOLEAN, Closing(d, s, S, g), s.op = "while"
  PROVE  Judged(Check[d][s], Run[d][s], S, S, FALSE, g, Exact)
<1> DEFINE T == S \cup Declared(s.blocks[1])
           W == Exact
<1>1. 1 \in 1..Len(s.blocks)
  <2>1. Len(s.blocks) \in {1, 2}
    BY DEF Closing
  <2> QED BY <2>1
<1>2. PICK l \in BOOLEAN : BlockJudged(Check[d - 1], Run[d - 1], s.blocks[1], S, T, l, g, W)
  BY <1>1, ClosingBlock
<1>3. Means(Check[d][s], Run[d][s], Check[d - 1], Run[d - 1], s, S)
  BY ClosingMeans
<1>4. W \in BOOLEAN /\ (W => MaxTurns >= 1)
  BY DEF Exact
<1> HIDE DEF T, W
<1>5. Judged(Check[d][s], Run[d][s], S, S, FALSE, g, W)
  <2> DEFINE c == Check[d][s]
             k == Run[d][s]
             ch == Check[d - 1]
             rn == Run[d - 1]
  <2>1. WhileOf(c, k, ch, rn, s, S, T, l, g, W)
    BY <1>2, <1>3, <1>4 DEF WhileOf
  <2> HIDE DEF c, k, ch, rn
  <2>2. Judged(c, k, S, S, FALSE, g, W)
    BY <2>1, LoopJudged
  <2> QED BY <2>2 DEF c, k
<1> QED BY <1>5 DEF W

(* An if/else that ends is judged. *)
LEMMA ClosingIfElse ==
  ASSUME NEW d, NEW s, NEW S, NEW g \in BOOLEAN, Closing(d, s, S, g), s.op = "ifelse"
  PROVE  Judged(Check[d][s], Run[d][s], S, S, FALSE, g, Exact)
<1> DEFINE T1 == S \cup Declared(s.blocks[1])
           T2 == S \cup Declared(s.blocks[2])
           W  == Exact
<1>1. /\ 1 \in 1..Len(s.blocks) /\ 2 \in 1..Len(s.blocks) /\ DOMAIN s.blocks = 1..2
      /\ \A j \in 1..Len(s.blocks) : j = 1 \/ j = 2
  <2>1. Len(s.blocks) = 2 /\ DOMAIN s.blocks = 1..Len(s.blocks)
    BY DEF Closing
  <2> QED BY <2>1
<1>2. PICK l1 \in BOOLEAN : (l1 => Leaves(s.blocks[1])) /\ BlockJudged(Check[d - 1], Run[d - 1], s.blocks[1], S, T1, l1, g, W)
  BY <1>1, ClosingBlock
<1>3. PICK l2 \in BOOLEAN : (l2 => Leaves(s.blocks[2])) /\ BlockJudged(Check[d - 1], Run[d - 1], s.blocks[2], S, T2, l2, g, W)
  BY <1>1, ClosingBlock
<1>4. Means(Check[d][s], Run[d][s], Check[d - 1], Run[d - 1], s, S)
  BY ClosingMeans
<1>5. W \in BOOLEAN
  BY ExactBoolean
<1>6. W => ~(l1 /\ l2)
  <2>1. s.op \in Branching
    BY DEF Branching
  <2> QED BY <1>1, <1>2, <1>3, <2>1 DEF Closing
<1> HIDE DEF T1, T2, W
<1>a. ThenElse(Check[d - 1], Run[d - 1], s, S, T1, l1, T2, l2, g, W)
  BY <1>1, <1>2, <1>3, <1>6 DEF ThenElse
<1>7. Judged(Check[d][s], Run[d][s], S, S, FALSE, g, W)
  <2> DEFINE c == Check[d][s]
             k == Run[d][s]
             ch == Check[d - 1]
             rn == Run[d - 1]
  <2> HIDE DEF c, k, ch, rn
  <2>1. Judged(c, k, S, S, FALSE, g, W)
    <3>1. IfElseOf(c, k, ch, rn, s, S, T1, l1, T2, l2, g, W)
      BY <1>2, <1>3, <1>4, <1>5, <1>a DEF c, k, ch, rn, IfElseOf
    <3> QED BY <3>1, IfElseJudged
  <2> QED BY <2>1 DEF c, k
<1> QED BY <1>7 DEF W

(* A match that ends is judged. *)
LEMMA ClosingMatch ==
  ASSUME NEW d, NEW s, NEW S, NEW g \in BOOLEAN, Closing(d, s, S, g), s.op = "match"
  PROVE  Judged(Check[d][s], Run[d][s], S, S, FALSE, g, Exact)
<1> DEFINE W  == Exact
           I  == DOMAIN s.blocks
           P(j, l) == /\ l => Leaves(s.blocks[j])
                      /\ BlockJudged(Check[d - 1], Run[d - 1], s.blocks[j], S, S \cup Declared(s.blocks[j]), l, g, W)
           Ts == [j \in I |-> S \cup Declared(s.blocks[j])]
           ls == [j \in I |-> CHOOSE l \in BOOLEAN : P(j, l)]
<1>1. I = 1..Len(s.blocks) /\ Len(s.blocks) \in I
  <2>1. I = 1..Len(s.blocks) /\ Len(s.blocks) \in {1, 2}
    BY DEF Closing
  <2> HIDE DEF I
  <2> QED BY <2>1
<1>2. ASSUME NEW j \in I PROVE ls[j] \in BOOLEAN /\ P(j, ls[j])
  <2>1. \E l \in BOOLEAN : P(j, l)
    BY <1>1, ClosingBlock
  <2> HIDE DEF P
  <2> QED BY <2>1
<1>3. BlocksJudged(Check[d - 1], Run[d - 1], s.blocks, S, Ts, ls, g, W)
  <2> SUFFICES ASSUME NEW j \in I
               PROVE  /\ ls[j] \in BOOLEAN
                      /\ BlockJudged(Check[d - 1], Run[d - 1], s.blocks[j], S, Ts[j], ls[j], g, W)
    BY DEF BlocksJudged
  <2>1. Ts[j] = S \cup Declared(s.blocks[j])
    OBVIOUS
  <2> HIDE DEF Ts, ls
  <2> QED BY <1>2, <2>1
<1>4. Means(Check[d][s], Run[d][s], Check[d - 1], Run[d - 1], s, S)
  BY ClosingMeans
<1>5. W \in BOOLEAN
  BY ExactBoolean
<1>6. W => \E j \in I : ~ls[j]
  <2> SUFFICES ASSUME W PROVE \E j \in I : ~ls[j]
    OBVIOUS
  <2>1. PICK j \in 1..Len(s.blocks) : ~Leaves(s.blocks[j])
    BY DEF Closing, Branching
  <2>2. P(j, ls[j]) /\ j \in I
    BY <1>1, <1>2
  <2> HIDE DEF ls, I
  <2> QED BY <2>1, <2>2
<1> HIDE DEF Ts, ls, W
<1>7. Judged(Check[d][s], Run[d][s], S, S, FALSE, g, W)
  <2> DEFINE c == Check[d][s]
             k == Run[d][s]
             ch == Check[d - 1]
             rn == Run[d - 1]
  <2>1. MatchOf(c, k, ch, rn, s, S, Ts, ls, g, W)
    BY <1>1, <1>3, <1>4, <1>5, <1>6 DEF MatchOf
  <2> HIDE DEF c, k, ch, rn
  <2>2. Judged(c, k, S, S, FALSE, g, W)
    BY <2>1, MatchJudged
  <2> QED BY <2>2 DEF c, k
<1> QED BY <1>7 DEF W

(* A statement that ends is judged, and goes on in the block around it. *)
LEMMA ClosingJudged ==
  ASSUME NEW chain, ChainShape(chain), Understood(chain), Len(chain) > 1,
         NEW s, s = Written(chain[Len(chain)]),
         s.op = "ifelse" => Len(s.blocks) = 2, AllLeave \/ ~Leaves(<<s>>),
         NEW l \in BOOLEAN, ~l
  PROVE  NewJudged(Front(chain), s, l)
<1> DEFINE n == Len(chain)
           f == chain[n]
           d == DepthAt(n - 1)
           S == ScopeAt(chain, n)
           t == LoneAt(chain, n)
           g == LoneAt(chain, n - 1)
           c2 == Front(chain)
<1>1. n \in Nat /\ n \in 1..n /\ n - 1 \in 1..(n - 1) /\ n - 1 \in Nat /\ n - 1 >= 1
  BY DEF ChainShape
<1>2. s.op = f.op /\ s.blocks = f.blocks /\ s.leaves = (\A b \in ToSet(f.blocks) : Leaves(b))
  BY DEF Written
<1>3. /\ s \in Stmts[d] /\ d \in 0..MaxSize /\ d > 0 /\ d - 1 = DepthAt(n)
      /\ f.op \in {"if", "while"} \cup Branching
  BY WrittenIn
<1>4. /\ Len(f.blocks) \in {1, 2} /\ f.blocks \in Seq(Seq(AllStmts))
  BY <1>1, FrameTyped
<1>5. DOMAIN f.blocks = 1..Len(f.blocks)
  BY <1>4
<1>6. ASSUME Exact, s.op \in Branching PROVE \E j \in 1..Len(s.blocks) : ~Leaves(s.blocks[j])
  <2>1. ~Leaves(<<s>>)
    BY <1>6 DEF Exact
  <2>2. <<s>> # <<>> /\ Last(<<s>>) = s
    BY DEF Last
  <2>3. ~s.leaves
    BY <1>6, <2>1, <2>2 DEF Leaves
  <2>4. PICK b \in ToSet(f.blocks) : ~Leaves(b)
    BY <1>2, <2>3
  <2> QED BY <1>2, <1>5, <2>4 DEF ToSet
<1>7. \A j \in 1..Len(s.blocks) : Known(d - 1, s.blocks[j], S, t)
  BY <1>1, <1>2, <1>3 DEF Understood, FrameKnown
<1>8. Closing(d, s, S, t)
  BY <1>2, <1>3, <1>4, <1>5, <1>6, <1>7 DEF Closing
<1>9. t \in BOOLEAN /\ g \in BOOLEAN /\ (t <=> g \/ f.op = "if")
  <2>1. \A i : i \in 1..n <=> i \in 1..(n - 1) \/ i = n
    BY <1>1
  <2> QED BY <2>1 DEF LoneAt
<1>10. Judged(Check[d][s], Run[d][s], S, S, FALSE, g, Exact)
  <2> HIDE DEF t, g, S, d
  <2>1. CASE s.op = "if"
    <3>1. ClosingLone(d, s, S, t)
      BY <1>2, <1>8, <1>9, <2>1 DEF ClosingLone
    <3> QED BY <1>9, <2>1, <3>1, ClosingIf
  <2>2. CASE s.op # "if"
    <3>1. t = g
      BY <1>2, <1>9, <2>2
    <3>2. Closing(d, s, S, g)
      BY <1>8, <3>1
    <3>3. s.op \in {"while", "ifelse", "match"}
      BY <1>2, <1>3, <2>2 DEF Branching
    <3> QED BY <1>9, <3>2, <3>3, ClosingWhile, ClosingIfElse, ClosingMatch
  <2> QED BY <2>1, <2>2
<1>11. /\ Len(c2) = n - 1 /\ \A i \in 1..(n - 1) : c2[i] = chain[i]
  BY FrontShape
<1>12. ScopeAt(c2, n - 1) = ScopeAt(chain, n - 1) /\ LoneAt(c2, n - 1) = g
  <2>1. \A i \in 1..((n - 1) - 1) : i \in 1..(n - 1)
    BY <1>1
  <2> QED BY <1>1, <1>11, <2>1, SameAround
<1>13. EndScope(c2) = S
  <2>1. CurrentOf(c2) = LastOf(chain[n - 1])
    BY <1>1, <1>11 DEF CurrentOf, LastOf
  <2>2. \A i : i \in 1..(n - 1) <=> i \in 1..((n - 1) - 1) \/ i = n - 1
    BY <1>1
  <2>3. ScopeAt(chain, n) = ScopeAt(chain, n - 1) \cup Declared(LastOf(chain[n - 1]))
    BY <2>2 DEF ScopeAt
  <2> QED BY <1>11, <1>12, <2>1, <2>3 DEF EndScope
<1>14. Adds(s) = {}
  BY <1>2, <1>3 DEF Adds, Branching
<1>15. NewJudged(c2, s, FALSE)
  <2>1. Judged(Check[d][s], Run[d][s], EndScope(c2), EndScope(c2) \cup Adds(s), FALSE, LoneAt(c2, n - 1), Exact)
    BY <1>10, <1>12, <1>13, <1>14
  <2>2. DepthAt(Len(c2)) = d /\ Len(c2) = n - 1
    BY <1>11
  <2> QED BY <2>1, <2>2 DEF NewJudged
<1>16. l = FALSE
  OBVIOUS
<1> QED BY <1>15, <1>16

-----------------------------------------------------------------------------
(* The invariant, and that every action keeps it. *)

(* The programs for which the checker is right: no assignment inside an    *)
(* `if` without an else, and no name declared again in scope.              *)
Regular == ~LoneReowns /\ ~Shadowing

(* The form of the chain, and what accepted tells. *)
Shape ==
  /\ ChainShape(open) /\ size \in 0..MaxSize /\ Len(open) <= size + 1
  /\ accepted <=> Complete /\ Accepted(Body)

(* The inductive invariant. *)
IInv == Shape /\ (Regular => Understood(open))

(* The current block, as the actions name it. *)
LEMMA CurrentLast ==
  ASSUME ChainShape(open)
  PROVE  /\ Len(open) \in Nat /\ Len(open) \in 1..Len(open) /\ open \in Seq(Frames)
         /\ Last(open) = open[Len(open)] /\ Current = CurrentOf(open)
         /\ CurrentOf(open) \in Seq(Stmts[DepthAt(Len(open))])
<1>1. Len(open) \in Nat /\ Len(open) \in 1..Len(open) /\ open \in Seq(Frames)
  BY DEF ChainShape
<1>2. Len(open[Len(open)].blocks) \in {1, 2} /\ \A j \in 1..Len(open[Len(open)].blocks) : open[Len(open)].blocks[j] \in Seq(Stmts[DepthAt(Len(open))])
  BY <1>1, FrameTyped
<1>3. Last(open) = open[Len(open)] /\ Current = CurrentOf(open)
  BY DEF Last, Current, CurrentOf
<1>4. \A m \in {1, 2} : m \in 1..m
  OBVIOUS
<1>5. CurrentOf(open) \in Seq(Stmts[DepthAt(Len(open))])
  BY <1>2, <1>4 DEF CurrentOf
<1> QED BY <1>1, <1>3, <1>5

(* The scope and the enclosing `if`, as the actions name them. *)
LEMMA ScopeSaid ==
  ASSUME ChainShape(open)
  PROVE  /\ InScope = EndScope(open) /\ Param \in EndScope(open)
         /\ "if" \in Ops <=> LoneAt(open, Len(open))
<1> DEFINE n == Len(open)
<1>1. n \in Nat /\ n \in 1..n /\ DOMAIN open = 1..n
  BY DEF ChainShape
<1>2. \A f : f \in ToSet(open) <=> \E i \in 1..n : f = open[i]
  BY <1>1 DEF ToSet
<1>3. \A x : x \in InScope <=> x = Param \/ \E i \in 1..n : x \in Declared(LastOf(open[i]))
  BY <1>2 DEF InScope, LastOf, Last
<1>4. \A x : x \in EndScope(open) <=>
             \/ x = Param \/ \E i \in 1..(n - 1) : x \in Declared(LastOf(open[i]))
             \/ x \in Declared(LastOf(open[n]))
  BY DEF EndScope, ScopeAt, LastOf, CurrentOf
<1>5. \A i : i \in 1..n <=> i \in 1..(n - 1) \/ i = n
  BY <1>1
<1>6. \A x : x \in InScope <=> x \in EndScope(open)
  BY <1>3, <1>4, <1>5
<1>7. "if" \in Ops <=> LoneAt(open, n)
  BY <1>2 DEF Ops, LoneAt
<1> QED BY <1>4, <1>6, <1>7

(* What is declared is a name. *)
LEMMA LetNames ==
  ASSUME NEW s \in AllStmts, s.op = "let"
  PROVE  s.v \in Names
<1>1. PICK d \in 0..MaxSize : s \in Stmts[d]
  BY DEF AllStmts
<1>2. s \in Simple \/ s \in Compound(Stmts[d - 1])
  BY <1>1, StmtsByDepth
<1>3. CASE s \in Simple
  BY <1>3 DEF Simple, PlaceOps, Exits
<1>4. CASE s \in Compound(Stmts[d - 1])
  BY <1>4 DEF Compound, Branching
<1> QED BY <1>2, <1>3, <1>4

(* What is in scope is a name. *)
LEMMA ScopeNames ==
  ASSUME ChainShape(open)
  PROVE  EndScope(open) \subseteq Names
<1> SUFFICES ASSUME NEW f \in ToSet(open), NEW v \in Declared(Last(f.blocks)) PROVE v \in Names
  BY ScopeSaid, CheckerAssumption DEF InScope
<1>1. PICK i \in 1..Len(open) : f = open[i]
  BY DEF ToSet, ChainShape
<1>2. f.blocks \in Seq(Seq(AllStmts)) /\ Len(f.blocks) \in {1, 2}
  BY <1>1, FrameTyped
<1>3. Last(f.blocks) \in Seq(AllStmts)
  <2>1. \A m \in {1, 2} : m \in 1..m
    OBVIOUS
  <2>2. f.blocks[Len(f.blocks)] \in Seq(AllStmts)
    BY <1>2, <2>1, SeqFacts
  <2> QED BY <2>2 DEF Last
<1>4. PICK s \in ToSet(Last(f.blocks)) : s.op = "let" /\ v = s.v
  BY DEF Declared
<1>5. s \in AllStmts
  BY <1>3 DEF ToSet
<1> QED BY <1>4, <1>5, LetNames

(* The invariant holds when the next chain is judged. *)
LEMMA Grown ==
  ASSUME NEW chain, Grow(chain), ChainShape(chain), size' \in 0..MaxSize, Len(chain) <= size' + 1,
         Regular => Understood(chain)
  PROVE  IInv'
<1>1. open' = chain /\ (accepted' <=> Len(open') = 1 /\ Accepted(open'[1].blocks[1]))
  BY DEF Grow
<1>2. Shape'
  BY <1>1 DEF Shape, Complete, Body
<1> QED BY <1>1, <1>2 DEF IInv

(* The invariant holds when a judged statement is written. *)
LEMMA WriteKept ==
  ASSUME IInv, NEW s \in Simple, Write(s), NEW l \in BOOLEAN, Regular => NewJudged(open, s, l)
  PROVE  IInv'
<1>1. ChainShape(open) /\ size \in 0..MaxSize /\ Len(open) <= size + 1 /\ Len(open) \in 1..Len(open)
  BY CurrentLast DEF IInv, Shape
<1>2. size < MaxSize /\ ~Leaves(Current) /\ Grow(AddTo(open, s)) /\ size' = size + 1
  BY DEF Write
<1>3. s \in Stmts[DepthAt(Len(open))]
  BY <1>1, FrameTyped, StmtsIn
<1>4. ChainShape(AddTo(open, s)) /\ Len(AddTo(open, s)) = Len(open)
  BY <1>1, <1>3, AddedShape DEF Added
<1>5. ASSUME Regular PROVE Understood(AddTo(open, s))
  <2>1. Understood(open) /\ ~Leaves(CurrentOf(open)) /\ NewJudged(open, s, l)
    BY <1>1, <1>2, <1>5, CurrentLast DEF IInv
  <2> QED BY <1>1, <1>3, <2>1, AddedUnderstood
<1>6. size' \in 0..MaxSize /\ Len(AddTo(open, s)) <= size' + 1
  BY <1>1, <1>2, <1>4, Bounds DEF ChainShape
<1> QED BY <1>2, <1>4, <1>5, <1>6, Grown

(* What a statement means that is written now. *)
LEMMA NewMeans ==
  ASSUME ChainShape(open), NEW s \in Simple, NEW S
  PROVE  LET d == DepthAt(Len(open)) IN
         \E check, run : Means(Check[d][s], Run[d][s], check, run, s, S)
<1>1. Len(open) \in 1..Len(open)
  BY CurrentLast
<1>2. DepthAt(Len(open)) \in 0..MaxSize
  BY <1>1, FrameTyped
<1>3. s \in Stmts[DepthAt(Len(open))]
  BY <1>2, StmtsIn
<1> QED BY <1>2, <1>3, MeaningByDepth

(* Writing an operation on a place keeps the invariant. *)
LEMMA PlaceStep ==
  ASSUME IInv, WritePlace
  PROVE  IInv'
<1>0. ChainShape(open) /\ size \in 0..MaxSize
  BY DEF IInv, Shape
<1>1. PICK v \in InScope, p \in Places, op \in PlaceOps :
        /\ op = "set" => LoneReowns \/ "if" \notin Ops
        /\ Write([op |-> op, v |-> v, p |-> p, id |-> size])
  BY DEF WritePlace
<1> DEFINE s == [op |-> op, v |-> v, p |-> p, id |-> size]
           n == Len(open)
           d == DepthAt(n)
           S == EndScope(open)
           g == LoneAt(open, n)
           W == Exact
<1>2. v \in S /\ v \in Names /\ S = InScope /\ size \in Nat
  BY <1>0, ScopeSaid, ScopeNames
<1>3. s \in Simple
  BY <1>2 DEF Simple
<1>4. s.op = op /\ s.v = v /\ s.p = p /\ s.id = size
  OBVIOUS
<1>5. PlaceIn(s, S)
  BY <1>2, <1>4 DEF PlaceIn
<1>6. PICK l \in BOOLEAN : l = FALSE
  OBVIOUS
<1>7. ASSUME Regular PROVE NewJudged(open, s, l)
  <2>1. PICK check, run : Means(Check[d][s], Run[d][s], check, run, s, S)
    BY <1>0, <1>3, NewMeans
  <2>2. g \in BOOLEAN /\ W \in BOOLEAN
    BY ExactBoolean DEF LoneAt
  <2>3. g => s.op # "set"
    BY <1>0, <1>1, <1>4, <1>7, ScopeSaid DEF Regular
  <2>4. S \cup Adds(s) = S
    BY <1>4 DEF Adds, PlaceOps
  <2>5. Judged(Check[d][s], Run[d][s], S, S, FALSE, g, W)
    <3> DEFINE c == Check[d][s]
               k == Run[d][s]
    <3>1. Means(c, k, check, run, s, S)
      BY <2>1
    <3> HIDE DEF s, S, g, W, c, k
    <3>2. Judged(c, k, S, S, FALSE, g, W)
      BY <1>5, <2>2, <2>3, <3>1, PlaceJudged
    <3> QED BY <3>2 DEF c, k
  <2> HIDE DEF s
  <2> QED BY <1>6, <2>4, <2>5 DEF NewJudged
<1> HIDE DEF s
<1>8. Write(s)
  BY <1>1 DEF s
<1> QED BY <1>3, <1>7, <1>8, WriteKept

(* Writing a declaration keeps it. *)
LEMMA LetStep ==
  ASSUME IInv, WriteLet
  PROVE  IInv'
<1>0. ChainShape(open)
  BY DEF IInv, Shape
<1>1. PICK v \in Names : (Shadowing \/ v \notin InScope) /\ Write([op |-> "let", v |-> v])
  BY DEF WriteLet
<1> DEFINE s == [op |-> "let", v |-> v]
           n == Len(open)
           d == DepthAt(n)
           S == EndScope(open)
           g == LoneAt(open, n)
           W == Exact
           T == S \cup {v}
<1>2. S # {} /\ S = InScope
  BY <1>0, ScopeSaid
<1>3. s \in Simple
  BY DEF Simple
<1>4. s.op = "let" /\ s.v = v
  OBVIOUS
<1>6. PICK l \in BOOLEAN : l = FALSE
  OBVIOUS
<1>7. ASSUME Regular PROVE NewJudged(open, s, l)
  <2>1. PICK check, run : Means(Check[d][s], Run[d][s], check, run, s, S)
    BY <1>0, <1>3, NewMeans
  <2>2. g \in BOOLEAN /\ W \in BOOLEAN
    BY ExactBoolean DEF LoneAt
  <2>3. LetIn(s, S, T)
    BY <1>1, <1>2, <1>4, <1>7 DEF Regular, LetIn
  <2>4. S \cup Adds(s) = T
    BY <1>4 DEF Adds
  <2>5. Judged(Check[d][s], Run[d][s], S, T, FALSE, g, W)
    <3> DEFINE c == Check[d][s]
               k == Run[d][s]
    <3>1. Means(c, k, check, run, s, S)
      BY <2>1
    <3> HIDE DEF s, S, g, W, c, k, T
    <3>2. Judged(c, k, S, T, FALSE, g, W)
      BY <2>2, <2>3, <3>1, LetJudged
    <3> QED BY <3>2 DEF c, k
  <2> HIDE DEF s
  <2> QED BY <1>6, <2>4, <2>5 DEF NewJudged
<1> HIDE DEF s
<1>8. Write(s)
  BY <1>1 DEF s
<1> QED BY <1>3, <1>7, <1>8, WriteKept

(* Writing a return, a break or a continue keeps it. *)
LEMMA ExitStep ==
  ASSUME IInv, WriteExit
  PROVE  IInv'
<1>0. ChainShape(open)
  BY DEF IInv, Shape
<1>1. PICK op \in Exits : Write([op |-> op])
  BY DEF WriteExit
<1> DEFINE s == [op |-> op]
           n == Len(open)
           d == DepthAt(n)
           S == EndScope(open)
           g == LoneAt(open, n)
           W == Exact
<1>3. s \in Simple
  BY DEF Simple
<1>4. s.op \in Exits
  OBVIOUS
<1>6. PICK l \in BOOLEAN : l = TRUE
  OBVIOUS
<1>7. ASSUME Regular PROVE NewJudged(open, s, l)
  <2>1. PICK check, run : Means(Check[d][s], Run[d][s], check, run, s, S)
    BY <1>0, <1>3, NewMeans
  <2>2. g \in BOOLEAN /\ W \in BOOLEAN
    BY ExactBoolean DEF LoneAt
  <2>4. S \cup Adds(s) = S
    BY <1>4 DEF Adds, Exits
  <2>5. Judged(Check[d][s], Run[d][s], S, S, TRUE, g, W)
    <3> HIDE DEF s, S, g, W
    <3> QED BY <1>4, <2>1, <2>2, ExitJudged
  <2> HIDE DEF s
  <2> QED BY <1>4, <1>6, <2>4, <2>5 DEF NewJudged
<1> HIDE DEF s
<1>8. Write(s)
  BY <1>1 DEF s
<1> QED BY <1>3, <1>7, <1>8, WriteKept

(* Beginning a compound statement keeps it. *)
LEMMA BeginStep ==
  ASSUME IInv, Begin
  PROVE  IInv'
<1>0. /\ ChainShape(open) /\ size \in 0..MaxSize /\ Len(open) <= size + 1
      /\ Regular => Understood(open)
  BY DEF IInv, Shape
<1>1. PICK op \in {"if", "while"} \cup Branching :
        /\ size < MaxSize - 1 /\ ~Leaves(Current)
        /\ Grow(Append(open, Frame(op))) /\ size' = size + 1
  BY DEF Begin
<1>2. Len(open) \in Nat /\ ~Leaves(CurrentOf(open))
  BY <1>0, <1>1, CurrentLast
<1>3. Len(open) < MaxSize + 1
  BY <1>0, <1>1, <1>2, Bounds
<1> DEFINE c2 == Append(open, Frame(op))
<1>4. Opened(open, c2, Frame(op)) /\ ChainShape(c2)
  BY <1>0, <1>2, <1>3, OpenedShape
<1>5. Grow(c2)
  BY <1>1
<1> HIDE DEF c2
<1>6. Regular => Understood(c2)
  BY <1>0, <1>4, OpenedUnderstood
<1>7. size' \in 0..MaxSize /\ Len(c2) <= size' + 1
  BY <1>0, <1>1, <1>2, <1>4, Bounds DEF Opened
<1> QED BY <1>4, <1>5, <1>6, <1>7, Grown

(* Beginning its second block keeps it. *)
LEMMA NextBlockStep ==
  ASSUME IInv, NextBlock
  PROVE  IInv'
<1>0. /\ ChainShape(open) /\ size \in 0..MaxSize /\ Len(open) <= size + 1
      /\ Regular => Understood(open)
  BY DEF IInv, Shape
<1>1. /\ open[Len(open)].op \in Branching /\ Len(open[Len(open)].blocks) = 1
      /\ Grow([open EXCEPT ![Len(open)].blocks = Append(@, <<>>)]) /\ size' = size
  BY <1>0, CurrentLast DEF NextBlock
<1> DEFINE c2 == [open EXCEPT ![Len(open)].blocks = Append(@, <<>>)]
<1>4. Further(open, c2) /\ ChainShape(c2)
  BY <1>0, <1>1, FurtherShape
<1>5. Grow(c2)
  BY <1>1
<1> HIDE DEF c2
<1>6. Regular => Understood(c2)
  BY <1>0, <1>1, <1>4, FurtherUnderstood
<1>7. size' \in 0..MaxSize /\ Len(c2) <= size' + 1
  BY <1>0, <1>1, <1>4 DEF Further
<1> QED BY <1>4, <1>5, <1>6, <1>7, Grown

(* Ending it keeps it. *)
LEMMA EndStep ==
  ASSUME IInv, End
  PROVE  IInv'
<1>0. /\ ChainShape(open) /\ size \in 0..MaxSize /\ Len(open) <= size + 1
      /\ Regular => Understood(open)
  BY DEF IInv, Shape
<1> DEFINE n  == Len(open)
           f  == open[n]
           s  == Written(f)
           c1 == Front(open)
           c2 == AddTo(c1, s)
<1>1. /\ n > 1 /\ n \in Nat /\ (f.op = "ifelse" => Len(f.blocks) = 2)
      /\ AllLeave \/ ~Leaves(<<s>>)
      /\ Grow(c2) /\ size' = size
  BY <1>0, CurrentLast DEF End
<1>2. s.op = f.op /\ s.blocks = f.blocks
  BY DEF Written
<1>3. /\ ChainShape(c1) /\ Len(c1) = n - 1 /\ ~Leaves(CurrentOf(c1))
  BY <1>0, <1>1, FrontShape
<1>4. s \in Stmts[DepthAt(n - 1)]
  BY <1>0, <1>1, WrittenIn
<1>5. Added(c1, c2, s) /\ ChainShape(c2)
  BY <1>3, <1>4, AddedShape
<1>6. PICK l \in BOOLEAN : l = FALSE
  OBVIOUS
<1>7. ASSUME Regular PROVE Understood(c2)
  <2>1. Understood(open)
    BY <1>0, <1>7
  <2>2. NewJudged(c1, s, l)
    BY <1>0, <1>1, <1>2, <1>6, <2>1, ClosingJudged
  <2>3. Understood(c1)
    BY <1>0, <1>1, <2>1, FrontUnderstood
  <2> QED BY <1>3, <1>4, <2>2, <2>3, AddedUnderstood
<1> HIDE DEF c2, c1, s
<1>8. size' \in 0..MaxSize /\ Len(c2) <= size' + 1
  BY <1>0, <1>1, <1>3, <1>5 DEF Added
<1> QED BY <1>1, <1>5, <1>7, <1>8, Grown

-----------------------------------------------------------------------------
(* The theorems. *)

(* The environment in which the function begins. *)
LEMMA EntryIn == Entry \in EnvsOf({Param}) /\ Entry \in Envs /\ Leq(Entry, Entry) /\ Entry.moved = {}
<1>1. /\ Entry.depth = 1 /\ Entry.vars = {<<1, Param>>} /\ Entry.moved = {}
  BY DEF Entry
<1>2. Entry \in Envs
  BY CheckerAssumption DEF Entry, Envs, Bindings
<1>3. Leq(Entry, Entry)
  BY DEF Leq, Same
<1>4. Entry \in EnvsOf({Param})
  <2> DEFINE b == <<1, Param>>
  <2>1. b[1] = 1 /\ b[2] = Param /\ Entry.vars = {b} /\ 1 \in 1..1
    BY <1>1
  <2> HIDE DEF b
  <2> QED BY <1>1, <1>2, <2>1 DEF EnvsOf
<1> QED BY <1>1, <1>2, <1>3, <1>4

(* The invariant holds at first. *)
LEMMA InitHolds == Init => IInv
<1> SUFFICES ASSUME Init PROVE IInv
  OBVIOUS
<1>1. open = <<Frame("fn")>> /\ size = 0 /\ accepted = TRUE
  BY DEF Init
<1> DEFINE f == Frame("fn")
<1>2. f \in Frames /\ f.op = "fn" /\ Len(f.blocks) = 1 /\ f.blocks[1] = <<>>
  BY FrameFields
<1> HIDE DEF f
<1>3. /\ open \in Seq(Frames) /\ Len(open) = 1 /\ open[1] = f
      /\ \A k \in 1..Len(open) : k = 1
  BY <1>1, <1>2 DEF f
<1>4. \A j \in 1..1 : f.blocks[j] \in Seq(Stmts[DepthAt(1)])
  <2>1. <<>> \in Seq(Stmts[DepthAt(1)])
    OBVIOUS
  <2>2. \A j \in 1..1 : j = 1
    OBVIOUS
  <2> QED BY <1>2, <2>1, <2>2
<1>5. FrameShape(f, 1)
  BY <1>2, <1>4 DEF FrameShape
<1>6. ChainShape(open)
  <2>1. 1 \in 1..(MaxSize + 1) /\ \A k \in 1..(1 - 1) : FALSE
    BY Bounds
  <2> QED BY <1>3, <1>5, <2>1 DEF ChainShape
<1>7. Complete /\ Accepted(Body)
  <2>1. Body = <<>>
    BY <1>2, <1>3 DEF Body
  <2>2. Block(Check[MaxSize], <<>>, Entry) = Result(Entry, FALSE, FALSE)
    BY EmptyBlock
  <2>3. Result(Entry, FALSE, FALSE).err = FALSE
    BY DEF Result
  <2> QED BY <1>3, <2>1, <2>2, <2>3 DEF Complete, Accepted
<1>8. Understood(open)
  <2>1. LoneAt(open, 1) \in BOOLEAN
    BY DEF LoneAt
  <2>2. Known(DepthAt(1), <<>>, ScopeAt(open, 1), LoneAt(open, 1))
    BY <2>1, EmptyKnown
  <2>3. \A j \in 1..1 : j = 1
    OBVIOUS
  <2>4. FrameKnown(open, 1)
    BY <1>2, <1>3, <2>2, <2>3 DEF FrameKnown
  <2> QED BY <1>3, <2>4 DEF Understood
<1> QED BY <1>1, <1>3, <1>6, <1>7, <1>8, Bounds DEF IInv, Shape

(* Every step keeps it. *)
LEMMA StepHolds == IInv /\ [Next]_vars => IInv'
<1> SUFFICES ASSUME IInv, [Next]_vars PROVE IInv'
  OBVIOUS
<1>1. CASE WritePlace
  BY <1>1, PlaceStep
<1>2. CASE WriteLet
  BY <1>2, LetStep
<1>3. CASE WriteExit
  BY <1>3, ExitStep
<1>4. CASE Begin
  BY <1>4, BeginStep
<1>5. CASE NextBlock
  BY <1>5, NextBlockStep
<1>6. CASE End
  BY <1>6, EndStep
<1>7. CASE UNCHANGED vars
  BY <1>7 DEF vars, IInv, Shape, Complete, Body
<1> QED BY <1>1, <1>2, <1>3, <1>4, <1>5, <1>6, <1>7 DEF Next

(* Of every program, complete or not, the checker and the runs agree on    *)
(* every block as Judged says, as long as it is Regular: move_checker.py   *)
(* judges blocks by their structure, and the meanings of what a block      *)
(* consists of are enough to know its own.                                 *)
THEOREM Judgement == Spec => []IInv
BY InitHolds, StepHolds, PTL DEF Spec

(* What the invariant says of a program that is complete. *)
LEMMA BodyKnown ==
  ASSUME IInv, Complete, Regular
  PROVE  \E l, g, T : BlockJudged(Check[MaxSize], Run[MaxSize], Body, {Param}, T, l, g, Exact)
<1>1. ChainShape(open) /\ Understood(open) /\ Len(open) = 1
  BY DEF IInv, Shape, Complete
<1>2. 1 \in 1..Len(open[1].blocks) /\ 1 \in 1..Len(open)
  <2>1. 1 \in 1..Len(open)
    BY <1>1
  <2>2. Len(open[1].blocks) \in {1, 2}
    BY <1>1, <2>1, FrameTyped
  <2>3. \A m \in {1, 2} : 1 \in 1..m
    OBVIOUS
  <2> QED BY <2>1, <2>2, <2>3
<1>3. Known(DepthAt(1), Body, ScopeAt(open, 1), LoneAt(open, 1))
  BY <1>1, <1>2 DEF Understood, FrameKnown, Body
<1>4. DepthAt(1) = MaxSize
  BY Bounds DEF DepthAt
<1>5. ScopeAt(open, 1) = {Param}
  <2>1. \A i \in 1..(1 - 1) : FALSE
    OBVIOUS
  <2> QED BY <2>1 DEF ScopeAt
<1>6. LoneAt(open, 1) \in BOOLEAN
  BY DEF LoneAt
<1> QED BY <1>3, <1>4, <1>5, <1>6 DEF Known, KnownAs

(* The invariant implies Sound. *)
LEMMA SoundHolds ==
  ASSUME IInv, Regular
  PROVE  Sound
<1> SUFFICES ASSUME Complete, accepted, UsesMoved(Body) PROVE FALSE
  BY DEF Sound
<1>1. PICK l, g, T : BlockJudged(Check[MaxSize], Run[MaxSize], Body, {Param}, T, l, g, Exact)
  BY BodyKnown
<1>2. Foreseen(BlockOf(Check[MaxSize], Body), RunBlockOf(Run[MaxSize], Body), {Param})
  BY <1>1 DEF BlockJudged, Judged
<1>3. /\ BlockOf(Check[MaxSize], Body)[Entry] = Block(Check[MaxSize], Body, Entry)
      /\ RunBlockOf(Run[MaxSize], Body)[Entry] = RunBlock(Run[MaxSize], Body, Entry)
  BY EntryIn DEF BlockOf, RunBlockOf
<1>4. ~Block(Check[MaxSize], Body, Entry).err
  BY DEF IInv, Shape, Accepted
<1>5. \A o \in RunBlock(Run[MaxSize], Body, Entry) : o.how # "bad"
  BY <1>2, <1>3, <1>4, EntryIn DEF Foreseen
<1> QED BY <1>5 DEF UsesMoved

(* The invariant implies Precise. *)
LEMMA PreciseHolds ==
  ASSUME IInv, Regular, Exact
  PROVE  Precise
<1> SUFFICES ASSUME Complete, ~accepted PROVE UsesMoved(Body)
  BY DEF Precise
<1> DEFINE c == BlockOf(Check[MaxSize], Body)
           k == RunBlockOf(Run[MaxSize], Body)
           E == {Entry}
<1>1. PICK l, g, T : BlockJudged(Check[MaxSize], Run[MaxSize], Body, {Param}, T, l, g, Exact)
  BY BodyKnown
<1>2. Witnessed(c, k, {Param}, l)
  BY <1>1 DEF BlockJudged, Judged
<1>3. /\ c[Entry] = Block(Check[MaxSize], Body, Entry)
      /\ k[Entry] = RunBlock(Run[MaxSize], Body, Entry)
  BY EntryIn DEF BlockOf, RunBlockOf
<1>4. Block(Check[MaxSize], Body, Entry).err
  BY DEF IInv, Shape, Accepted
<1>5. Covers(E, Entry, {Param}) /\ E \in SUBSET EnvsOf({Param})
  BY EntryIn DEF Covers, Leq
<1> HIDE DEF c, k, E
<1>6. \E o \in Runs(k, E) : o.how = "bad"
  BY <1>2, <1>3, <1>4, <1>5, EntryIn DEF Witnessed
<1>7. \A o \in Runs(k, E) : o \in k[Entry]
  BY InRuns DEF E
<1> QED BY <1>3, <1>6, <1>7 DEF UsesMoved

(* move_checker.py:264, "Use-after-move: Cannot use a variable after       *)
(* moving it": if the checker accepts a program, no path of it, whatever   *)
(* its conditions and however often its loops run, uses a moved value.     *)
(* LoneReowns is the finding of the project (an `if` without an else goes  *)
(* on with the state of its branch alone); with Shadowing, states are      *)
(* saved by name.                                                          *)
THEOREM MoveCheckerSound ==
  ASSUME ~LoneReowns, ~Shadowing
  PROVE  Spec => []Sound
<1>1. IInv => Sound
  BY SoundHolds DEF Regular
<1> QED BY <1>1, Judgement, PTL

(* If the checker rejects a program, some path of it uses a moved value,   *)
(* and one that goes back to the head of a loop once at most: the merges   *)
(* at the ends of branches, matches and loops take nothing for moved that  *)
(* no path moves there. AllLeave is code that is dead, for which the       *)
(* checker keeps a state all the same.                                     *)
THEOREM MoveCheckerPrecise ==
  ASSUME ~LoneReowns, ~Shadowing, ~AllLeave, MaxTurns >= 1
  PROVE  Spec => []Precise
<1>1. IInv => Precise
  BY PreciseHolds DEF Regular, Exact
<1> QED BY <1>1, Judgement, PTL

==============================================================================
