--------------------------- MODULE SigCacheProofs ---------------------------
(***************************************************************************)
(* What the fast path of ritz0 promises for any files, imports, modes,     *)
(* outputs and number of compiles that run side by side, when files change *)
(* only between compiles, and with the time of the change, and every mode  *)
(* names its project root (Careful).                                       *)
(*                                                                         *)
(* A signature never knows whether it is out of date, so the invariant     *)
(* speaks of what it records, not of the files: the recorded texts are     *)
(* exactly what the source leads to as long as the recorded misses are     *)
(* misses (Evidence).  When they still are, and the texts are those in     *)
(* the files, a compile would read the same.  That the source is the one   *)
(* recorded follows from the times of source and output.                   *)
(*                                                                         *)
(* The converse, that what is up to date is skipped, needs the misses to   *)
(* be no more than they must: each comes before a hit of an import that    *)
(* was read (Tight), so nothing can appear there without being read        *)
(* instead.  A compile that saves next to settled entries of its source    *)
(* must have seen their signature to keep them (Spares).                   *)
(***************************************************************************)
EXTENDS SigCache, FiniteSetTheorems, WellFoundedInduction, TLAPS

(* Candidates, for a mode that names its project root.                     *)
Cand(n, f, m) ==
  LET roots == <<f[1]>> \o m.source_roots \o <<m.project_root>> \o m.ritz_path
  IN [i \in DOMAIN roots |-> <<roots[i], n>>]

(* An import that leads into D, past places in M only.                     *)
Leads(c, D, M) ==
  \E i \in DOMAIN c : c[i] \in D /\ MissedBefore(c, i) \subseteq M

(* C holds s and, with what is in C, what that imports.                    *)
Carried(s, m, t, M, C) ==
  /\ s \in C
  /\ \A x \in C \cap DOMAIN t : \A n \in Imports[t[x]] :
       LET c == Cand(n, x, m) IN
         \A i \in DOMAIN c :
           c[i] \in DOMAIN t /\ MissedBefore(c, i) \subseteq M => c[i] \in C

(* The texts t are all, and only, what s leads to, if M is missing.        *)
Evidence(s, m, t, M) ==
  /\ s \in DOMAIN t /\ DOMAIN t \subseteq Path
  /\ \A x \in DOMAIN t : \A n \in Imports[t[x]] : Leads(Cand(n, x, m), DOMAIN t, M)
  /\ \A C \in SUBSET Path : Carried(s, m, t, M, C) => DOMAIN t \subseteq C

(* The texts t are those in the files, and M is missing.                   *)
Holds(fs, t, M) ==
  /\ \A x \in DOMAIN t : Exists(fs, x) /\ fs[x] = t[x]
  /\ \A x \in M : ~Exists(fs, x)

ClosedIn(fs, s, m, C) ==
  /\ s \in C
  /\ \A x \in C \cap Path : Exists(fs, x) =>
       \A n \in Imports[fs[x]] : LET c == Cand(n, x, m) IN
         \A i \in DOMAIN c : IsHit(fs, c, i) => c[i] \in C

-----------------------------------------------------------------------------
(* Resolution.                                                             *)

LEMMA PathShape == ASSUME NEW x \in Path PROVE x[1] \in Dir /\ x[2] \in Module
<1>1. x \in Dir \X Module
  BY SigAssumption
<1> QED BY <1>1

LEMMA CandType ==
  ASSUME Careful, NEW m \in Mode, NEW x \in Path, NEW n \in Module
  PROVE  Cand(n, x, m) \in Seq(Place)
<1> DEFINE roots == <<x[1]>> \o m.source_roots \o <<m.project_root>> \o m.ritz_path
<1>1. m.source_roots \in Seq(Dir) /\ m.ritz_path \in Seq(Dir) /\ m.project_root \in Dir
  BY SigAssumption DEF Careful
<1>2. x[1] \in Dir
  BY PathShape
<1>3. roots \in Seq(Dir)
  BY <1>1, <1>2
<1> HIDE DEF roots
<1>4. Len(roots) \in Nat /\ DOMAIN roots = 1 .. Len(roots)
  BY <1>3
<1>5. \A i \in DOMAIN roots : <<roots[i], n>> \in Place
  BY <1>3 DEF Place
<1>6. [i \in 1 .. Len(roots) |-> <<roots[i], n>>] \in Seq(Place)
  BY <1>4, <1>5
<1> QED BY <1>4, <1>6 DEF Cand, roots

LEMMA CandIsCandidates ==
  ASSUME Careful, NEW m \in Mode, NEW s, NEW x, NEW n
  PROVE  Candidates(n, x, s, m) = Cand(n, x, m)
BY DEF Careful, Candidates, Cand, ProjectRoot

LEMMA ClosedInIsClosed ==
  ASSUME Careful, NEW m \in Mode, NEW s, NEW fs, NEW C
  PROVE  Closed(fs, s, m, C) <=> ClosedIn(fs, s, m, C)
BY CandIsCandidates DEF Closed, ClosedIn

(* There is one hit, and an import that leads into existing files past     *)
(* missing places leads to it.                                             *)
LEMMA OneHit ==
  ASSUME NEW c \in Seq(Place), NEW fs, NEW i \in DOMAIN c, NEW j \in DOMAIN c,
         IsHit(fs, c, i), Exists(fs, c[j]),
         \A x \in MissedBefore(c, j) : ~Exists(fs, x)
  PROVE  i = j
<1>1. i \in Nat /\ j \in Nat /\ DOMAIN c = 1 .. Len(c) /\ Len(c) \in Nat
  OBVIOUS
<1>2. ~(i < j)
  <2>1. i < j => c[i] \in MissedBefore(c, j)
    BY <1>1 DEF MissedBefore
  <2> QED BY <2>1 DEF IsHit
<1>3. ~(j < i)
  <2>1. j < i => j \in 1 .. i - 1
    BY <1>1
  <2> QED BY <2>1 DEF IsHit
<1> QED BY <1>1, <1>2, <1>3

LEMMA HitBefore ==
  ASSUME NEW c \in Seq(Place), NEW fs, NEW i \in DOMAIN c, Exists(fs, c[i]),
         \A x \in MissedBefore(c, i) : ~Exists(fs, x)
  PROVE  IsHit(fs, c, i)
<1>1. \A j \in 1 .. i - 1 : c[j] \in MissedBefore(c, i)
  BY DEF MissedBefore
<1> QED BY <1>1 DEF IsHit

(* What evidence that holds is evidence of: a compile reads DOMAIN t.      *)
LEMMA EvidenceHolds ==
  ASSUME Careful, NEW s \in Source, NEW m \in Mode, NEW fs, NEW t, NEW M,
         t \in [DOMAIN t -> Text], Evidence(s, m, t, M), Holds(fs, t, M)
  PROVE  Reached(fs, s, m) = DOMAIN t
<1> USE SigAssumption
<1>0. ASSUME NEW x \in DOMAIN t, NEW n \in Imports[t[x]]
      PROVE  n \in Module /\ x \in Path /\ Cand(n, x, m) \in Seq(Place)
  <2>1. n \in Module /\ x \in Path
    BY <1>0 DEF Evidence
  <2> QED BY <2>1, CandType
<1>1. ClosedIn(fs, s, m, DOMAIN t)
  <2>1. ASSUME NEW x \in DOMAIN t, NEW n \in Imports[fs[x]],
               NEW i \in DOMAIN Cand(n, x, m), IsHit(fs, Cand(n, x, m), i)
        PROVE  Cand(n, x, m)[i] \in DOMAIN t
    <3>1. n \in Imports[t[x]]
      BY DEF Holds
    <3>2. PICK j \in DOMAIN Cand(n, x, m) :
            /\ Cand(n, x, m)[j] \in DOMAIN t
            /\ MissedBefore(Cand(n, x, m), j) \subseteq M
      BY <3>1 DEF Evidence, Leads
    <3>3. i = j
      BY <1>0, <2>1, <3>1, <3>2, OneHit DEF Holds
    <3> QED BY <3>2, <3>3
  <2> QED BY <2>1 DEF ClosedIn, Evidence
<1>2. ASSUME NEW C \in SUBSET Path, ClosedIn(fs, s, m, C)
      PROVE  DOMAIN t \subseteq C
  <2>1. ASSUME NEW x \in C \cap DOMAIN t, NEW n \in Imports[t[x]],
               NEW i \in DOMAIN Cand(n, x, m), Cand(n, x, m)[i] \in DOMAIN t,
               MissedBefore(Cand(n, x, m), i) \subseteq M
        PROVE  Cand(n, x, m)[i] \in C
    <3>1. IsHit(fs, Cand(n, x, m), i)
      BY <1>0, <2>1, HitBefore DEF Holds
    <3>2. Exists(fs, x) /\ fs[x] = t[x] /\ x \in C \cap Path
      BY DEF Holds, Exists
    <3> QED BY <1>2, <3>1, <3>2 DEF ClosedIn
  <2>2. s \in C
    BY <1>2 DEF ClosedIn
  <2>3. Carried(s, m, t, M, C)
    BY <2>1, <2>2 DEF Carried
  <2> QED BY <2>3 DEF Evidence
<1>3. DOMAIN t \subseteq Path
  BY DEF Evidence
<1> QED BY <1>1, <1>2, <1>3, ClosedInIsClosed DEF Reached

-----------------------------------------------------------------------------
(* The invariant.                                                          *)

(* What has been read while imports are still to be resolved.              *)
Partly(fs, s, m, t, M, left) ==
  /\ s \in DOMAIN t /\ DOMAIN t \subseteq Path
  /\ Holds(fs, t, M)
  /\ \A x \in DOMAIN t : \A n \in Imports[t[x]] :
       <<n, x>> \in left \/ Leads(Cand(n, x, m), DOMAIN t, M)
  /\ \A e \in left : e[2] \in DOMAIN t /\ e[1] \in Imports[t[e[2]]]
  /\ \A C \in SUBSET Path : ClosedIn(fs, s, m, C) => DOMAIN t \subseteq C

(* What has been read, and what is left, once import e led to h.           *)
Grown(fs, t, h) == [x \in DOMAIN t \cup {h} |-> IF x = h THEN fs[x] ELSE t[x]]
Left(fs, left, e, h) == (left \ {e}) \cup {<<n, h>> : n \in Imports[fs[h]]}

LEMMA PartlyBegins ==
  ASSUME NEW s \in Source, NEW m, NEW fs, Exists(fs, s)
  PROVE  Partly(fs, s, m, [x \in {s} |-> fs[s]], {}, {<<n, s>> : n \in Imports[fs[s]]})
BY SigAssumption DEF Partly, Holds, ClosedIn

LEMMA PartlyGoesOn ==
  ASSUME Careful, NEW s \in Source, NEW m \in Mode, NEW fs \in [Path -> Text \cup {None}],
         NEW t, t \in [DOMAIN t -> Text],
         NEW M, NEW left, Partly(fs, s, m, t, M, left), NEW e \in left,
         left \subseteq Module \X Path,
         NEW i \in DOMAIN Cand(e[1], e[2], m), IsHit(fs, Cand(e[1], e[2], m), i)
  PROVE  LET h == Cand(e[1], e[2], m)[i]
             N == M \cup MissedBefore(Cand(e[1], e[2], m), i)
         IN /\ h \in DOMAIN t => Partly(fs, s, m, t, N, left \ {e})
            /\ h \notin DOMAIN t => Partly(fs, s, m, Grown(fs, t, h), N, Left(fs, left, e, h))
<1> DEFINE c == Cand(e[1], e[2], m)
           h == c[i]
           N == M \cup MissedBefore(c, i)
<1>1. e = <<e[1], e[2]>> /\ e[1] \in Module /\ e[2] \in Path
  OBVIOUS
<1>2. c \in Seq(Place)
  BY <1>1, CandType
<1>3. Exists(fs, h) /\ \A x \in MissedBefore(c, i) : ~Exists(fs, x)
  BY <1>2 DEF IsHit, MissedBefore
<1>4. \A x \in N : ~Exists(fs, x)
  BY <1>3 DEF Partly, Holds
<1>5. \A d, D, E : Leads(d, D, M) /\ D \subseteq E => Leads(d, E, N)
  BY DEF Leads
<1>6. ASSUME NEW C \in SUBSET Path, ClosedIn(fs, s, m, C)
      PROVE  DOMAIN t \subseteq C /\ h \in C
  <2>1. DOMAIN t \subseteq C
    BY <1>6 DEF Partly
  <2>2. e[2] \in C \cap Path /\ Exists(fs, e[2]) /\ e[1] \in Imports[fs[e[2]]]
    BY <2>1, <1>1 DEF Partly, Holds
  <2> QED BY <1>6, <2>1, <2>2 DEF ClosedIn
<1> HIDE DEF c, h, N
<1>7. ASSUME h \in DOMAIN t PROVE Partly(fs, s, m, t, N, left \ {e})
  <2>1. Leads(c, DOMAIN t, N)
    BY <1>7 DEF Leads, h, N, c
  <2>2. ASSUME NEW x \in DOMAIN t, NEW n \in Imports[t[x]]
        PROVE  <<n, x>> \in left \ {e} \/ Leads(Cand(n, x, m), DOMAIN t, N)
    <3>1. CASE <<n, x>> = e
      BY <2>1, <3>1 DEF c
    <3>2. CASE <<n, x>> # e
      BY <1>5, <3>2 DEF Partly
    <3> QED BY <3>1, <3>2
  <2> QED BY <1>4, <1>6, <2>2 DEF Partly, Holds
<1>8. ASSUME h \notin DOMAIN t
      PROVE  Partly(fs, s, m, Grown(fs, t, h), N, Left(fs, left, e, h))
  <2> DEFINE u == Grown(fs, t, h)
             now == Left(fs, left, e, h)
  <2> USE DEF Grown, Left
  <2>0. /\ DOMAIN u = DOMAIN t \cup {h} /\ u[h] = fs[h]
        /\ \A x \in DOMAIN t : u[x] = t[x]
    BY <1>8
  <2> HIDE DEF u
  <2>1. Leads(c, DOMAIN u, N)
    BY <2>0 DEF Leads, h, N, c
  <2>2. ASSUME NEW x \in DOMAIN u, NEW n \in Imports[u[x]]
        PROVE  <<n, x>> \in now \/ Leads(Cand(n, x, m), DOMAIN u, N)
    <3>1. CASE x = h
      BY <2>0, <3>1
    <3>2. CASE x # h
      <4>1. x \in DOMAIN t /\ n \in Imports[t[x]]
        BY <2>0, <3>2
      <4>2. CASE <<n, x>> = e
        BY <2>1, <4>2 DEF c
      <4>3. CASE <<n, x>> # e
        <5>1. <<n, x>> \in left \/ Leads(Cand(n, x, m), DOMAIN t, M)
          BY <4>1 DEF Partly
        <5> QED BY <1>5, <2>0, <4>3, <5>1
      <4> QED BY <4>2, <4>3
    <3> QED BY <3>1, <3>2
  <2>3. s \in DOMAIN u /\ DOMAIN u \subseteq Path
    BY <1>3, <2>0 DEF Partly, Exists
  <2>4. Holds(fs, u, N)
    BY <1>3, <1>4, <2>0 DEF Partly, Holds
  <2>5. \A f \in now : f[2] \in DOMAIN u /\ f[1] \in Imports[u[f[2]]]
    <3>1. \A f \in left : f[2] \in DOMAIN u /\ f[1] \in Imports[u[f[2]]]
      BY <2>0 DEF Partly
    <3> QED BY <2>0, <3>1
  <2>6. \A C \in SUBSET Path : ClosedIn(fs, s, m, C) => DOMAIN u \subseteq C
    BY <1>6, <2>0
  <2> HIDE DEF now
  <2>7. Partly(fs, s, m, u, N, now)
    BY <2>2, <2>3, <2>4, <2>5, <2>6 DEF Partly
  <2> QED BY <2>7 DEF u, now
<1> QED BY <1>7, <1>8 DEF c, h, N

(* Once every import is resolved, what was read is evidence.               *)
LEMMA PartlyEnds ==
  ASSUME Careful, NEW s \in Source, NEW m \in Mode, NEW fs, NEW t, NEW M,
         t \in [DOMAIN t -> Text], Partly(fs, s, m, t, M, {})
  PROVE  Evidence(s, m, t, M)
<1>1. ASSUME NEW C \in SUBSET Path, Carried(s, m, t, M, C)
      PROVE  DOMAIN t \subseteq C
  <2> DEFINE B == C \cap DOMAIN t
  <2>1. ASSUME NEW x \in B, NEW n \in Imports[fs[x]],
               NEW i \in DOMAIN Cand(n, x, m), IsHit(fs, Cand(n, x, m), i)
        PROVE  Cand(n, x, m)[i] \in B
    <3>1. x \in Path /\ n \in Imports[t[x]]
      BY DEF Partly, Holds
    <3>2. n \in Module
      BY <3>1, SigAssumption
    <3>3. Cand(n, x, m) \in Seq(Place)
      BY <3>1, <3>2, CandType
    <3>4. PICK j \in DOMAIN Cand(n, x, m) :
            /\ Cand(n, x, m)[j] \in DOMAIN t
            /\ MissedBefore(Cand(n, x, m), j) \subseteq M
      BY <3>1 DEF Partly, Leads
    <3>5. i = j
      BY <2>1, <3>3, <3>4, OneHit DEF Partly, Holds
    <3> QED BY <1>1, <3>1, <3>4, <3>5 DEF Carried
  <2>2. s \in B
    BY <1>1 DEF Carried, Partly
  <2>3. ClosedIn(fs, s, m, B) /\ B \in SUBSET Path
    BY <2>1, <2>2 DEF ClosedIn, Partly
  <2> QED BY <2>3 DEF Partly
<1> QED BY <1>1 DEF Evidence, Partly

(* All the texts a signature of s records.                                 *)
Whole(s, g) ==
  [x \in {s} \cup DOMAIN g.imports |-> IF x = s THEN g.text ELSE g.imports[x]]

GoodEntry(s, g, e) ==
  /\ e.ir = Compiled(s, e.mode, g.text, g.imports)
  /\ Evidence(s, e.mode, Whole(s, g), g.misses)

GoodSig(s, g) ==
  g # None => s \notin DOMAIN g.imports /\ \A o \in DOMAIN g.outputs : GoodEntry(s, g, g.outputs[o])

(* An output that is not older than a source was compiled from its present *)
(* text, if it was compiled from that source.                              *)
TimesTell ==
  \A s \in Source, o \in Output :
    IsCompilation(output[o]) /\ output[o].source = s /\ written[o] >= stamp[s]
      => output[o].text = files[s]

Looking   == {"prior", "source", "vouch"}
Resolved  == {"check", "emit", "write", "save"}
Compiling == {"resolve"} \cup Resolved

(* What compile p knows about the files.                                   *)
Knows(p) ==
  /\ Idle(p) => seen[p] = None
  /\ ~Idle(p) => files[job[p].src] = job[p].text /\ GoodSig(job[p].src, seen[p])
  /\ pc[p] \notin Compiling => missed[p] = {}
  /\ pc[p] \in Looking => written[job[p].out] >= stamp[job[p].src]
  /\ pc[p] \in Compiling =>
       Partly(files, job[p].src, job[p].mode, read[p], missed[p], todo[p])
  /\ pc[p] \in Resolved =>
       hashes[p] = [x \in DOMAIN read[p] \ {job[p].src} |-> read[p][x]]

IInv ==
  /\ TypeOK /\ TimesTell
  /\ \A s \in Source : GoodSig(s, sig[s])
  /\ \A p \in Proc : Knows(p)

LEMMA CompilationType ==
  ASSUME NEW s \in Source, NEW m \in Mode, NEW text \in Text, NEW imports,
         IsPartial(imports, Path, Text)
  PROVE  /\ IsCompilation(Compiled(s, m, text, imports))
         /\ Compiled(s, m, text, imports).source = s
         /\ Compiled(s, m, text, imports).text = text
BY DEF IsCompilation, Compiled

LEMMA NoneIsNoCompilation == ~IsCompilation(None) /\ ~IsCompilation(Torn)
<1>1. ASSUME NEW c, IsCompilation(c)
      PROVE  \E D \in SUBSET Path :
               c \in [source : Source, mode : Mode, text : Text, read : [D -> Text]]
  <2>1. DOMAIN c.read \in SUBSET Path
    BY <1>1 DEF IsCompilation, IsPartial
  <2>2. c \in [source : Source, mode : Mode, text : Text, read : [DOMAIN c.read -> Text]]
    BY <1>1 DEF IsCompilation, IsPartial, Compiled
  <2> QED BY <2>1, <2>2
<1> QED BY <1>1, SigAssumption

LEMMA InitIInv == Init => IInv
<1> SUFFICES ASSUME Init PROVE IInv
  OBVIOUS
<1> USE SigAssumption DEF Init
<1>1. TreeOK
  BY DEF TreeOK
<1>2. DiskOK
  BY DEF DiskOK
<1>3. LocalsOK
  BY DEF LocalsOK
<1>4. \A p \in Proc : CompileOK(p)
  BY DEF CompileOK, Idle, IsPartial, Nothing
<1>5. TypeOK
  BY <1>1, <1>2, <1>3, <1>4 DEF TypeOK
<1>6. TimesTell
  BY NoneIsNoCompilation DEF TimesTell
<1>7. \A s \in Source : GoodSig(s, sig[s])
  BY DEF GoodSig
<1>8. \A p \in Proc : Knows(p)
  BY DEF Knows, Idle, Looking, Resolved, Compiling
<1> QED BY <1>5, <1>6, <1>7, <1>8 DEF IInv

-----------------------------------------------------------------------------
(* Steps of a compile.                                                     *)

(* A compile that takes no step knows what it knew, as long as the files   *)
(* are the same and outputs only get newer.                                *)
Untouched(q) ==
  /\ pc'[q] = pc[q] /\ job'[q] = job[q] /\ seen'[q] = seen[q]
  /\ read'[q] = read[q] /\ todo'[q] = todo[q] /\ missed'[q] = missed[q]
  /\ hashes'[q] = hashes[q]

OnlyNewer ==
  /\ files' = files /\ stamp' = stamp /\ edits' = edits
  /\ \A o \in Output : written'[o] >= written[o]

LEMMA Frame ==
  ASSUME IInv, NEW q \in Proc, Untouched(q), OnlyNewer, written' \in [Output -> Nat]
  PROVE  CompileOK(q)' /\ Knows(q)'
<1>1. CompileOK(q)'
  BY DEF IInv, TypeOK, CompileOK, Untouched, Idle
<1>2. ASSUME pc[q] \in Looking PROVE written'[job[q].out] >= stamp'[job[q].src]
  <2>1. job[q].out \in Output /\ job[q].src \in Source
    BY <1>2 DEF IInv, TypeOK, CompileOK, Idle, Looking
  <2>2. written[job[q].out] >= stamp[job[q].src]
    BY <1>2 DEF IInv, Knows
  <2>3. written[job[q].out] \in Nat /\ stamp[job[q].src] \in Nat
    BY <2>1 DEF IInv, TypeOK, TreeOK, DiskOK
  <2> QED BY <2>1, <2>2, <2>3 DEF OnlyNewer
<1>3. Knows(q)'
  BY <1>2 DEF IInv, Knows, Untouched, OnlyNewer, Idle
<1> QED BY <1>1, <1>3

LEMMA OthersUntouched ==
  ASSUME IInv, NEW p \in Proc, Step(p), NEW q \in Proc, q # p
  PROVE  Untouched(q)
<1> USE DEF IInv, TypeOK, LocalsOK, Untouched, locals
<1>1. CASE \E j \in Invocations : Begin(p, j)
  BY <1>1 DEF Begin, Goto, StartResolve
<1>2. CASE ReadPrior(p)
  BY <1>2 DEF ReadPrior, Goto
<1>3. CASE CheckSource(p)
  BY <1>3 DEF CheckSource, Goto, StartResolve
<1>4. CASE Skip(p)
  BY <1>4 DEF Skip, End
<1>5. CASE Decline(p)
  BY <1>5 DEF Decline, StartResolve
<1>6. CASE ResolveImport(p)
  BY <1>6 DEF ResolveImport
<1>7. CASE HashImports(p)
  BY <1>7 DEF HashImports
<1>8. CASE Fail(p)
  BY <1>8 DEF Fail, End
<1>9. CASE Invalidate(p)
  BY <1>9 DEF Invalidate, Goto
<1>10. CASE Truncate(p)
  BY <1>10 DEF Truncate, Goto
<1>11. CASE Write(p)
  BY <1>11 DEF Write, Goto
<1>12. CASE Save(p)
  BY <1>12 DEF Save, End
<1>13. CASE Kill(p)
  BY <1>13 DEF Kill, End
<1> QED BY <1>1, <1>2, <1>3, <1>4, <1>5, <1>6, <1>7, <1>8, <1>9, <1>10, <1>11,
           <1>12, <1>13 DEF Step

(* IInv' from what a step of p does.                                       *)
LEMMA Together ==
  ASSUME IInv, NEW p \in Proc, Step(p), OnlyNewer, UNCHANGED marked,
         LocalsOK', DiskOK', TimesTell', \A s \in Source : GoodSig(s, sig'[s]),
         CompileOK(p)', Knows(p)', compiles' \in Nat, settled' \in SUBSET Job
  PROVE  IInv'
<1>1. written' \in [Output -> Nat]
  BY DEF DiskOK, IInv, TypeOK, TreeOK, OnlyNewer
<1>2. \A q \in Proc : CompileOK(q)' /\ Knows(q)'
  BY <1>1, OthersUntouched, Frame
<1>3. TreeOK'
  BY DEF IInv, TypeOK, TreeOK, OnlyNewer
<1> QED BY <1>2, <1>3 DEF IInv, TypeOK

LEMMA TogetherQuiet ==
  ASSUME IInv, NEW p \in Proc, Step(p), UNCHANGED <<tree, disk>>,
         LocalsOK', CompileOK(p)', Knows(p)',
         compiles' \in Nat, settled' = settled
  PROVE  IInv'
<1>1. OnlyNewer
  BY DEF IInv, TypeOK, TreeOK, DiskOK, OnlyNewer, tree, disk
<1>2. DiskOK'
  BY DEF IInv, TypeOK, DiskOK, tree, disk
<1>3. TimesTell'
  BY DEF IInv, TimesTell, tree, disk
<1>4. \A s \in Source : GoodSig(s, sig'[s])
  BY DEF IInv, disk
<1>5. UNCHANGED marked /\ settled' \in SUBSET Job
  BY DEF IInv, TypeOK, tree
<1> QED BY <1>1, <1>2, <1>3, <1>4, <1>5, Together

(* The compile of p, in any step but the first.                            *)
LEMMA JobType ==
  ASSUME IInv, NEW p \in Proc, ~Idle(p)
  PROVE  /\ job[p] \in [src : Source, out : Output, mode : Mode, text : Text]
         /\ job[p].src \in Source /\ job[p].out \in Output /\ job[p].mode \in Mode
         /\ job[p].src \in Path /\ job[p].text \in Text
         /\ files[job[p].src] = job[p].text /\ Exists(files, job[p].src)
         /\ GoodSig(job[p].src, seen[p])
<1>1. job[p] \in [src : Source, out : Output, mode : Mode, text : Text]
  BY DEF IInv, TypeOK, CompileOK
<1>2. files[job[p].src] = job[p].text /\ GoodSig(job[p].src, seen[p])
  BY DEF IInv, Knows
<1> QED BY <1>1, <1>2, SigAssumption DEF Exists

(* A compile that parses has read its source, and has its imports left.    *)
LEMMA StartResolveKnows ==
  ASSUME IInv, NEW p \in Proc, NEW s \in Source, NEW text \in Text,
         files[s] = text, StartResolve(p, s, text), UNCHANGED files,
         job'[p] \in [src : Source, out : Output, mode : Mode, text : Text],
         job'[p].src = s, job'[p].text = text, missed[p] = {},
         seen'[p] = seen[p], GoodSig(s, seen[p])
  PROVE  CompileOK(p)' /\ Knows(p)'
<1>1. /\ pc'[p] = "resolve" /\ read'[p] = [x \in {s} |-> text]
      /\ todo'[p] = {<<n, s>> : n \in Imports[text]}
      /\ missed'[p] = {} /\ hashes'[p] = hashes[p]
  BY DEF StartResolve, IInv, TypeOK, LocalsOK
<1>2. s \in Path /\ Exists(files, s) /\ Imports[text] \subseteq Module
  BY SigAssumption DEF Exists
<1>3. CompileOK(p)'
  <2>1. IsPartial(read'[p], Path, Text)
    BY <1>1, <1>2 DEF IsPartial
  <2>2. todo'[p] \subseteq Module \X Path
    BY <1>1, <1>2
  <2> QED BY <1>1, <2>1, <2>2 DEF CompileOK, Idle, IInv, TypeOK
<1>4. Partly(files, s, job'[p].mode, [x \in {s} |-> files[s]], {},
             {<<n, s>> : n \in Imports[files[s]]})
  BY <1>2, PartlyBegins
<1>5. Knows(p)'
  BY <1>1, <1>4 DEF Knows, Idle, Looking, Resolved, Compiling
<1> QED BY <1>3, <1>5

(* A compile that is over knows nothing.                                   *)
LEMMA EndKnows ==
  ASSUME IInv, NEW p \in Proc, End(p)
  PROVE  LocalsOK' /\ CompileOK(p)' /\ Knows(p)'
<1>1. /\ pc'[p] = "idle" /\ job'[p] = None /\ seen'[p] = None
      /\ read'[p] = Nothing /\ todo'[p] = {} /\ missed'[p] = {}
      /\ hashes'[p] = Nothing
  BY DEF End, IInv, TypeOK, LocalsOK
<1>2. LocalsOK'
  BY DEF End, IInv, TypeOK, LocalsOK
<1>3. CompileOK(p)'
  BY <1>1 DEF CompileOK, Idle, IsPartial, Nothing
<1>4. Knows(p)'
  BY <1>1 DEF Knows, Idle, Looking, Resolved, Compiling
<1> QED BY <1>2, <1>3, <1>4

LEMMA BeginIInv ==
  ASSUME IInv, NEW p \in Proc, NEW j \in Invocations, Begin(p, j), Step(p)
  PROVE  IInv'
<1> DEFINE s == j.src
<1>1. /\ j \in Job /\ s \in Source /\ j.out \in Output /\ j.mode \in Mode
      /\ s \in Path /\ files[s] \in Text
  BY SigAssumption DEF Begin, Job, IInv, TypeOK, TreeOK
<1>2. /\ job'[p] = [src |-> s, out |-> j.out, mode |-> j.mode, text |-> files[s]]
      /\ seen'[p] = None /\ missed[p] = {} /\ UNCHANGED <<tree, disk>>
      /\ compiles' \in Nat /\ settled' = settled
  <2>1. seen[p] = None /\ missed[p] = {}
    BY DEF Begin, IInv, Knows, Idle, Compiling, Resolved
  <2>2. job'[p] = [src |-> s, out |-> j.out, mode |-> j.mode, text |-> files[s]]
    BY DEF Begin, IInv, TypeOK, LocalsOK
  <2>3. UNCHANGED <<tree, disk, seen, settled>> /\ compiles' \in Nat
    BY DEF Begin, IInv, TypeOK
  <2> QED BY <2>1, <2>2, <2>3
<1>3. job'[p] \in [src : Source, out : Output, mode : Mode, text : Text]
  BY <1>1, <1>2
<1>4. LocalsOK'
  BY DEF Begin, Goto, StartResolve, IInv, TypeOK, LocalsOK
<1>5. CASE Newer(s, j.out)
  <2>1. /\ pc'[p] = "prior" /\ read'[p] = read[p] /\ todo'[p] = todo[p]
        /\ missed'[p] = missed[p] /\ hashes'[p] = hashes[p]
    BY <1>5 DEF Begin, Goto, IInv, TypeOK, LocalsOK
  <2>2. CompileOK(p)'
    BY <1>2, <1>3, <2>1 DEF CompileOK, IInv, TypeOK, Idle, Begin
  <2>3. Knows(p)'
    BY <1>2, <1>5, <2>1
    DEF Knows, Idle, Looking, Resolved, Compiling, GoodSig, Newer, tree, disk
  <2> QED BY <1>2, <1>4, <2>2, <2>3, TogetherQuiet
<1>6. CASE ~Newer(s, j.out)
  <2>1. StartResolve(p, s, files[s])
    BY <1>6 DEF Begin
  <2>2. seen[p] = None
    BY DEF IInv, Knows, Begin
  <2>3. CompileOK(p)' /\ Knows(p)'
    BY <1>1, <1>2, <1>3, <2>1, <2>2, StartResolveKnows DEF GoodSig, tree
  <2> QED BY <1>2, <1>4, <2>3, TogetherQuiet
<1> QED BY <1>5, <1>6

LEMMA LookIInv ==
  ASSUME IInv, NEW p \in Proc, ReadPrior(p) \/ CheckSource(p) \/ Decline(p), Step(p)
  PROVE  IInv'
<1> DEFINE s == job[p].src
<1>1. ~Idle(p) /\ pc[p] \in Looking /\ missed[p] = {}
  BY DEF ReadPrior, CheckSource, Decline, Idle, Looking, IInv, Knows, Compiling, Resolved
<1>2. /\ job[p] \in [src : Source, out : Output, mode : Mode, text : Text]
      /\ s \in Source /\ job[p].out \in Output /\ job[p].text \in Text
      /\ files[s] = job[p].text /\ GoodSig(s, seen[p])
  BY <1>1, JobType
<1>3. UNCHANGED <<tree, disk, job, compiles, settled>>
  BY DEF ReadPrior, CheckSource, Decline
<1>4. compiles' \in Nat /\ settled' = settled
  BY <1>3 DEF IInv, TypeOK
<1>5. LocalsOK'
  BY DEF ReadPrior, CheckSource, Decline, Goto, StartResolve, IInv, TypeOK, LocalsOK
<1>6. written[job[p].out] >= stamp[s]
  BY <1>1 DEF IInv, Knows
<1>7. ASSUME pc'[p] \in Looking, GoodSig(s, seen'[p]), seen'[p] = None \/ IsSignature(seen'[p]),
             read'[p] = read[p], todo'[p] = todo[p], missed'[p] = {}, hashes'[p] = hashes[p]
      PROVE  IInv'
  <2>1. CompileOK(p)'
    <3>1. todo[p] = {}
      BY <1>1 DEF IInv, TypeOK, CompileOK, Looking
    <3> QED BY <1>2, <1>3, <1>7, <3>1 DEF CompileOK, IInv, TypeOK, Idle, Looking
  <2>2. Knows(p)'
    BY <1>2, <1>3, <1>6, <1>7 DEF Knows, Idle, Looking, Resolved, Compiling, tree, disk
  <2> QED BY <1>3, <1>4, <1>5, <2>1, <2>2, TogetherQuiet
<1>8. CASE ReadPrior(p)
  <2>1. pc'[p] = "source" /\ seen'[p] = sig[s]
    BY <1>8 DEF ReadPrior, Goto, IInv, TypeOK, LocalsOK
  <2>2. read' = read /\ todo' = todo /\ missed' = missed /\ hashes' = hashes
    BY <1>8 DEF ReadPrior, Goto
  <2>3. GoodSig(s, sig[s]) /\ (sig[s] = None \/ IsSignature(sig[s]))
    BY <1>2 DEF IInv, TypeOK, DiskOK
  <2> QED BY <1>1, <1>7, <2>1, <2>2, <2>3 DEF Looking
<1>9. ASSUME StartResolve(p, s, job[p].text), seen' = seen PROVE IInv'
  <2>1. CompileOK(p)' /\ Knows(p)'
    BY <1>1, <1>2, <1>3, <1>9, StartResolveKnows DEF tree
  <2> QED BY <1>3, <1>4, <1>5, <2>1, TogetherQuiet
<1>10. CASE CheckSource(p)
  <2>1. CASE Goto(p, "vouch")
    <3>1. pc'[p] = "vouch" /\ seen' = seen
      BY <1>10, <2>1 DEF CheckSource, Goto, IInv, TypeOK, LocalsOK
    <3>2. read' = read /\ todo' = todo /\ missed' = missed /\ hashes' = hashes
      BY <2>1 DEF Goto
    <3>3. seen[p] = None \/ IsSignature(seen[p])
      BY DEF IInv, TypeOK, CompileOK
    <3> QED BY <1>1, <1>2, <1>7, <3>1, <3>2, <3>3 DEF Looking
  <2>2. CASE StartResolve(p, s, job[p].text)
    BY <1>9, <1>10, <2>2 DEF CheckSource
  <2> QED BY <1>10, <2>1, <2>2 DEF CheckSource
<1>11. CASE Decline(p)
  BY <1>9, <1>11 DEF Decline
<1> QED BY <1>8, <1>10, <1>11

LEMMA StopIInv ==
  ASSUME IInv, NEW p \in Proc, Skip(p) \/ Fail(p) \/ Kill(p), Step(p)
  PROVE  IInv'
<1>1. End(p) /\ UNCHANGED <<tree, disk, compiles, settled>>
  BY DEF Skip, Fail, Kill
<1>2. LocalsOK' /\ CompileOK(p)' /\ Knows(p)'
  BY <1>1, EndKnows
<1>3. compiles' \in Nat
  BY <1>1 DEF IInv, TypeOK
<1> QED BY <1>1, <1>2, <1>3, TogetherQuiet

LEMMA ResolveIInv ==
  ASSUME Careful, IInv, NEW p \in Proc, ResolveImport(p), Step(p)
  PROVE  IInv'
<1> DEFINE s == job[p].src
           m == job[p].mode
<1>1. pc[p] = "resolve" /\ ~Idle(p)
  BY DEF ResolveImport, Idle
<1>2. s \in Source /\ m \in Mode
  BY <1>1, JobType
<1>3. UNCHANGED <<tree, disk, pc, job, seen, hashes, compiles, settled>>
  BY DEF ResolveImport
<1>4. LocalsOK'
  BY DEF ResolveImport, IInv, TypeOK, LocalsOK
<1>5. /\ files \in [Path -> Text \cup {None}] /\ read[p] \in [DOMAIN read[p] -> Text]
      /\ DOMAIN read[p] \subseteq Path /\ missed[p] \subseteq Place
      /\ todo[p] \subseteq Module \X Path
  BY DEF IInv, TypeOK, TreeOK, CompileOK, IsPartial
<1>6. Partly(files, s, m, read[p], missed[p], todo[p])
  BY <1>1 DEF IInv, Knows, Compiling
<1> DEFINE Leading(t, c, i) ==
             /\ IsHit(files, c, i)
             /\ missed' = [missed EXCEPT ![p] = @ \cup MissedBefore(c, i)]
             /\ IF c[i] \in DOMAIN read[p]
                  THEN todo' = [todo EXCEPT ![p] = @ \ {t}] /\ read' = read
                  ELSE /\ todo' = [todo EXCEPT ![p] = Left(files, @, t, c[i])]
                       /\ read' = [read EXCEPT ![p] = Grown(files, @, c[i])]
<1>7. PICK t \in todo[p] :
        \E i \in DOMAIN Candidates(t[1], t[2], s, m) :
          Leading(t, Candidates(t[1], t[2], s, m), i)
  BY DEF ResolveImport, Left, Grown
<1> DEFINE c == Cand(t[1], t[2], m)
<1>8. t[1] \in Module /\ t[2] \in Path /\ c = Candidates(t[1], t[2], s, m) /\ c \in Seq(Place)
  BY <1>2, <1>5, CandIsCandidates, CandType
<1> HIDE DEF c, Leading
<1>9. PICK i \in DOMAIN c : Leading(t, c, i)
  BY <1>7, <1>8
<1>9a. /\ missed = [q \in Proc |-> missed[q]] /\ todo = [q \in Proc |-> todo[q]]
       /\ read = [q \in Proc |-> read[q]]
  BY DEF IInv, TypeOK, LocalsOK
<1>9b. IsHit(files, c, i) /\ missed'[p] = missed[p] \cup MissedBefore(c, i)
  BY <1>9, <1>9a DEF Leading
<1>9c. ASSUME c[i] \in DOMAIN read[p]
       PROVE  todo'[p] = todo[p] \ {t} /\ read'[p] = read[p]
  BY <1>9, <1>9a, <1>9c DEF Leading
<1>9d. ASSUME c[i] \notin DOMAIN read[p]
       PROVE  /\ todo'[p] = Left(files, todo[p], t, c[i])
              /\ read'[p] = Grown(files, read[p], c[i])
  BY <1>9, <1>9a, <1>9d DEF Leading
<1>10. c[i] \in Path /\ files[c[i]] \in Text /\ Imports[files[c[i]]] \subseteq Module
  BY <1>5, <1>9b, SigAssumption DEF IsHit, Exists
<1>11. MissedBefore(c, i) \subseteq Place
  BY <1>8, <1>9 DEF MissedBefore
<1>12. CompileOK(p)'
  <2>1. IsPartial(read'[p], Path, Text)
    BY <1>5, <1>9c, <1>9d, <1>10 DEF IsPartial, Grown
  <2>2. todo'[p] \subseteq Module \X Path
    BY <1>5, <1>9c, <1>9d, <1>10 DEF Left
  <2>3. missed'[p] \subseteq Place
    BY <1>5, <1>9b, <1>11
  <2> QED BY <1>1, <1>3, <2>1, <2>2, <2>3 DEF CompileOK, IInv, TypeOK, Idle
<1>13. Partly(files, s, m, read'[p], missed'[p], todo'[p])
  <2> HIDE DEF s, m
  <2>1. i \in DOMAIN Cand(t[1], t[2], m) /\ IsHit(files, Cand(t[1], t[2], m), i)
    BY <1>9b DEF c
  <2>2. /\ c[i] \in DOMAIN read[p] =>
             Partly(files, s, m, read[p], missed[p] \cup MissedBefore(c, i), todo[p] \ {t})
        /\ c[i] \notin DOMAIN read[p] =>
             Partly(files, s, m, Grown(files, read[p], c[i]),
                    missed[p] \cup MissedBefore(c, i), Left(files, todo[p], t, c[i]))
    BY <1>2, <1>5, <1>6, <2>1, PartlyGoesOn DEF c
  <2> QED BY <1>9b, <1>9c, <1>9d, <2>2
<1>14. Knows(p)'
  BY <1>1, <1>3, <1>13 DEF Knows, IInv, Idle, Looking, Resolved, Compiling, tree
<1>15. compiles' \in Nat
  BY <1>3 DEF IInv, TypeOK
<1> QED BY <1>3, <1>4, <1>12, <1>14, <1>15, TogetherQuiet

LEMMA HashIInv ==
  ASSUME IInv, NEW p \in Proc, HashImports(p), Step(p)
  PROVE  IInv'
<1> DEFINE imported == DOMAIN read[p] \ {job[p].src}
<1>1. pc[p] = "resolve" /\ ~Idle(p) /\ todo[p] = {}
  BY DEF HashImports, Idle
<1>2. UNCHANGED <<tree, disk, job, seen, read, todo, missed, compiles, settled>>
  BY DEF HashImports
<1>3. LocalsOK' /\ pc'[p] = "check" /\ hashes'[p] = [x \in imported |-> files[x]]
  BY DEF HashImports, IInv, TypeOK, LocalsOK
<1>4. Partly(files, job[p].src, job[p].mode, read[p], missed[p], todo[p])
  BY <1>1 DEF IInv, Knows, Compiling
<1>5. hashes'[p] = [x \in imported |-> read[p][x]]
  BY <1>3, <1>4 DEF Partly, Holds
<1>6. IsPartial(hashes'[p], Path, Text)
  BY <1>5 DEF IInv, TypeOK, CompileOK, IsPartial
<1>7. CompileOK(p)'
  BY <1>1, <1>2, <1>3, <1>6 DEF CompileOK, IInv, TypeOK, Idle
<1>8. Knows(p)'
  BY <1>1, <1>2, <1>3, <1>4, <1>5 DEF Knows, IInv, Idle, Looking, Resolved, Compiling, tree
<1>9. compiles' \in Nat
  BY <1>2 DEF IInv, TypeOK
<1> QED BY <1>2, <1>3, <1>7, <1>8, <1>9, TogetherQuiet

LEMMA InvalidateIInv ==
  ASSUME IInv, NEW p \in Proc, Invalidate(p), Step(p)
  PROVE  IInv'
<1> DEFINE s == job[p].src
<1>1. pc[p] = "check" /\ ~Idle(p)
  BY DEF Invalidate, Idle
<1>2. s \in Source /\ job[p].text = files[s]
  BY <1>1, JobType
<1>3. UNCHANGED <<tree, output, written, job, read, todo, missed, hashes, compiles>>
  BY DEF Invalidate, Goto
<1>4. LocalsOK' /\ pc'[p] = "emit" /\ seen'[p] = sig[s]
  BY DEF Invalidate, Goto, IInv, TypeOK, LocalsOK
<1>5. sig' = [t \in Source |-> sig'[t]] /\ \A t \in Source : sig'[t] \in {None, sig[t]}
  BY DEF Invalidate
<1>6. settled' \in SUBSET Job
  BY DEF Invalidate, IInv, TypeOK
<1>7. DiskOK'
  BY <1>3, <1>5 DEF IInv, TypeOK, DiskOK, tree
<1>8. \A t \in Source : GoodSig(t, sig'[t])
  BY <1>5 DEF IInv, GoodSig
<1>9. GoodSig(s, sig[s]) /\ (sig[s] = None \/ IsSignature(sig[s]))
  BY <1>2 DEF IInv, TypeOK, DiskOK
<1>10. TimesTell'
  BY <1>3 DEF IInv, TimesTell, tree
<1>11. OnlyNewer /\ UNCHANGED marked
  BY <1>3 DEF IInv, TypeOK, DiskOK, OnlyNewer, tree
<1>12. CompileOK(p)'
  BY <1>1, <1>3, <1>4, <1>9 DEF CompileOK, IInv, TypeOK, Idle
<1>13. Knows(p)'
  <2>1. /\ Partly(files, s, job[p].mode, read[p], missed[p], todo[p])
        /\ hashes[p] = [x \in DOMAIN read[p] \ {s} |-> read[p][x]]
    BY <1>1 DEF IInv, Knows, Compiling, Resolved
  <2> QED BY <1>1, <1>2, <1>3, <1>4, <1>9, <2>1
          DEF Knows, Idle, Looking, Resolved, Compiling, tree
<1>14. compiles' \in Nat
  BY <1>3 DEF IInv, TypeOK
<1> QED BY <1>4, <1>6, <1>7, <1>8, <1>10, <1>11, <1>12, <1>13, <1>14, Together

LEMMA EmittedType ==
  ASSUME IInv, NEW p \in Proc, ~Idle(p)
  PROVE  /\ IsCompilation(Emitted(p))
         /\ Emitted(p).source = job[p].src /\ Emitted(p).text = files[job[p].src]
<1>1. IsPartial([x \in DOMAIN read[p] \ {job[p].src} |-> read[p][x]], Path, Text)
  BY DEF IInv, TypeOK, CompileOK, IsPartial
<1> QED BY <1>1, JobType, CompilationType DEF Emitted

(* A step of p that puts something at its output, and goes on.             *)
LEMMA PutIInv ==
  ASSUME IInv, NEW p \in Proc, Step(p), pc[p] \in {"emit", "write"},
         NEW what \in {Torn, Emitted(p)}, NEW where \in {"write", "save"},
         output' = [output EXCEPT ![job[p].out] = what],
         written' = [written EXCEPT ![job[p].out] = edits],
         settled' \subseteq settled, Goto(p, where),
         UNCHANGED <<tree, sig, job, seen, compiles>>
  PROVE  IInv'
<1> DEFINE s == job[p].src
           o == job[p].out
<1>1. ~Idle(p) /\ pc[p] \in Resolved
  BY DEF Idle, Resolved
<1>2. s \in Source /\ o \in Output
  BY <1>1, JobType
<1>3. LocalsOK' /\ pc'[p] = where
  BY DEF Goto, IInv, TypeOK, LocalsOK
<1>4. UNCHANGED <<read, todo, missed, hashes>>
  BY DEF Goto
<1>5. edits \in Nat /\ written \in [Output -> 0 .. edits] /\ stamp \in [Source -> 0 .. edits]
  BY DEF IInv, TypeOK, TreeOK, DiskOK
<1>6. /\ written'[o] = edits /\ output'[o] = what
      /\ \A r \in Output \ {o} : written'[r] = written[r] /\ output'[r] = output[r]
      /\ output' = [r \in Output |-> output'[r]] /\ written' \in [Output -> 0 .. edits]
  BY <1>2, <1>5 DEF IInv, TypeOK, DiskOK
<1>7. OnlyNewer /\ UNCHANGED marked
  BY <1>2, <1>5, <1>6 DEF OnlyNewer, tree
<1>8. what = Torn \/ (IsCompilation(what) /\ what.source = s /\ what.text = files[s])
  BY <1>1, EmittedType
<1>9. DiskOK'
  BY <1>2, <1>6, <1>8 DEF IInv, TypeOK, DiskOK, tree
<1>10. TimesTell'
  <2> SUFFICES ASSUME NEW t \in Source, NEW r \in Output, IsCompilation(output'[r]),
                      output'[r].source = t, written'[r] >= stamp[t]
               PROVE  output'[r].text = files[t]
    BY DEF TimesTell, tree
  <2>1. CASE r = o
    BY <1>6, <1>8, <2>1, NoneIsNoCompilation
  <2>2. CASE r # o
    BY <1>6, <2>2 DEF IInv, TimesTell
  <2> QED BY <2>1, <2>2
<1>11. \A t \in Source : GoodSig(t, sig'[t])
  BY DEF IInv
<1>12. CompileOK(p)'
  BY <1>1, <1>3, <1>4 DEF CompileOK, IInv, TypeOK, Idle, Resolved
<1>13. Knows(p)'
  BY <1>1, <1>3, <1>4 DEF Knows, IInv, Idle, Looking, Resolved, Compiling, tree
<1>14. compiles' \in Nat /\ settled' \in SUBSET Job
  BY DEF IInv, TypeOK
<1> QED BY <1>3, <1>7, <1>9, <1>10, <1>11, <1>12, <1>13, <1>14, Together

LEMMA TruncateIInv ==
  ASSUME IInv, NEW p \in Proc, Truncate(p), Step(p)
  PROVE  IInv'
<1>1. settled' \subseteq settled
  BY DEF Truncate
<1> QED BY <1>1, PutIInv DEF Truncate

LEMMA WriteIInv ==
  ASSUME IInv, NEW p \in Proc, Write(p), Step(p)
  PROVE  IInv'
<1>1. settled' \subseteq settled
  BY DEF Write
<1>2. PICK what \in {Torn, Emitted(p)} : output' = [output EXCEPT ![job[p].out] = what]
  BY DEF Write
<1> QED BY <1>1, <1>2, PutIInv DEF Write

(* What p saves records what it read and missed, and keeps entries of the  *)
(* old signature.                                                          *)
LEMMA SavedShape ==
  ASSUME Careful, IInv, NEW p \in Proc, Save(p)
  PROVE  LET s == job[p].src
             m == job[p].mode
             own == job[p].out
             g == sig'[s]
         IN /\ g.text = job[p].text /\ g.imports = hashes[p] /\ g.misses = missed[p]
            /\ DOMAIN g.outputs = Kept(seen[p], p) \cup {own}
            /\ g.outputs[own] = [mode |-> m, ir |-> Emitted(p)]
            /\ \A o \in Kept(seen[p], p) \ {own} : g.outputs[o] = seen[p].outputs[o]
            /\ hashes[p] = [x \in DOMAIN read[p] \ {s} |-> read[p][x]]
            /\ read[p] \in [DOMAIN read[p] -> Text] /\ Whole(s, g) = read[p]
            /\ Evidence(s, m, read[p], missed[p]) /\ Holds(files, read[p], missed[p])
            /\ s \in DOMAIN read[p] /\ read[p][s] = job[p].text
<1> DEFINE s == job[p].src
           m == job[p].mode
           own == job[p].out
           g == sig'[s]
<1>1. pc[p] = "save" /\ ~Idle(p)
  BY DEF Save, Idle
<1>2. /\ s \in Source /\ m \in Mode /\ own \in Output /\ job[p].text \in Text
      /\ files[s] = job[p].text
  BY <1>1, JobType
<1>3. /\ IsPartial(read[p], Path, Text) /\ todo[p] = {}
      /\ read[p] = [x \in DOMAIN read[p] |-> read[p][x]]
  BY <1>1 DEF IInv, TypeOK, CompileOK, IsPartial
<1>4. /\ Partly(files, s, m, read[p], missed[p], {})
      /\ hashes[p] = [x \in DOMAIN read[p] \ {s} |-> read[p][x]]
  BY <1>1, <1>3 DEF IInv, Knows, Compiling, Resolved
<1>5. Evidence(s, m, read[p], missed[p]) /\ Holds(files, read[p], missed[p])
  BY <1>2, <1>3, <1>4, PartlyEnds DEF IsPartial, Partly
<1>6. g = [text |-> job[p].text, imports |-> hashes[p], misses |-> missed[p],
           outputs |-> [o \in Kept(seen[p], p) \cup {own} |->
             IF o = own THEN [mode |-> m, ir |-> Emitted(p)] ELSE seen[p].outputs[o]]]
  BY <1>2 DEF Save, IInv, TypeOK, DiskOK
<1>7. /\ DOMAIN g.outputs = Kept(seen[p], p) \cup {own}
      /\ g.outputs[own] = [mode |-> m, ir |-> Emitted(p)]
      /\ \A o \in Kept(seen[p], p) \ {own} : g.outputs[o] = seen[p].outputs[o]
      /\ g.text = job[p].text /\ g.imports = hashes[p] /\ g.misses = missed[p]
  BY <1>6
<1>8. s \in DOMAIN read[p] /\ read[p][s] = job[p].text
  BY <1>2, <1>4 DEF Partly, Holds
<1>9. Whole(s, g) = read[p]
  <2>1. {s} \cup DOMAIN hashes[p] = DOMAIN read[p]
    BY <1>4, <1>8
  <2>2. \A x \in DOMAIN hashes[p] : x # s /\ hashes[p][x] = read[p][x]
    BY <1>4
  <2>3. Whole(s, g) = [x \in DOMAIN read[p] |-> read[p][x]]
    BY <1>7, <1>8, <2>1, <2>2 DEF Whole
  <2> QED BY <1>3, <2>3
<1> QED BY <1>3, <1>4, <1>5, <1>7, <1>8, <1>9 DEF IsPartial

(* Its own entry is what it compiled, and what it keeps was recorded with  *)
(* the same texts and the same misses.                                     *)
LEMMA SavedIsGood ==
  ASSUME Careful, IInv, NEW p \in Proc, Save(p)
  PROVE  LET g == sig'[job[p].src]
         IN IsSignature(g) /\ GoodSig(job[p].src, g)
<1> DEFINE s == job[p].src
           m == job[p].mode
           old == seen[p]
           own == job[p].out
           g == sig'[s]
<1>1. pc[p] = "save" /\ ~Idle(p)
  BY DEF Save, Idle
<1>2. /\ s \in Source /\ m \in Mode /\ own \in Output /\ job[p].text \in Text
      /\ GoodSig(s, old)
  BY <1>1, JobType
<1>3. old = None \/ IsSignature(old)
  BY DEF IInv, TypeOK, CompileOK
<1>4. IsPartial(hashes[p], Path, Text) /\ missed[p] \subseteq Place
  BY DEF IInv, TypeOK, CompileOK
<1>5. /\ DOMAIN g.outputs = Kept(old, p) \cup {own}
      /\ g.outputs[own] = [mode |-> m, ir |-> Emitted(p)]
      /\ \A o \in Kept(old, p) \ {own} : g.outputs[o] = old.outputs[o]
      /\ g.text = job[p].text /\ g.imports = hashes[p] /\ g.misses = missed[p]
      /\ hashes[p] = [x \in DOMAIN read[p] \ {s} |-> read[p][x]]
  BY SavedShape
<1>6. Whole(s, g) = read[p] /\ Evidence(s, m, read[p], missed[p])
  BY SavedShape
<1>7. Emitted(p) = Compiled(s, m, g.text, g.imports)
  BY <1>5 DEF Emitted
<1>8. GoodEntry(s, g, g.outputs[own])
  BY <1>5, <1>6, <1>7 DEF GoodEntry
<1>9. ASSUME NEW o \in Kept(old, p) \ {own}
      PROVE  /\ o \in Output /\ g.outputs[o].mode \in Mode
             /\ IsCompilation(g.outputs[o].ir) /\ GoodEntry(s, g, g.outputs[o])
  <2>1. /\ old # None /\ old.text = g.text /\ old.imports = g.imports
        /\ old.misses = g.misses /\ o \in DOMAIN old.outputs /\ g.outputs[o] = old.outputs[o]
    BY <1>5, <1>9 DEF Kept
  <2>2. Whole(s, old) = Whole(s, g)
    BY <2>1 DEF Whole
  <2>3. GoodEntry(s, old, old.outputs[o])
    BY <1>2, <2>1 DEF GoodSig
  <2>4. GoodEntry(s, g, g.outputs[o])
    BY <2>1, <2>2, <2>3 DEF GoodEntry
  <2> QED BY <1>3, <2>1, <2>4 DEF IsSignature
<1>10. IsCompilation(Emitted(p))
  BY <1>1, EmittedType
<1>11. IsSignature(g)
  <2>1. DOMAIN g.outputs \subseteq Output
    BY <1>2, <1>5, <1>9
  <2>2. \A o \in DOMAIN g.outputs : g.outputs[o].mode \in Mode /\ IsCompilation(g.outputs[o].ir)
    BY <1>2, <1>5, <1>9, <1>10
  <2> HIDE DEF g
  <2> QED BY <1>2, <1>4, <1>5, <2>1, <2>2 DEF IsSignature
<1>12. GoodSig(s, g)
  <2>1. s \notin DOMAIN g.imports
    BY <1>5
  <2>2. \A o \in DOMAIN g.outputs : GoodEntry(s, g, g.outputs[o])
    BY <1>5, <1>8, <1>9
  <2> QED BY <2>1, <2>2 DEF GoodSig
<1> QED BY <1>11, <1>12

LEMMA SaveIInv ==
  ASSUME Careful, IInv, NEW p \in Proc, Save(p), Step(p)
  PROVE  IInv'
<1> DEFINE s == job[p].src
<1>1. ~Idle(p)
  BY DEF Save, Idle
<1>2. s \in Source /\ job[p].out \in Output /\ job[p].mode \in Mode
  BY <1>1, JobType
<1>3. UNCHANGED <<tree, output, written, compiles>> /\ End(p)
  BY DEF Save
<1>4. sig' = [t \in Source |-> sig'[t]] /\ \A t \in Source \ {s} : sig'[t] = sig[t]
  <2>1. sig = [t \in Source |-> sig[t]]
    BY DEF IInv, TypeOK, DiskOK
  <2>2. PICK g : sig' = [sig EXCEPT ![s] = g]
    BY DEF Save
  <2> QED BY <1>2, <2>1, <2>2
<1>5. IsSignature(sig'[s]) /\ GoodSig(s, sig'[s])
  BY SavedIsGood
<1>6. DiskOK'
  BY <1>3, <1>4, <1>5 DEF IInv, TypeOK, DiskOK, tree
<1>7. \A t \in Source : GoodSig(t, sig'[t])
  BY <1>4, <1>5 DEF IInv
<1>8. TimesTell'
  BY <1>3 DEF IInv, TimesTell, tree
<1>9. OnlyNewer /\ UNCHANGED marked
  BY <1>3 DEF IInv, TypeOK, DiskOK, OnlyNewer, tree
<1>10. LocalsOK' /\ CompileOK(p)' /\ Knows(p)'
  BY <1>3, EndKnows
<1>11. settled' \in SUBSET Job
  <2>1. settled \subseteq Job
    BY DEF IInv, TypeOK
  <2>2. SettledAfter(p) \subseteq Job
    BY <1>2, <2>1 DEF SettledAfter, Job
  <2> QED BY <2>2 DEF Save
<1>12. compiles' \in Nat
  BY <1>3 DEF IInv, TypeOK
<1> QED BY <1>6, <1>7, <1>8, <1>9, <1>10, <1>11, <1>12, Together

-----------------------------------------------------------------------------
(* Steps of the user, and the theorems.                                    *)

(* Nothing is under way, and no signature changes.                         *)
LEMMA UserIInv ==
  ASSUME Careful, IInv,
         (\E x \in Path : Edit(x)) \/ (\E d \in Rootable : Mark(d))
           \/ (\E o \in Output : RemoveOutput(o))
  PROVE  IInv'
<1>1. /\ \A p \in Proc : Idle(p)
      /\ edits' = edits + 1 /\ UNCHANGED <<written, sig, pc, locals, compiles>>
  BY DEF Edit, Mark, RemoveOutput, MayEdit, Careful, disk
<1>2. /\ edits \in Nat /\ written \in [Output -> 0 .. edits]
      /\ stamp \in [Source -> 0 .. edits] /\ files \in [Path -> Text \cup {None}]
      /\ marked \subseteq Dir
  BY DEF IInv, TypeOK, TreeOK, DiskOK
<1>3. /\ output' = [o \in Output |-> output'[o]]
      /\ \A o \in Output : output'[o] = output[o] \/ output'[o] = None
  BY DEF Edit, Mark, RemoveOutput, disk, IInv, TypeOK, DiskOK
<1>4. /\ files' \in [Path -> Text \cup {None}] /\ stamp' \in [Source -> 0 .. edits + 1]
      /\ \A s \in Source :
           (files'[s] = files[s] /\ stamp'[s] = stamp[s]) \/ stamp'[s] = edits + 1
  <2>1. CASE \E x \in Path : Edit(x)
    <3>1. PICK x \in Path : Edit(x)
      BY <2>1
    <3>2. Texts[x] \subseteq Text
      BY DEF Text
    <3>3. PICK text \in Text \cup {None} : files' = [files EXCEPT ![x] = text]
      BY <3>1, <3>2 DEF Edit
    <3>4. stamp' = IF x \in Source THEN [stamp EXCEPT ![x] = edits + 1] ELSE stamp
      BY <3>1 DEF Edit, Careful
    <3>5. Source \subseteq Path
      BY SigAssumption
    <3> QED BY <1>2, <3>3, <3>4, <3>5
  <2>2. CASE (\E d \in Rootable : Mark(d)) \/ (\E o \in Output : RemoveOutput(o))
    <3>1. UNCHANGED <<files, stamp>>
      BY <2>2 DEF Mark, RemoveOutput
    <3> QED BY <1>2, <3>1
  <2> QED BY <2>1, <2>2
<1>5. marked' \subseteq Dir
  BY <1>2, SigAssumption DEF Edit, Mark, RemoveOutput
<1>6. TreeOK'
  BY <1>1, <1>2, <1>4, <1>5 DEF TreeOK
<1>7. DiskOK'
  <2>1. written' \in [Output -> 0 .. edits']
    BY <1>1, <1>2
  <2>2. \A s \in Source : sig'[s] = None \/ IsSignature(sig'[s])
    BY <1>1 DEF IInv, TypeOK, DiskOK
  <2>3. \A o \in Output : output'[o] \in {None, Torn} \/ IsCompilation(output'[o])
    BY <1>3 DEF IInv, TypeOK, DiskOK
  <2>4. sig' = [s \in Source |-> sig'[s]]
    BY <1>1 DEF IInv, TypeOK, DiskOK
  <2> QED BY <1>3, <2>1, <2>2, <2>3, <2>4 DEF DiskOK
<1>8. LocalsOK' /\ \A p \in Proc : CompileOK(p)'
  BY <1>1 DEF IInv, TypeOK, LocalsOK, CompileOK, locals, Idle
<1>9. settled' \in SUBSET Job
  BY DEF Edit, Mark, RemoveOutput, StillSettled, IInv, TypeOK
<1>10. TypeOK'
  BY <1>1, <1>6, <1>7, <1>8, <1>9 DEF TypeOK, IInv
<1>11. TimesTell'
  <2> SUFFICES ASSUME NEW s \in Source, NEW o \in Output, IsCompilation(output'[o]),
                      output'[o].source = s, written'[o] >= stamp'[s]
               PROVE  output'[o].text = files'[s]
    BY DEF TimesTell
  <2>1. output'[o] = output[o] /\ written'[o] = written[o]
    BY <1>1, <1>3, NoneIsNoCompilation
  <2>2. stamp'[s] # edits + 1
    BY <1>2, <2>1
  <2> QED BY <1>4, <2>1, <2>2 DEF IInv, TimesTell
<1>12. \A s \in Source : GoodSig(s, sig'[s])
  BY <1>1 DEF IInv
<1>13. \A p \in Proc : Knows(p)'
  BY <1>1 DEF IInv, Knows, Idle, Looking, Resolved, Compiling, locals
<1> QED BY <1>10, <1>11, <1>12, <1>13 DEF IInv

LEMMA NextIInv == ASSUME Careful, IInv, [Next]_vars PROVE IInv'
<1>1. ASSUME NEW p \in Proc, Step(p) PROVE IInv'
  BY <1>1, BeginIInv, LookIInv, StopIInv, ResolveIInv, HashIInv, InvalidateIInv,
     TruncateIInv, WriteIInv, SaveIInv DEF Step
<1>2. CASE UNCHANGED vars
  <2>1. TypeOK'
    BY <1>2 DEF vars, tree, disk, locals, IInv, TypeOK, TreeOK, DiskOK, LocalsOK,
                CompileOK, Idle
  <2>2. TimesTell'
    BY <1>2 DEF vars, tree, disk, IInv, TimesTell
  <2>3. \A s \in Source : GoodSig(s, sig'[s])
    BY <1>2 DEF vars, disk, IInv
  <2>4. \A p \in Proc : Knows(p)'
    BY <1>2 DEF vars, tree, disk, locals, IInv, Knows, Idle
  <2> QED BY <2>1, <2>2, <2>3, <2>4 DEF IInv
<1> QED BY <1>1, <1>2, UserIInv DEF Next

(* A signature whose texts and misses still hold is a record of the files. *)
LEMMA VouchedHolds ==
  ASSUME TypeOK, NEW s \in Source, NEW g, IsSignature(g), s \notin DOMAIN g.imports,
         g.text = files[s], ImportsHold(g), MissesHold(g)
  PROVE  /\ DOMAIN Whole(s, g) = {s} \cup DOMAIN g.imports
         /\ Whole(s, g) \in [DOMAIN Whole(s, g) -> Text]
         /\ Holds(files, Whole(s, g), g.misses)
<1> DEFINE t == Whole(s, g)
<1>1. /\ DOMAIN t = {s} \cup DOMAIN g.imports /\ t[s] = g.text
      /\ \A x \in DOMAIN g.imports : t[x] = g.imports[x]
  BY DEF Whole
<1>2. \A x \in DOMAIN g.imports : g.imports[x] \in Text /\ x \in Path
  BY DEF IsSignature, IsPartial
<1>3. t \in [DOMAIN t -> Text]
  BY <1>2 DEF Whole, IsSignature
<1>4. Holds(files, t, g.misses)
  <2>1. None \notin Text /\ s \in Path
    BY SigAssumption
  <2>2. \A x \in DOMAIN t : t[x] \in Text /\ files[x] = t[x] /\ x \in Path
    BY <1>1, <1>2, <2>1 DEF ImportsHold, IsSignature
  <2> HIDE DEF t
  <2> QED BY <2>1, <2>2 DEF Holds, Exists, MissesHold
<1> QED BY <1>1, <1>3, <1>4

(* The invariant: every signature is evidence of what its entries were     *)
(* compiled from, every compile knows what it has read, and an output that *)
(* is not older than its source has its text (compile_file).               *)
THEOREM SigInvariant == ASSUME Careful PROVE Spec => []IInv
<1>1. IInv /\ [Next]_vars => IInv'
  BY NextIInv
<1> QED BY <1>1, InitIInv, PTL DEF Spec

(* Type correctness, for any number of compiles and edits.                 *)
THEOREM SigTypeCorrect == ASSUME Careful PROVE Spec => []TypeOK
<1>1. IInv => TypeOK
  BY DEF IInv
<1> QED BY <1>1, SigInvariant, PTL

(* A signature vouches only for what was compiled in the mode and from the *)
(* texts it records, however many compiles of its source run side by side  *)
(* (build_outputs, build_sig_data).                                        *)
THEOREM SignaturesVouch == ASSUME Careful PROVE Spec => []SigVouches
<1>1. IInv => SigVouches
  BY DEF IInv, SigVouches, GoodSig, GoodEntry
<1> QED BY <1>1, SigInvariant, PTL

(* A compile that says "Skipped" leaves what a compile would write: the    *)
(* misses that are still misses and the texts that are still those in the  *)
(* files leave the resolution no other way to go (compile_file).           *)
THEOREM SkipsAreFresh == ASSUME Careful PROVE Spec => []SkippedIsFresh
<1>1. ASSUME IInv PROVE SkippedIsFresh
  <2> SUFFICES ASSUME NEW p \in Proc, pc[p] = "vouch",
                      Vouches(seen[p], job[p].out, job[p].mode)
               PROVE  output[job[p].out] = Build(files, job[p].src, job[p].mode)
    BY DEF SkippedIsFresh
  <2> DEFINE s == job[p].src
             m == job[p].mode
             o == job[p].out
             g == seen[p]
             e == g.outputs[o]
  <2>1. ~Idle(p)
    BY DEF Idle
  <2>2. s \in Source /\ m \in Mode /\ o \in Output /\ s \in Path /\ GoodSig(s, g)
    BY <1>1, <2>1, JobType
  <2>3. /\ g # None /\ ImportsHold(g) /\ MissesHold(g)
        /\ o \in DOMAIN g.outputs /\ e.mode = m /\ output[o] = e.ir
    BY DEF Vouches, HasEntry
  <2>4. IsSignature(g)
    BY <1>1, <2>3 DEF IInv, TypeOK, CompileOK
  <2>5. s \notin DOMAIN g.imports /\ GoodEntry(s, g, e)
    BY <2>2, <2>3 DEF GoodSig
  <2>6. output[o] = Compiled(s, m, g.text, g.imports)
    BY <2>3, <2>5 DEF GoodEntry
  <2>7. g.text = files[s]
    <3>1. IsCompilation(output[o]) /\ output[o].source = s /\ output[o].text = g.text
      <4>1. IsCompilation(e.ir)
        BY <2>3, <2>4 DEF IsSignature
      <4>2. output[o].source = s /\ output[o].text = g.text
        BY <2>6 DEF Compiled
      <4> QED BY <2>3, <4>1, <4>2
    <3>2. written[o] >= stamp[s]
      BY <1>1 DEF IInv, Knows, Looking
    <3> QED BY <1>1, <2>2, <3>1, <3>2 DEF IInv, TimesTell
  <2> DEFINE t == Whole(s, g)
  <2>8. /\ DOMAIN t = {s} \cup DOMAIN g.imports /\ t \in [DOMAIN t -> Text]
        /\ Holds(files, t, g.misses)
    BY <1>1, <2>2, <2>3, <2>4, <2>5, <2>7, VouchedHolds DEF IInv
  <2>9. Reached(files, s, m) = DOMAIN t
    BY <2>2, <2>3, <2>5, <2>8, EvidenceHolds DEF GoodEntry
  <2>10. g.imports = [x \in Reached(files, s, m) \ {s} |-> files[x]]
    <3>1. Reached(files, s, m) \ {s} = DOMAIN g.imports
      BY <2>5, <2>8, <2>9
    <3>2. g.imports = [x \in DOMAIN g.imports |-> g.imports[x]]
      BY <2>4 DEF IsSignature, IsPartial
    <3> QED BY <2>3, <3>1, <3>2 DEF ImportsHold
  <2> QED BY <2>6, <2>7, <2>10 DEF Build
<1> QED BY <1>1, SigInvariant, PTL

-----------------------------------------------------------------------------
(* What is vouched for and need not be compiled again.                     *)

(* The misses M are places that come before what an import led to.         *)
Tight(m, t, M) ==
  \A x \in M : \E f \in DOMAIN t : \E n \in Imports[t[f]] : \E i \in DOMAIN Cand(n, f, m) :
    /\ x \in MissedBefore(Cand(n, f, m), i)
    /\ Cand(n, f, m)[i] \in DOMAIN t
    /\ MissedBefore(Cand(n, f, m), i) \subseteq M

(* Of a signature: with its entries, each a mode and what was compiled.    *)
TightSig(s, g) ==
  g # None => \A o \in DOMAIN g.outputs :
    /\ Tight(g.outputs[o].mode, Whole(s, g), g.misses)
    /\ g.outputs[o] = [mode |-> g.outputs[o].mode, ir |-> g.outputs[o].ir]

(* A compile that is going to save has the last signature of its source,   *)
(* or nothing of its source is settled, and its output is not.             *)
Spares(p) ==
  /\ pc[p] \in Compiling => Tight(job[p].mode, read[p], missed[p])
  /\ pc[p] \in {"emit", "write", "save"} =>
       /\ TightSig(job[p].src, seen[p])
       /\ (\E j \in settled : j.src = job[p].src) => seen[p] = sig[job[p].src]
  /\ pc[p] \in {"write", "save"} =>
       /\ written[job[p].out] >= stamp[job[p].src]
       /\ \A j \in settled : ~(j.src = job[p].src /\ j.out = job[p].out)

SInv == /\ SettledSkips
        /\ \A s \in Source : TightSig(s, sig[s])
        /\ \A p \in Proc : Spares(p)

LEMMA SameCand ==
  ASSUME NEW m \in Mode, NEW k \in Mode, SameRoots(m, k)
  PROVE  /\ \A n, f : Cand(n, f, m) = Cand(n, f, k)
         /\ \A s, t, M : Evidence(s, m, t, M) => Evidence(s, k, t, M)
         /\ \A t, M : Tight(m, t, M) => Tight(k, t, M)
<1>1. \A n, f : Cand(n, f, m) = Cand(n, f, k)
  BY DEF SameRoots, Cand
<1>2. ASSUME NEW s, NEW t, NEW M, Evidence(s, m, t, M) PROVE Evidence(s, k, t, M)
  <2>1. \A x \in DOMAIN t : \A n \in Imports[t[x]] : Leads(Cand(n, x, k), DOMAIN t, M)
    BY <1>1, <1>2 DEF Evidence
  <2>2. ASSUME NEW C \in SUBSET Path, Carried(s, k, t, M, C) PROVE DOMAIN t \subseteq C
    <3>1. Carried(s, m, t, M, C)
      BY <1>1, <2>2 DEF Carried
    <3> QED BY <1>2, <3>1 DEF Evidence
  <2> QED BY <1>2, <2>1, <2>2 DEF Evidence
<1>3. ASSUME NEW t, NEW M, Tight(m, t, M) PROVE Tight(k, t, M)
  BY <1>1, <1>3 DEF Tight
<1> QED BY <1>1, <1>2, <1>3

(* An import that evidence of the files leads somewhere leads there in     *)
(* every evidence of them.                                                 *)
LEMMA SameMisses ==
  ASSUME Careful, NEW s \in Source, NEW m \in Mode, NEW fs,
         NEW t, t \in [DOMAIN t -> Text], NEW M, Evidence(s, m, t, M), Tight(m, t, M),
         Holds(fs, t, M),
         NEW u, NEW N, Evidence(s, m, u, N), Holds(fs, u, N), DOMAIN t = DOMAIN u
  PROVE  M \subseteq N
<1> SUFFICES ASSUME NEW x \in M PROVE x \in N
  OBVIOUS
<1>1. PICK f \in DOMAIN t : \E n \in Imports[t[f]] : \E i \in DOMAIN Cand(n, f, m) :
         /\ x \in MissedBefore(Cand(n, f, m), i)
         /\ Cand(n, f, m)[i] \in DOMAIN t
         /\ MissedBefore(Cand(n, f, m), i) \subseteq M
  BY DEF Tight
<1>1a. PICK n \in Imports[t[f]] : \E i \in DOMAIN Cand(n, f, m) :
         /\ x \in MissedBefore(Cand(n, f, m), i)
         /\ Cand(n, f, m)[i] \in DOMAIN t
         /\ MissedBefore(Cand(n, f, m), i) \subseteq M
  BY <1>1
<1> DEFINE c == Cand(n, f, m)
<1>2. PICK i \in DOMAIN c :
         x \in MissedBefore(c, i) /\ c[i] \in DOMAIN t /\ MissedBefore(c, i) \subseteq M
  BY <1>1a
<1>3. f \in Path /\ n \in Module /\ u[f] = t[f]
  <2>1. f \in Path /\ t[f] \in Text
    BY DEF Evidence
  <2>2. u[f] = t[f]
    BY DEF Holds
  <2> QED BY <2>1, <2>2, SigAssumption
<1>4. PICK j \in DOMAIN c : c[j] \in DOMAIN u /\ MissedBefore(c, j) \subseteq N
  BY <1>3 DEF Evidence, Leads
<1>5. c \in Seq(Place)
  BY <1>3, CandType
<1> HIDE DEF c
<1>6. IsHit(fs, c, i)
  BY <1>2, <1>5, HitBefore DEF Holds
<1>7. i = j
  BY <1>4, <1>5, <1>6, OneHit DEF Holds
<1> QED BY <1>2, <1>4, <1>7

LEMMA LeastNat ==
  ASSUME NEW S \in SUBSET Nat, S # {}
  PROVE  \E n \in S : \A k \in S : n <= k
<1>1. PICK t \in S : TRUE
  OBVIOUS
<1> DEFINE U == 0 .. t
           F == {u \in SUBSET U : \E n \in S : n <= t /\ u = 0 .. n}
<1>2. IsWellFoundedOn(StrictSubsetOrdering(U), SUBSET U)
  <2>1. IsFiniteSet(U)
    BY FS_Interval
  <2> QED BY <2>1, FS_StrictSubsetOrderingWellFounded, FS_FiniteSubsetsOfFinite
<1>3. F # {} /\ F \subseteq SUBSET U
  <2>1. U \in F
    BY <1>1
  <2> QED BY <2>1
<1>4. \E u \in F : \A w \in F : ~(<<w, u>> \in StrictSubsetOrdering(U))
  <2> HIDE DEF F, U
  <2> QED BY <1>2, <1>3, WFMin
<1>5. PICK n \in S : /\ n <= t /\ 0 .. n \in F
                     /\ \A w \in F : ~(<<w, 0 .. n>> \in StrictSubsetOrdering(U))
  BY <1>4
<1>6. ASSUME NEW k \in S, k < n
      PROVE  FALSE
  <2>1. 0 .. k \in F
    BY <1>5, <1>6
  <2>2. 0 .. k \in SUBSET U /\ 0 .. n \in SUBSET U
    BY <1>5, <1>6
  <2>3. 0 .. k \subseteq 0 .. n /\ n \in 0 .. n /\ n \notin 0 .. k
    BY <1>5, <1>6
  <2> QED BY <1>5, <2>1, <2>2, <2>3 DEF StrictSubsetOrdering
<1> QED BY <1>5, <1>6

(* Of the places of an import that exist, one comes first.                 *)
LEMMA FirstHit ==
  ASSUME NEW c \in Seq(Place), NEW fs, NEW k \in DOMAIN c, Exists(fs, c[k])
  PROVE  \E h \in 1 .. k : h \in DOMAIN c /\ IsHit(fs, c, h)
<1> DEFINE S == {h \in DOMAIN c : Exists(fs, c[h])}
<1>1. DOMAIN c = 1 .. Len(c) /\ Len(c) \in Nat
  OBVIOUS
<1>2. S \in SUBSET Nat /\ k \in S
  BY <1>1
<1>3. PICK h \in S : \A i \in S : h <= i
  BY <1>2, LeastNat
<1>4. h \in Nat /\ h <= k /\ h \in DOMAIN c /\ Exists(fs, c[h]) /\ h \in 1 .. k
  BY <1>1, <1>2, <1>3
<1>5. ASSUME NEW i \in 1 .. h - 1 PROVE ~Exists(fs, c[i])
  <2>1. i \in DOMAIN c /\ ~(h <= i)
    BY <1>1, <1>4
  <2> QED BY <1>3, <2>1
<1> QED BY <1>4, <1>5 DEF IsHit

ReachedIn(fs, s, m) ==
  {x \in Path : \A C \in SUBSET Path : ClosedIn(fs, s, m, C) => x \in C}

(* As long as a compile reads the same, what is missing stays missing: a   *)
(* place before a hit that came to exist would be read.                    *)
LEMMA StillMissing ==
  ASSUME Careful, NEW s \in Source, NEW m \in Mode, NEW fs,
         NEW t, t \in [DOMAIN t -> Text], NEW M, Evidence(s, m, t, M), Tight(m, t, M),
         Holds(fs, t, M),
         NEW gs, ReachedIn(gs, s, m) = DOMAIN t, \A y \in DOMAIN t : gs[y] = t[y],
         NEW x \in M, Exists(gs, x)
  PROVE  FALSE
<1>1. PICK f \in DOMAIN t : \E n \in Imports[t[f]] : \E i \in DOMAIN Cand(n, f, m) :
         /\ x \in MissedBefore(Cand(n, f, m), i)
         /\ Cand(n, f, m)[i] \in DOMAIN t
         /\ MissedBefore(Cand(n, f, m), i) \subseteq M
  BY DEF Tight
<1>1a. PICK n \in Imports[t[f]] : \E i \in DOMAIN Cand(n, f, m) :
         /\ x \in MissedBefore(Cand(n, f, m), i)
         /\ Cand(n, f, m)[i] \in DOMAIN t
         /\ MissedBefore(Cand(n, f, m), i) \subseteq M
  BY <1>1
<1> DEFINE c == Cand(n, f, m)
<1>2. PICK i \in DOMAIN c :
         x \in MissedBefore(c, i) /\ c[i] \in DOMAIN t /\ MissedBefore(c, i) \subseteq M
  BY <1>1a
<1>3. f \in Path /\ n \in Module /\ gs[f] = t[f] /\ Exists(gs, f)
  <2>1. f \in Path /\ t[f] \in Text
    BY DEF Evidence
  <2>2. t[f] # None /\ n \in Module
    BY <2>1, SigAssumption
  <2> QED BY <2>1, <2>2 DEF Exists
<1>4. c \in Seq(Place)
  BY <1>3, CandType
<1>5. PICK k \in 1 .. i - 1 : c[k] = x
  BY <1>2 DEF MissedBefore
<1>6. DOMAIN c = 1 .. Len(c) /\ Len(c) \in Nat
  BY <1>4
<1>7. k \in DOMAIN c /\ i \in Nat
  BY <1>2, <1>5, <1>6
<1>8. PICK h \in 1 .. k : h \in DOMAIN c /\ IsHit(gs, c, h)
  <2> HIDE DEF c
  <2> QED BY <1>4, <1>5, <1>7, FirstHit
<1>9. c[h] \in M
  <2>1. h \in 1 .. i - 1
    BY <1>5, <1>7, <1>8
  <2> QED BY <1>2, <2>1 DEF MissedBefore
<1>10. c[h] \in ReachedIn(gs, s, m)
  <2>1. c[h] \in Path
    BY <1>8 DEF IsHit, Exists
  <2>2. ASSUME NEW C \in SUBSET Path, ClosedIn(gs, s, m, C) PROVE c[h] \in C
    <3>1. f \in C
      BY <2>2 DEF ReachedIn
    <3>2. n \in Imports[gs[f]]
      BY <1>3
    <3> QED BY <1>3, <1>8, <2>2, <3>1, <3>2 DEF ClosedIn
  <2> QED BY <2>1, <2>2 DEF ReachedIn
<1> QED BY <1>9, <1>10 DEF Holds

(* Vouches, with the rest of what the fast path asks.                      *)
Vouched(j) ==
  LET g == sig[j.src] IN
  /\ output[j.out] # None /\ written[j.out] >= stamp[j.src]
  /\ g # None /\ g.text = files[j.src]
  /\ \A x \in DOMAIN g.imports : files[x] = g.imports[x]
  /\ \A x \in g.misses : ~Exists(files, x)
  /\ j.out \in DOMAIN g.outputs
  /\ g.outputs[j.out].mode = j.mode /\ output[j.out] = g.outputs[j.out].ir

LEMMA SettledAreVouched ==
  /\ SettledSkips => \A j \in settled : Vouched(j)
  /\ (\A j \in settled' : Vouched(j)') => SettledSkips'
<1>1. SettledSkips => \A j \in settled : Vouched(j)
  BY DEF SettledSkips, Vouched, Vouches, Newer, ImportsHold, MissesHold, HasEntry
<1>2. ASSUME \A j \in settled' : Vouched(j)' PROVE SettledSkips'
  BY <1>2 DEF SettledSkips, Vouched, Vouches, Newer, ImportsHold, MissesHold, HasEntry
<1> QED BY <1>1, <1>2

(* What a settled entry is evidence of.                                    *)
LEMMA SettledHolds ==
  ASSUME IInv, SInv, NEW j \in settled
  PROVE  LET s == j.src
             g == sig[s]
             t == Whole(s, g)
         IN /\ j \in Job /\ s \in Source /\ j.out \in Output /\ j.mode \in Mode
            /\ Vouched(j) /\ IsSignature(g) /\ s \notin DOMAIN g.imports
            /\ DOMAIN t = {s} \cup DOMAIN g.imports /\ t \in [DOMAIN t -> Text]
            /\ Evidence(s, j.mode, t, g.misses) /\ Tight(j.mode, t, g.misses)
            /\ Holds(files, t, g.misses)
<1> DEFINE s == j.src
           g == sig[s]
           t == Whole(s, g)
<1>1. j \in Job /\ s \in Source /\ j.out \in Output /\ j.mode \in Mode
  BY DEF IInv, TypeOK, Job
<1>2. Vouched(j)
  BY SettledAreVouched DEF SInv
<1>3. g # None /\ j.out \in DOMAIN g.outputs /\ g.outputs[j.out].mode = j.mode
  BY <1>2 DEF Vouched
<1>4. IsSignature(g) /\ s \notin DOMAIN g.imports
  BY <1>1, <1>3 DEF IInv, TypeOK, DiskOK, GoodSig
<1>5. Evidence(s, j.mode, t, g.misses)
  BY <1>1, <1>3 DEF IInv, GoodSig, GoodEntry
<1>6. Tight(j.mode, t, g.misses)
  BY <1>1, <1>3 DEF SInv, TightSig
<1>7. g.text = files[s] /\ ImportsHold(g) /\ MissesHold(g)
  BY <1>2 DEF Vouched, ImportsHold, MissesHold
<1>8. DOMAIN t = {s} \cup DOMAIN g.imports /\ t \in [DOMAIN t -> Text] /\ Holds(files, t, g.misses)
  BY <1>1, <1>4, <1>7, VouchedHolds DEF IInv
<1> QED BY <1>1, <1>2, <1>4, <1>5, <1>6, <1>8

(* A compile that takes no step spares what it did.                        *)
LEMMA SparesFrame ==
  ASSUME IInv, SInv, NEW q \in Proc, Untouched(q), OnlyNewer, written' \in [Output -> Nat],
         \A j \in settled' : j.src = job[q].src /\ ~Idle(q) =>
           j \in settled /\ sig'[j.src] = sig[j.src]
  PROVE  Spares(q)'
<1>1. Spares(q)
  BY DEF SInv
<1>2. pc[q] \in Compiling => Tight(job[q].mode, read[q], missed[q])'
  BY <1>1 DEF Spares, Untouched
<1>3. ASSUME pc[q] \in {"emit", "write", "save"}
      PROVE  /\ TightSig(job[q].src, seen[q])'
             /\ (\E j \in settled' : j.src = job'[q].src) => seen'[q] = sig'[job'[q].src]
  BY <1>1, <1>3 DEF Spares, Untouched, Idle, TightSig
<1>4. ASSUME pc[q] \in {"write", "save"}
      PROVE  /\ written'[job'[q].out] >= stamp'[job'[q].src]
             /\ \A j \in settled' : ~(j.src = job'[q].src /\ j.out = job'[q].out)
  <2>1. ~Idle(q) /\ written[job[q].out] >= stamp[job[q].src]
    BY <1>1, <1>4 DEF Spares, Idle
  <2>2. job[q].src \in Source /\ job[q].out \in Output
    BY <2>1, JobType
  <2>3. written[job[q].out] \in Nat /\ stamp[job[q].src] \in Nat /\ written'[job[q].out] \in Nat
    BY <2>2 DEF IInv, TypeOK, TreeOK, DiskOK
  <2>4. written'[job[q].out] >= stamp'[job[q].src]
    BY <2>1, <2>2, <2>3 DEF OnlyNewer
  <2> QED BY <1>1, <1>4, <2>1, <2>4 DEF Spares, Untouched
<1> QED BY <1>2, <1>3, <1>4 DEF Spares, Untouched

LEMMA TogetherSpares ==
  ASSUME IInv, SInv, NEW p \in Proc, Step(p), OnlyNewer, written' \in [Output -> Nat],
         \A j \in settled' : Vouched(j)',
         \A s \in Source : TightSig(s, sig'[s]), Spares(p)',
         \A q \in Proc \ {p} : \A j \in settled' : j.src = job[q].src /\ ~Idle(q) =>
           j \in settled /\ sig'[j.src] = sig[j.src]
  PROVE  SInv'
<1>1. \A q \in Proc : Spares(q)'
  BY OthersUntouched, SparesFrame
<1>2. SettledSkips'
  BY SettledAreVouched
<1>3. \A s \in Source : TightSig(s, sig[s])'
  BY DEF TightSig
<1> QED BY <1>1, <1>2, <1>3 DEF SInv

(* Steps that leave the disk alone.                                        *)
LEMMA TogetherSparesQuiet ==
  ASSUME IInv, SInv, NEW p \in Proc, Step(p), UNCHANGED <<tree, disk, settled>>, Spares(p)'
  PROVE  SInv'
<1>1. OnlyNewer /\ written' \in [Output -> Nat]
  BY DEF IInv, TypeOK, TreeOK, DiskOK, OnlyNewer, tree, disk
<1>2. \A j \in settled' : Vouched(j)'
  <2>1. \A j \in settled : Vouched(j)
    BY SettledAreVouched DEF SInv
  <2> QED BY <2>1 DEF Vouched, tree, disk, Exists
<1>3. \A s \in Source : TightSig(s, sig'[s])
  BY DEF SInv, disk
<1>4. \A q \in Proc \ {p} : \A j \in settled' : j.src = job[q].src /\ ~Idle(q) =>
        j \in settled /\ sig'[j.src] = sig[j.src]
  BY DEF disk
<1> QED BY <1>1, <1>2, <1>3, <1>4, TogetherSpares

LEMMA QuietSpares ==
  ASSUME IInv, SInv, NEW p \in Proc, Step(p),
         \/ \E j \in Invocations : Begin(p, j)
         \/ ReadPrior(p) \/ CheckSource(p) \/ Skip(p) \/ Decline(p) \/ Fail(p) \/ Kill(p)
  PROVE  SInv'
<1>1. UNCHANGED <<tree, disk, settled>>
  BY DEF Begin, ReadPrior, CheckSource, Skip, Decline, Fail, Kill
<1>2. pc'[p] \notin Resolved /\ (pc'[p] = "resolve" => missed'[p] = {})
  <2>1. pc[p] \notin Compiling => missed[p] = {}
    BY DEF IInv, Knows
  <2>2. CASE \E j \in Invocations : Begin(p, j)
    BY <2>1, <2>2 DEF Begin, Goto, StartResolve, Compiling, Resolved, IInv, TypeOK, LocalsOK, Idle
  <2>3. CASE ReadPrior(p) \/ CheckSource(p) \/ Decline(p)
    BY <2>1, <2>3 DEF ReadPrior, CheckSource, Decline, Goto, StartResolve, Compiling, Resolved,
                      IInv, TypeOK, LocalsOK
  <2>4. CASE Skip(p) \/ Fail(p) \/ Kill(p)
    BY <2>4 DEF Skip, Fail, Kill, End, Resolved, IInv, TypeOK, LocalsOK
  <2> QED BY <2>2, <2>3, <2>4
<1>3. Spares(p)'
  BY <1>2 DEF Spares, Compiling, Resolved, Tight
<1> QED BY <1>1, <1>3, TogetherSparesQuiet

(* What is missed is found missing in a place before the hit.              *)
LEMMA ResolveSpares ==
  ASSUME Careful, IInv, SInv, NEW p \in Proc, Step(p), ResolveImport(p)
  PROVE  SInv'
<1> DEFINE s == job[p].src
           m == job[p].mode
<1>1. pc[p] = "resolve" /\ ~Idle(p) /\ UNCHANGED <<tree, disk, pc, job, settled>>
  BY DEF ResolveImport, Idle
<1>2. s \in Source /\ m \in Mode
  BY <1>1, JobType
<1>3. Partly(files, s, m, read[p], missed[p], todo[p]) /\ Tight(m, read[p], missed[p])
  BY <1>1 DEF IInv, Knows, Compiling, SInv, Spares
<1> DEFINE Leading(c, i) ==
      /\ missed' = [missed EXCEPT ![p] = @ \cup MissedBefore(c, i)]
      /\ IF c[i] \in DOMAIN read[p] THEN read' = read
         ELSE read' = [read EXCEPT ![p] =
                [x \in DOMAIN read[p] \cup {c[i]} |->
                   IF x = c[i] THEN files[x] ELSE read[p][x]]]
<1>4. PICK t \in todo[p] :
        \E i \in DOMAIN Candidates(t[1], t[2], s, m) : Leading(Candidates(t[1], t[2], s, m), i)
  BY DEF ResolveImport
<1> DEFINE c == Cand(t[1], t[2], m)
<1>5. c = Candidates(t[1], t[2], s, m)
  BY <1>2, CandIsCandidates
<1> HIDE DEF c, Leading
<1>6. PICK i \in DOMAIN c : Leading(c, i)
  BY <1>4, <1>5
<1> USE DEF Leading
<1> DEFINE B == MissedBefore(c, i)
<1>7. /\ missed = [q \in Proc |-> missed[q]] /\ read = [q \in Proc |-> read[q]]
      /\ read[p] = [x \in DOMAIN read[p] |-> read[p][x]]
  BY DEF IInv, TypeOK, LocalsOK, CompileOK, IsPartial
<1>8. missed'[p] = missed[p] \cup B
  BY <1>6, <1>7
<1>9. /\ DOMAIN read[p] \subseteq DOMAIN read'[p] /\ c[i] \in DOMAIN read'[p]
      /\ \A x \in DOMAIN read[p] : read'[p][x] = read[p][x]
  BY <1>6, <1>7
<1>10. t[2] \in DOMAIN read[p] /\ t[1] \in Imports[read[p][t[2]]]
  BY <1>3 DEF Partly
<1>11. Tight(m, read'[p], missed'[p])
  <2>1. ASSUME NEW x \in missed[p]
        PROVE  \E f \in DOMAIN read'[p] : \E n \in Imports[read'[p][f]] :
                 \E k \in DOMAIN Cand(n, f, m) :
                   /\ x \in MissedBefore(Cand(n, f, m), k)
                   /\ Cand(n, f, m)[k] \in DOMAIN read'[p]
                   /\ MissedBefore(Cand(n, f, m), k) \subseteq missed'[p]
    <3>1. PICK f \in DOMAIN read[p] : \E n \in Imports[read[p][f]] :
                 \E k \in DOMAIN Cand(n, f, m) :
                   /\ x \in MissedBefore(Cand(n, f, m), k)
                   /\ Cand(n, f, m)[k] \in DOMAIN read[p]
                   /\ MissedBefore(Cand(n, f, m), k) \subseteq missed[p]
      BY <1>3 DEF Tight
    <3> QED BY <1>8, <1>9, <3>1
  <2>2. ASSUME NEW x \in B
        PROVE  \E f \in DOMAIN read'[p] : \E n \in Imports[read'[p][f]] :
                 \E k \in DOMAIN Cand(n, f, m) :
                   /\ x \in MissedBefore(Cand(n, f, m), k)
                   /\ Cand(n, f, m)[k] \in DOMAIN read'[p]
                   /\ MissedBefore(Cand(n, f, m), k) \subseteq missed'[p]
    <3>1. t[2] \in DOMAIN read'[p] /\ t[1] \in Imports[read'[p][t[2]]]
      BY <1>9, <1>10
    <3>2. i \in DOMAIN c /\ x \in MissedBefore(c, i) /\ c[i] \in DOMAIN read'[p]
          /\ MissedBefore(c, i) \subseteq missed'[p]
      BY <1>8, <1>9
    <3> QED BY <3>1, <3>2 DEF c
  <2> QED BY <1>8, <2>1, <2>2 DEF Tight
<1>12. Spares(p)'
  BY <1>1, <1>11 DEF Spares
<1> QED BY <1>1, <1>12, TogetherSparesQuiet

LEMMA HashSpares ==
  ASSUME IInv, SInv, NEW p \in Proc, Step(p), HashImports(p)
  PROVE  SInv'
<1>1. /\ UNCHANGED <<tree, disk, job, read, missed, settled>>
      /\ pc[p] = "resolve" /\ pc'[p] = "check"
  BY DEF HashImports, IInv, TypeOK, LocalsOK
<1>2. Tight(job[p].mode, read[p], missed[p])
  BY <1>1 DEF SInv, Spares, Compiling
<1>3. Spares(p)'
  BY <1>1, <1>2 DEF Spares
<1> QED BY <1>1, <1>3, TogetherSparesQuiet

(* Nothing is settled of a source whose signature goes.                    *)
LEMMA InvalidateSpares ==
  ASSUME IInv, SInv, NEW p \in Proc, Step(p), Invalidate(p)
  PROVE  SInv'
<1> DEFINE s == job[p].src
<1>1. pc[p] = "check" /\ ~Idle(p) /\ UNCHANGED <<tree, output, written, job, read, missed>>
  BY DEF Invalidate, Goto, Idle
<1>2. s \in Source
  BY <1>1, JobType
<1>3. pc'[p] = "emit" /\ seen'[p] = sig[s]
  BY DEF Invalidate, Goto, IInv, TypeOK, LocalsOK
<1>4. PICK gone : /\ sig' = [t \in Source |-> IF t \in gone THEN None ELSE sig[t]]
                  /\ settled' = {j \in settled : j.src \notin gone}
  BY DEF Invalidate
<1>5. \A j \in settled' : j \in settled /\ j.src \in Source /\ sig'[j.src] = sig[j.src]
  BY <1>4, SettledHolds
<1>6. \A j \in settled' : Vouched(j)'
  <2>1. \A j \in settled : Vouched(j)
    BY SettledAreVouched DEF SInv
  <2> QED BY <1>1, <1>5, <2>1 DEF Vouched, tree, Exists
<1>7. \A t \in Source : TightSig(t, sig'[t])
  BY <1>4 DEF SInv, TightSig
<1>8. Spares(p)'
  <2>1. Tight(job[p].mode, read[p], missed[p])
    BY <1>1 DEF SInv, Spares, Compiling, Resolved
  <2>2. TightSig(s, sig[s])
    BY <1>2 DEF SInv
  <2> QED BY <1>1, <1>3, <1>5, <2>1, <2>2 DEF Spares, TightSig
<1>9. OnlyNewer /\ written' \in [Output -> Nat]
  BY <1>1 DEF IInv, TypeOK, TreeOK, DiskOK, OnlyNewer, tree
<1> QED BY <1>5, <1>6, <1>7, <1>8, <1>9, TogetherSpares

(* Nor is anything at an output that is being written.                     *)
LEMMA PutSpares ==
  ASSUME IInv, SInv, NEW p \in Proc, Step(p), Truncate(p) \/ Write(p)
  PROVE  SInv'
<1> DEFINE s == job[p].src
           o == job[p].out
<1>1. /\ pc[p] \in {"emit", "write"} /\ ~Idle(p) /\ UNCHANGED <<tree, sig, job, read, seen, missed>>
      /\ \E text : output' = [output EXCEPT ![o] = text]
      /\ written' = [written EXCEPT ![o] = edits]
      /\ settled' = {j \in settled : j.out # o}
  BY DEF Truncate, Write, Goto, Idle
<1>2. pc'[p] \in {"write", "save"}
  BY DEF Truncate, Write, Goto, IInv, TypeOK, LocalsOK
<1>3. s \in Source /\ o \in Output
  BY <1>1, JobType
<1>4. /\ edits \in Nat /\ written \in [Output -> 0 .. edits] /\ stamp \in [Source -> 0 .. edits]
      /\ output = [r \in Output |-> output[r]]
  BY DEF IInv, TypeOK, TreeOK, DiskOK
<1>5. /\ \A r \in Output \ {o} : output'[r] = output[r] /\ written'[r] = written[r]
      /\ written'[o] = edits /\ written' \in [Output -> Nat]
  BY <1>1, <1>3, <1>4
<1>6. OnlyNewer
  BY <1>1, <1>4, <1>5 DEF OnlyNewer, tree
<1>7. \A j \in settled' : j \in settled /\ j.out # o /\ j.out \in Output /\ Vouched(j)
  BY <1>1, SettledHolds
<1>8. \A j \in settled' : Vouched(j)'
  BY <1>1, <1>5, <1>7 DEF Vouched, tree, Exists
<1>9. Spares(p)'
  <2>1. written'[o] >= stamp[s]
    BY <1>3, <1>4, <1>5
  <2>2. Spares(p)
    BY DEF SInv
  <2>3. pc[p] \in Compiling /\ pc'[p] \in Compiling
    BY <1>1, <1>2 DEF Compiling, Resolved
  <2> QED BY <1>1, <1>2, <1>7, <2>1, <2>2, <2>3 DEF Spares, tree, TightSig
<1>10. \A t \in Source : TightSig(t, sig'[t])
  BY <1>1 DEF SInv
<1> QED BY <1>1, <1>5, <1>6, <1>7, <1>8, <1>9, <1>10, TogetherSpares

(* What was settled of the source p saves, with the same roots, is kept:   *)
(* what p has read and missed is what its entry records.                   *)
LEMMA SettledIsKept ==
  ASSUME Careful, IInv, SInv, NEW p \in Proc, Save(p),
         NEW j \in settled, j.src = job[p].src, SameRoots(j.mode, job[p].mode)
  PROVE  /\ seen[p] = sig[j.src] /\ j.out # job[p].out
         /\ j.out \in Kept(seen[p], p)
<1> DEFINE s == job[p].src
           m == job[p].mode
           g == sig[s]
           t == Whole(s, g)
<1>1. pc[p] = "save" /\ ~Idle(p)
  BY DEF Save, Idle
<1>2. seen[p] = g /\ j.out # job[p].out /\ Tight(m, read[p], missed[p])
  BY <1>1 DEF SInv, Spares, Compiling, Resolved
<1>3. s \in Source /\ m \in Mode
  BY <1>1, JobType
<1>4. /\ j.mode \in Mode /\ Vouched(j) /\ s \notin DOMAIN g.imports
      /\ DOMAIN t = {s} \cup DOMAIN g.imports /\ t \in [DOMAIN t -> Text] /\ IsSignature(g)
      /\ Evidence(s, j.mode, t, g.misses) /\ Tight(j.mode, t, g.misses)
      /\ Holds(files, t, g.misses)
  BY SettledHolds
<1>5. /\ hashes[p] = [x \in DOMAIN read[p] \ {s} |-> read[p][x]]
      /\ read[p] \in [DOMAIN read[p] -> Text]
      /\ Evidence(s, m, read[p], missed[p]) /\ Holds(files, read[p], missed[p])
      /\ read[p][s] = job[p].text /\ s \in DOMAIN read[p]
  BY SavedShape
<1>6. Evidence(s, m, t, g.misses) /\ Tight(m, t, g.misses)
  BY <1>3, <1>4, SameCand
<1> HIDE DEF t
<1>7. DOMAIN read[p] = DOMAIN t
  BY <1>3, <1>4, <1>5, <1>6, EvidenceHolds
<1>8. missed[p] = g.misses
  <2>1. /\ t \in [DOMAIN t -> Text] /\ Evidence(s, m, t, g.misses) /\ Tight(m, t, g.misses)
        /\ Holds(files, t, g.misses)
    BY <1>4, <1>6
  <2>2. /\ read[p] \in [DOMAIN read[p] -> Text] /\ Evidence(s, m, read[p], missed[p])
        /\ Tight(m, read[p], missed[p]) /\ Holds(files, read[p], missed[p])
    BY <1>2, <1>5
  <2>3. missed[p] \subseteq g.misses
    BY <1>3, <1>7, <2>1, <2>2, SameMisses
  <2>4. g.misses \subseteq missed[p]
    BY <1>3, <1>7, <2>1, <2>2, SameMisses
  <2> QED BY <2>3, <2>4
<1>9. hashes[p] = g.imports
  <2>1. DOMAIN read[p] \ {s} = DOMAIN g.imports
    BY <1>4, <1>7
  <2>2. \A x \in DOMAIN g.imports : read[p][x] = g.imports[x]
    BY <1>4, <1>5, <2>1 DEF Vouched, Holds
  <2>3. g.imports = [x \in DOMAIN g.imports |-> g.imports[x]]
    BY <1>4 DEF IsSignature, IsPartial
  <2> QED BY <1>5, <2>1, <2>2, <2>3
<1>10. g # None /\ g.text = job[p].text /\ j.out \in DOMAIN g.outputs /\ output[j.out] # None
  BY <1>4, <1>5 DEF Vouched, Holds
<1> QED BY <1>2, <1>8, <1>9, <1>10 DEF Kept

(* What is saved is a signature and not None.                              *)
LEMMA SavedIsSome ==
  ASSUME Careful, IInv, SInv, NEW p \in Proc, Save(p)
  PROVE  sig'[job[p].src] # None
<1> DEFINE s == job[p].src
           m == job[p].mode
           own == job[p].out
           g == sig'[s]
           D == DOMAIN hashes[p]
           E == Kept(seen[p], p) \cup {own}
           IR == [source : Source, mode : Mode, text : Text, read : [D -> Text]]
<1>1. pc[p] = "save" /\ ~Idle(p)
  BY DEF Save, Idle
<1>2. s \in Source /\ m \in Mode /\ own \in Output /\ job[p].text \in Text
  BY <1>1, JobType
<1>3. /\ IsPartial(hashes[p], Path, Text) /\ missed[p] \subseteq Place
      /\ seen[p] = None \/ IsSignature(seen[p])
      /\ GoodSig(s, seen[p]) /\ TightSig(s, seen[p])
  BY <1>1 DEF IInv, TypeOK, CompileOK, Knows, SInv, Spares
<1>4. /\ hashes[p] = [x \in DOMAIN read[p] \ {s} |-> read[p][x]]
      /\ g.text = job[p].text /\ g.imports = hashes[p]
  BY SavedShape
<1>5. /\ D \subseteq Path /\ E \subseteq Output /\ hashes[p] \in [D -> Text]
      /\ \A o \in E \ {own} : /\ seen[p] # None /\ o \in DOMAIN seen[p].outputs
                             /\ seen[p].text = job[p].text /\ seen[p].imports = hashes[p]
  BY <1>2, <1>3 DEF Kept, IsPartial, IsSignature
<1>6. \A k \in Mode : Compiled(s, k, job[p].text, hashes[p]) \in IR
  BY <1>2, <1>5 DEF Compiled
<1>7. Emitted(p) = Compiled(s, m, job[p].text, hashes[p])
  BY <1>4 DEF Emitted
<1>8. ASSUME NEW o \in E \ {own}
      PROVE  seen[p].outputs[o] \in [mode : Mode, ir : IR]
  <2>1. seen[p] # None /\ o \in DOMAIN seen[p].outputs /\ IsSignature(seen[p])
    BY <1>3, <1>5
  <2>2. seen[p].outputs[o] = [mode |-> seen[p].outputs[o].mode, ir |-> seen[p].outputs[o].ir]
    BY <1>3, <2>1 DEF TightSig
  <2>3. seen[p].outputs[o].mode \in Mode
    BY <2>1 DEF IsSignature
  <2>4. seen[p].outputs[o].ir = Compiled(s, seen[p].outputs[o].mode, job[p].text, hashes[p])
    BY <1>3, <1>5, <2>1 DEF GoodSig, GoodEntry
  <2>5. seen[p].outputs[o].ir \in IR
    BY <1>6, <2>3, <2>4
  <2> HIDE DEF IR
  <2> QED BY <2>2, <2>3, <2>5
<1>9. g = [text |-> job[p].text, imports |-> hashes[p], misses |-> missed[p],
           outputs |-> [o \in E |->
             IF o = own THEN [mode |-> m, ir |-> Emitted(p)] ELSE seen[p].outputs[o]]]
  BY <1>2 DEF Save, IInv, TypeOK, DiskOK
<1>10. [mode |-> m, ir |-> Emitted(p)] \in [mode : Mode, ir : IR]
  BY <1>2, <1>6, <1>7
<1> HIDE DEF g, E, IR
<1>11. [o \in E |-> IF o = own THEN [mode |-> m, ir |-> Emitted(p)] ELSE seen[p].outputs[o]]
         \in [E -> [mode : Mode, ir : IR]]
  BY <1>8, <1>10
<1>12. g \in [text : Text, imports : [D -> Text], misses : SUBSET (Dir \X Module),
              outputs : [E -> [mode : Mode, ir : IR]]]
  BY <1>2, <1>3, <1>5, <1>9, <1>11 DEF Place
<1> QED BY <1>5, <1>12, SignatureAssumption DEF IR, g

LEMMA SaveSpares ==
  ASSUME Careful, IInv, SInv, NEW p \in Proc, Step(p), Save(p)
  PROVE  SInv'
<1> DEFINE s == job[p].src
           m == job[p].mode
           own == job[p].out
           job_own == [src |-> s, out |-> own, mode |-> m]
           g == sig'[s]
           alone == \A q \in Proc \ {p} : Idle(q) \/ job[q].src # s
<1>1. /\ pc[p] = "save" /\ ~Idle(p) /\ pc'[p] = "idle"
      /\ UNCHANGED <<tree, output, written>>
  BY DEF Save, Idle, End, IInv, TypeOK, LocalsOK
<1>2. \A t \in Source \ {s} : sig'[t] = sig[t]
  <2>1. sig = [t \in Source |-> sig[t]]
    BY DEF IInv, TypeOK, DiskOK
  <2>2. PICK h : sig' = [sig EXCEPT ![s] = h]
    BY DEF Save
  <2> QED BY <2>1, <2>2
<1>3. /\ g.text = job[p].text /\ g.imports = hashes[p] /\ g.misses = missed[p]
      /\ DOMAIN g.outputs = Kept(seen[p], p) \cup {own}
      /\ g.outputs[own] = [mode |-> m, ir |-> Emitted(p)]
      /\ g.outputs[own].mode = m /\ g.outputs[own].ir = Emitted(p)
      /\ \A o \in Kept(seen[p], p) \ {own} : g.outputs[o] = seen[p].outputs[o]
      /\ hashes[p] = [x \in DOMAIN read[p] \ {s} |-> read[p][x]]
      /\ Holds(files, read[p], missed[p])
      /\ read[p][s] = job[p].text /\ s \in DOMAIN read[p]
  BY SavedShape
<1>4. Whole(s, g) = read[p]
  BY SavedShape
<1>5. Spares(p)
  BY DEF SInv
<1>6. IsSignature(g) /\ g # None
  <2>1. IsSignature(g)
    BY SavedIsGood
  <2>2. g # None
    BY SavedIsSome
  <2> QED BY <2>1, <2>2
<1> HIDE DEF g
<1>7. TightSig(s, g)
  <2>1. Tight(m, Whole(s, g), g.misses)
    BY <1>1, <1>3, <1>4, <1>5 DEF Spares, Compiling, Resolved
  <2>2. ASSUME NEW o \in Kept(seen[p], p) \ {own}
        PROVE  /\ Tight(g.outputs[o].mode, Whole(s, g), g.misses)
               /\ g.outputs[o] = [mode |-> g.outputs[o].mode, ir |-> g.outputs[o].ir]
    <3>1. /\ seen[p] # None /\ seen[p].text = g.text /\ seen[p].imports = g.imports
          /\ seen[p].misses = g.misses /\ o \in DOMAIN seen[p].outputs
      BY <1>3, <2>2 DEF Kept
    <3>2. Whole(s, seen[p]) = Whole(s, g)
      BY <3>1 DEF Whole
    <3>3. TightSig(s, seen[p])
      BY <1>1, <1>5 DEF Spares
    <3> QED BY <1>3, <3>1, <3>2, <3>3 DEF TightSig
  <2> QED BY <1>3, <2>1, <2>2 DEF TightSig
<1>8. ASSUME NEW j \in settled'
      PROVE  \/ j \in settled /\ j.src # s
             \/ /\ alone /\ j.src = s
                /\ \/ j \in settled /\ SameRoots(j.mode, m)
                   \/ j = job_own /\ output[own] = Emitted(p)
  <2>1. j \in SettledAfter(p)
    BY <1>8 DEF Save
  <2>2. CASE j \in settled /\ j.src # s
    BY <2>2
  <2>3. CASE alone /\ j \in settled /\ SameRoots(j.mode, m)
    BY <2>3
  <2>4. CASE alone /\ j = job_own /\ output[own] = Emitted(p)
    BY <2>4
  <2> QED BY <2>1, <2>2, <2>3, <2>4 DEF SettledAfter
<1>9. g.text = files[s] /\ \A x \in DOMAIN g.imports : files[x] = g.imports[x]
  BY <1>3 DEF Holds
<1>10. \A x \in g.misses : ~Exists(files, x)
  BY <1>3 DEF Holds
<1>11. ASSUME NEW j \in settled' PROVE Vouched(j)'
  <2>1. CASE j \in settled /\ j.src # s
    <3>1. Vouched(j) /\ sig'[j.src] = sig[j.src]
      BY <1>2, <2>1, SettledHolds
    <3> QED BY <1>1, <3>1 DEF Vouched, tree, Exists
  <2>2. CASE j \in settled /\ j.src = s /\ SameRoots(j.mode, m)
    <3>0. seen[p] = sig[s] /\ j.out # own /\ j.out \in Kept(seen[p], p)
      <4>1. j \in settled /\ j.src = job[p].src /\ SameRoots(j.mode, job[p].mode)
        BY <2>2
      <4>2. seen[p] = sig[j.src] /\ j.out # job[p].out /\ j.out \in Kept(seen[p], p)
        BY <4>1, SettledIsKept
      <4> QED BY <4>2, <2>2
    <3>1. seen[p] = sig[s] /\ j.out # own /\ j.out \in Kept(seen[p], p) /\ Vouched(j)
      BY <2>2, <3>0, SettledHolds
    <3>2. j.out \in DOMAIN g.outputs /\ g.outputs[j.out] = sig[s].outputs[j.out]
      BY <1>3, <3>1
    <3>3. /\ output[j.out] # None /\ written[j.out] >= stamp[j.src]
          /\ sig[s].outputs[j.out].mode = j.mode /\ output[j.out] = sig[s].outputs[j.out].ir
      BY <2>2, <3>1 DEF Vouched
    <3> QED BY <1>1, <1>6, <1>9, <1>10, <2>2, <3>2, <3>3 DEF Vouched, tree, Exists, g
  <2>3. CASE j = job_own /\ output[own] = Emitted(p)
    <3>1. output[own] # None
      BY <1>1, <2>3, EmittedType, NoneIsNoCompilation
    <3>2. written[own] >= stamp[s]
      BY <1>1, <1>5 DEF Spares
    <3>3. j.src = s /\ j.out = own /\ j.mode = m
      BY <2>3
    <3> QED BY <1>1, <1>3, <1>6, <1>9, <1>10, <2>3, <3>1, <3>2, <3>3
            DEF Vouched, tree, Exists, g
  <2> QED BY <1>8, <1>11, <2>1, <2>2, <2>3
<1>12. ASSUME NEW q \in Proc \ {p}, NEW j \in settled', j.src = job[q].src, ~Idle(q)
       PROVE  j \in settled /\ sig'[j.src] = sig[j.src]
  <2>1. j \in settled /\ j.src # s
    BY <1>8, <1>12
  <2> QED BY <1>2, <2>1, SettledHolds
<1>13. \A t \in Source : TightSig(t, sig'[t])
  BY <1>2, <1>7 DEF SInv, g
<1>14. OnlyNewer /\ written' \in [Output -> Nat]
  BY <1>1 DEF IInv, TypeOK, TreeOK, DiskOK, OnlyNewer, tree
<1>15. Spares(p)'
  BY <1>1 DEF Spares, Compiling, Resolved
<1> QED BY <1>11, <1>12, <1>13, <1>14, <1>15, TogetherSpares

(* What builds the same is read the same.                                  *)
LEMMA StillRead ==
  ASSUME Careful, NEW s \in Source, NEW m \in Mode, NEW t, t \in [DOMAIN t -> Text], NEW M,
         Evidence(s, m, t, M), Holds(files, t, M),
         Build(files, s, m)' = Build(files, s, m)
  PROVE  /\ ReachedIn(files', s, m) = DOMAIN t
         /\ \A x \in DOMAIN t : files'[x] = t[x]
<1> DEFINE R == Reached(files, s, m)
           Q == ReachedIn(files', s, m)
<1>1. Reached(files, s, m)' = Q
  <2>1. \A n, f : Candidates(n, f, s, m)' = Cand(n, f, m)
    BY DEF Careful, Candidates, Cand, ProjectRoot
  <2>2. \A C : Closed(files, s, m, C)' <=> ClosedIn(files', s, m, C)
    BY <2>1 DEF Closed, ClosedIn
  <2> QED BY <2>2 DEF Reached, ReachedIn
<1>2. R = DOMAIN t
  BY EvidenceHolds
<1>3. /\ files'[s] = files[s]
      /\ [x \in Q \ {s} |-> files'[x]] = [x \in R \ {s} |-> files[x]]
  <2> HIDE DEF Q, R
  <2>1. Compiled(s, m, files'[s], [x \in Q \ {s} |-> files'[x]])
          = Compiled(s, m, files[s], [x \in R \ {s} |-> files[x]])
    BY <1>1 DEF Build, Compiled, R
  <2>2. \A text, imports : /\ Compiled(s, m, text, imports).text = text
                           /\ Compiled(s, m, text, imports).read = imports
    BY DEF Compiled
  <2> QED BY <2>1, <2>2
<1>4. s \in R /\ s \in Q
  <2>1. s \in Path
    BY SigAssumption
  <2> QED BY <1>2, <2>1 DEF Evidence, ReachedIn, ClosedIn
<1> HIDE DEF R, Q
<1>5. Q \ {s} = R \ {s} /\ \A x \in Q \ {s} : files'[x] = files[x]
  BY <1>3
<1> QED BY <1>2, <1>3, <1>4, <1>5 DEF Holds, Q

(* The user settles nothing, and what stays settled stays vouched for.     *)
LEMMA UserVouches ==
  ASSUME Careful, IInv, SInv,
         (\E x \in Path : Edit(x)) \/ (\E d \in Rootable : Mark(d))
           \/ (\E o \in Output : RemoveOutput(o)),
         NEW j \in settled'
  PROVE  Vouched(j)'
<1> DEFINE s == j.src
           g == sig[s]
           t == Whole(s, g)
<1>1. j \in settled
  BY DEF Edit, Mark, RemoveOutput, StillSettled
<1>2. /\ s \in Source /\ j.out \in Output /\ j.mode \in Mode /\ Vouched(j)
      /\ DOMAIN t = {s} \cup DOMAIN g.imports /\ t \in [DOMAIN t -> Text]
      /\ Evidence(s, j.mode, t, g.misses) /\ Tight(j.mode, t, g.misses)
      /\ Holds(files, t, g.misses)
  BY <1>1, SettledHolds
<1>3. /\ sig' = sig /\ written' = written /\ stamp'[s] = stamp[s]
      /\ output'[j.out] = output[j.out]
  <2>1. stamp = [x \in Source |-> stamp[x]] /\ output = [o \in Output |-> output[o]]
    BY DEF IInv, TypeOK, TreeOK, DiskOK
  <2>2. CASE \E x \in Path : Edit(x)
    BY <1>2, <2>1, <2>2 DEF Edit, disk
  <2>3. CASE \E d \in Rootable : Mark(d)
    BY <2>3 DEF Mark, disk
  <2>4. CASE \E o \in Output : RemoveOutput(o)
    BY <1>2, <2>1, <2>4 DEF RemoveOutput
  <2> QED BY <2>2, <2>3, <2>4
<1>4. /\ \A x \in DOMAIN t : files'[x] = t[x]
      /\ \A x \in g.misses : ~Exists(files', x)
  <2>1. CASE (\E x \in Path : Edit(x)) \/ (\E d \in Rootable : Mark(d))
    <3>1. Build(files, s, j.mode)' = Build(files, s, j.mode)
      BY <2>1 DEF Edit, Mark, StillSettled
    <3> HIDE DEF t
    <3>2. ReachedIn(files', s, j.mode) = DOMAIN t /\ \A x \in DOMAIN t : files'[x] = t[x]
      BY <1>2, <3>1, StillRead
    <3>3. ASSUME NEW x \in g.misses, Exists(files', x) PROVE FALSE
      BY <1>2, <3>2, <3>3, StillMissing
    <3> QED BY <3>2, <3>3
  <2>2. CASE \E o \in Output : RemoveOutput(o)
    <3>1. files' = files
      BY <2>2 DEF RemoveOutput
    <3> QED BY <1>2, <3>1 DEF Holds
  <2> QED BY <2>1, <2>2
<1>5. t[s] = g.text /\ \A x \in DOMAIN g.imports : t[x] = g.imports[x]
  <2>1. s \notin DOMAIN g.imports
    BY <1>1, SettledHolds
  <2> QED BY <2>1 DEF Whole
<1>6. files'[s] = g.text /\ \A x \in DOMAIN g.imports : files'[x] = g.imports[x]
  BY <1>2, <1>4, <1>5
<1> QED BY <1>2, <1>3, <1>4, <1>6 DEF Vouched, Exists

LEMMA UserSpares ==
  ASSUME Careful, IInv, SInv,
         (\E x \in Path : Edit(x)) \/ (\E d \in Rootable : Mark(d))
           \/ (\E o \in Output : RemoveOutput(o))
  PROVE  SInv'
<1>1. /\ \A p \in Proc : Idle(p)
      /\ UNCHANGED <<sig, pc>>
  BY DEF Edit, Mark, RemoveOutput, MayEdit, Careful, disk
<1>2. SettledSkips'
  BY UserVouches, SettledAreVouched
<1>3. \A s \in Source : TightSig(s, sig[s])'
  BY <1>1 DEF SInv, TightSig
<1>4. \A p \in Proc : Spares(p)'
  BY <1>1 DEF Spares, Idle, Compiling, Resolved
<1> QED BY <1>2, <1>3, <1>4 DEF SInv

LEMMA NextSInv == ASSUME Careful, IInv, SInv, [Next]_vars PROVE SInv'
<1>1. ASSUME NEW p \in Proc, Step(p) PROVE SInv'
  BY <1>1, QuietSpares, ResolveSpares, HashSpares, InvalidateSpares, PutSpares, SaveSpares
     DEF Step
<1>2. CASE UNCHANGED vars
  <2>1. SettledSkips'
    <3>1. \A j \in settled : Vouched(j)
      BY SettledAreVouched DEF SInv
    <3>2. \A j \in settled' : Vouched(j)'
      BY <1>2, <3>1 DEF vars, tree, disk, Vouched, Exists
    <3> QED BY <3>2, SettledAreVouched
  <2>2. \A s \in Source : TightSig(s, sig[s])'
    BY <1>2 DEF vars, disk, SInv, TightSig
  <2>3. \A p \in Proc : Spares(p)'
    BY <1>2 DEF vars, tree, disk, locals, SInv, Spares, TightSig
  <2> QED BY <2>1, <2>2, <2>3 DEF SInv
<1> QED BY <1>1, <1>2, UserSpares DEF Next

LEMMA InitSInv == Init => SInv
BY DEF Init, SInv, SettledSkips, TightSig, Spares, Compiling, Resolved

(* What was compiled is skipped for as long as it would compile to the     *)
(* same: the places its signature calls missing come before a hit of an    *)
(* import of what it read, so no file can appear there without being read  *)
(* instead; and a compile that saves while entries of its source are       *)
(* settled has read the very signature that is there, and keeps them       *)
(* (compile_file, build_outputs, import_misses).                           *)
THEOREM SettledAreSkipped == ASSUME Careful PROVE Spec => []SettledSkips
<1>1. IInv /\ SInv /\ [Next]_vars => SInv'
  BY NextSInv
<1>2. SInv => SettledSkips
  BY DEF SInv
<1> QED BY <1>1, <1>2, InitSInv, SigInvariant, PTL DEF Spec

=============================================================================
