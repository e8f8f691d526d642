------------------------------ MODULE SigCache ------------------------------
(***************************************************************************)
(* How ritz0 decides that a source need not be compiled again              *)
(* (projects/ritz/ritz0/ritz0.py compile_file and emitter/fn_cache.py).    *)
(*                                                                         *)
(* A compile leaves a signature of its source behind: the hash of the      *)
(* source and of every file its imports led to, the places where an import *)
(* was looked for and not found, and for each output the mode it was       *)
(* written in and the hash of its text.  The next compile of the source    *)
(* returns "Skipped" when all of that still holds, and otherwise resolves  *)
(* the imports, hashes them, emits, writes the output and then the         *)
(* signature.                                                              *)
(*                                                                         *)
(* Compiles of one source share its signature, in whatever mode and into   *)
(* whatever output, and run side by side.  Between compiles files are      *)
(* edited, created and removed, and directories become project roots;      *)
(* compiles fail and are killed at any point.  A hash stands for what it   *)
(* is the hash of, and an output for what it was compiled from.            *)
(***************************************************************************)
EXTENDS Naturals, Sequences, FiniteSets

CONSTANTS
  Proc, Output,
  Dir, Path,       \* directories; <<directory, module>> where a file can be
  Source,          \* the paths that are compiled
  Mode,            \* [flags, source_roots, project_root, ritz_path]
  Invocations,     \* the compiles that are asked for
  Rootable,        \* the directories that can become project roots
  Up,              \* of a directory: itself, its parent, and so on
  Texts,           \* what a path can hold
  First,           \* what it holds at first
  FirstMarked,     \* the project roots at first
  Imports,         \* the modules a text imports
  Interface,       \* the signatures of the public functions of a text
  MaxEdits, MaxCompiles,  \* bounds
  EditsAnytime,    \* whether a file may change under a compile
  OldTimes,        \* whether a file may come with an old modification time
  None, Torn       \* no file; a file that is not written to its end

Text == UNION {Texts[x] : x \in Path}
Module == {x[2] : x \in Path}
Job == [src : Source, out : Output, mode : Mode]

ASSUME SigAssumption ==
  /\ Source \subseteq Path /\ Path \subseteq Dir \X Module
  /\ Imports \in [Text -> SUBSET Module]
  /\ Mode \subseteq [flags : {m.flags : m \in Mode}, source_roots : Seq(Dir),
                     project_root : Dir \cup {None}, ritz_path : Seq(Dir)]
  /\ Invocations \subseteq Job
  /\ Rootable \subseteq Dir /\ FirstMarked \subseteq Dir
  /\ Up \in [Dir -> Seq(Dir)]
  /\ First \in [Path -> Text \cup {None}]
  /\ None \notin Text /\ None \notin Dir
  /\ \A D \in SUBSET Path : {None, Torn} \cap
       [source : Source, mode : Mode, text : Text, read : [D -> Text]] = {}
  /\ MaxEdits \in Nat /\ MaxCompiles \in Nat
  /\ EditsAnytime \in BOOLEAN /\ OldTimes \in BOOLEAN

(* None is no signature either.                                            *)
ASSUME SignatureAssumption ==
  \A D \in SUBSET Path, E \in SUBSET Output :
    None \notin
      [text : Text, imports : [D -> Text], misses : SUBSET (Dir \X Module),
       outputs : [E -> [mode : Mode,
         ir : [source : Source, mode : Mode, text : Text, read : [D -> Text]]]]]

(* Files change only between compiles, and with the time of the change,    *)
(* and every compile is told its project root.                             *)
Careful ==
  /\ ~EditsAnytime /\ ~OldTimes
  /\ \A m \in Mode : m.project_root # None

VARIABLES
  files,              \* the text at each path, or None
  marked,             \* directories with a .git or a ritzlib in them
  stamp, written,     \* modification times of sources and outputs
  output,             \* what is at each output
  sig,                \* the signature of each source, or None
  pc, job,            \* where each compile is; [src, out, mode, text]
  seen,               \* the signature it read last
  read, todo, missed, \* files resolved, imports to resolve, places missed
  hashes,             \* import_hashes
  edits, compiles,    \* so far
  settled             \* history: what the next compile must skip

disk   == <<output, written, sig>>
tree   == <<files, marked, stamp, edits>>
locals == <<job, seen, read, todo, missed, hashes>>
vars   == <<tree, disk, pc, locals, compiles, settled>>

Nothing == [x \in {} |-> None]
Idle(p) == pc[p] = "idle"

-----------------------------------------------------------------------------
(* Where an import leads.                                                  *)

Exists(fs, x) == x \in Path /\ fs[x] # None

(* The nearest directory of a chain that is marked, if there is one.       *)
Nearest(chain) ==
  LET hits == {i \in DOMAIN chain : chain[i] \in marked}
  IN IF hits = {} THEN <<>>
     ELSE <<chain[CHOOSE i \in hits : \A j \in hits : i <= j]>>

ProjectRoot(s, m) ==
  IF m.project_root # None THEN <<m.project_root>> ELSE Nearest(Up[s[1]])

(* The places where module n is looked for, imported by f in a compile of  *)
(* s in mode m.                                                            *)
Candidates(n, f, s, m) ==
  LET roots == <<f[1]>> \o m.source_roots \o ProjectRoot(s, m) \o m.ritz_path
  IN [i \in DOMAIN roots |-> <<roots[i], n>>]

(* The i-th candidate is the first that exists.                            *)
IsHit(fs, c, i) ==
  /\ i \in DOMAIN c /\ Exists(fs, c[i])
  /\ \A j \in 1 .. i - 1 : ~Exists(fs, c[j])

(* What a compile of s in mode m reads: s, and what the imports of what it *)
(* reads lead to.                                                          *)
Closed(fs, s, m, C) ==
  /\ s \in C
  /\ \A f \in C \cap Path : Exists(fs, f) =>
       \A n \in Imports[fs[f]] : LET c == Candidates(n, f, s, m) IN
         \A i \in DOMAIN c : IsHit(fs, c, i) => c[i] \in C

Reached(fs, s, m) ==
  {x \in Path : \A C \in SUBSET Path : Closed(fs, s, m, C) => x \in C}

(* What a compile of s in mode m gives.                                    *)
Compiled(s, m, text, imports) ==
  [source |-> s, mode |-> m, text |-> text, read |-> imports]

Build(fs, s, m) ==
  Compiled(s, m, fs[s], [x \in Reached(fs, s, m) \ {s} |-> fs[x]])

-----------------------------------------------------------------------------
(* The fast path.                                                          *)

ImportsHold(g) == \A x \in DOMAIN g.imports : files[x] = g.imports[x]
MissesHold(g)  == \A x \in g.misses : ~Exists(files, x)

(* check_output_entry *)
HasEntry(g, o, m) ==
  /\ o \in DOMAIN g.outputs
  /\ g.outputs[o].mode = m
  /\ output[o] = g.outputs[o].ir

(* Mutant: no look at the places that were missed. *)
VouchesForHits(g, o, m) == g # None /\ ImportsHold(g) /\ HasEntry(g, o, m)

Vouches(g, o, m) ==
  g # None /\ ImportsHold(g) /\ MissesHold(g) /\ HasEntry(g, o, m)

Newer(s, o) == output[o] # None /\ written[o] >= stamp[s]

(* Parse, and resolve from the source on.                                  *)
StartResolve(p, s, text) ==
  /\ pc' = [pc EXCEPT ![p] = "resolve"]
  /\ read' = [read EXCEPT ![p] = [x \in {s} |-> text]]
  /\ todo' = [todo EXCEPT ![p] = {<<n, s>> : n \in Imports[text]}]
  /\ UNCHANGED <<missed, hashes>>

Goto(p, where) ==
  pc' = [pc EXCEPT ![p] = where] /\ UNCHANGED <<read, todo, missed, hashes>>

Begin(p, j) ==
  LET s == j.src IN
  /\ Idle(p) /\ compiles < MaxCompiles
  /\ files[s] # None
  /\ compiles' = compiles + 1
  /\ job' = [job EXCEPT ![p] =
       [src |-> s, out |-> j.out, mode |-> j.mode, text |-> files[s]]]
  /\ IF Newer(s, j.out) THEN Goto(p, "prior") ELSE StartResolve(p, s, files[s])
  /\ UNCHANGED <<tree, disk, seen, settled>>

ReadPrior(p) ==
  /\ pc[p] = "prior"
  /\ seen' = [seen EXCEPT ![p] = sig[job[p].src]]
  /\ Goto(p, "source")
  /\ UNCHANGED <<tree, disk, job, compiles, settled>>

(* check_source_hash reads the signature again.                            *)
CheckSource(p) ==
  LET s == job[p].src IN
  /\ pc[p] = "source"
  /\ IF sig[s] # None /\ sig[s].text = job[p].text
       THEN Goto(p, "vouch") ELSE StartResolve(p, s, job[p].text)
  /\ UNCHANGED <<tree, disk, job, seen, compiles, settled>>

(* A compile that is over keeps nothing.                                   *)
End(p) ==
  /\ pc' = [pc EXCEPT ![p] = "idle"]
  /\ job' = [job EXCEPT ![p] = None]
  /\ seen' = [seen EXCEPT ![p] = None]
  /\ read' = [read EXCEPT ![p] = Nothing]
  /\ todo' = [todo EXCEPT ![p] = {}]
  /\ missed' = [missed EXCEPT ![p] = {}]
  /\ hashes' = [hashes EXCEPT ![p] = Nothing]

Skip(p) ==
  /\ pc[p] = "vouch" /\ Vouches(seen[p], job[p].out, job[p].mode)
  /\ End(p)
  /\ UNCHANGED <<tree, disk, compiles, settled>>

Decline(p) ==
  /\ pc[p] = "vouch" /\ ~Vouches(seen[p], job[p].out, job[p].mode)
  /\ StartResolve(p, job[p].src, job[p].text)
  /\ UNCHANGED <<tree, disk, job, seen, compiles, settled>>

-----------------------------------------------------------------------------
(* The compile.                                                            *)

(* Mutant: every other candidate counts as missed, also those after the hit. *)
MissedAll(c, i) == {c[j] : j \in DOMAIN c \ {i}}

MissedBefore(c, i) == {c[j] : j \in 1 .. i - 1}

(* _process_import, for one import statement.                              *)
ResolveImport(p) ==
  /\ pc[p] = "resolve"
  /\ \E t \in todo[p] :
       LET c == Candidates(t[1], t[2], job[p].src, job[p].mode) IN
       \E i \in DOMAIN c :
         /\ IsHit(files, c, i)
         /\ missed' = [missed EXCEPT ![p] = @ \cup MissedBefore(c, i)]
         /\ IF c[i] \in DOMAIN read[p]
              THEN /\ todo' = [todo EXCEPT ![p] = @ \ {t}]
                   /\ UNCHANGED read
              ELSE /\ todo' = [todo EXCEPT ![p] = (@ \ {t})
                        \cup {<<n, c[i]>> : n \in Imports[files[c[i]]]}]
                   /\ read' = [read EXCEPT ![p] =
                        [x \in DOMAIN read[p] \cup {c[i]} |->
                           IF x = c[i] THEN files[x] ELSE read[p][x]]]
  /\ UNCHANGED <<tree, disk, pc, job, seen, hashes, compiles, settled>>

(* Mutant: the hashes are taken while imports are still to be resolved. *)
HashImportsEarly(p) ==
  LET imported == DOMAIN read[p] \ {job[p].src} IN
  /\ pc[p] = "resolve"
  /\ \A x \in imported : files[x] # None
  /\ hashes' = [hashes EXCEPT ![p] = [x \in imported |-> files[x]]]
  /\ pc' = [pc EXCEPT ![p] = "check"]
  /\ UNCHANGED <<tree, disk, job, seen, read, todo, missed, compiles, settled>>

(* build_import_hashes reads the files once more.                          *)
HashImports(p) ==
  LET imported == DOMAIN read[p] \ {job[p].src} IN
  /\ pc[p] = "resolve" /\ todo[p] = {}
  /\ \A x \in imported : files[x] # None
  /\ hashes' = [hashes EXCEPT ![p] = [x \in imported |-> files[x]]]
  /\ pc' = [pc EXCEPT ![p] = "check"]
  /\ UNCHANGED <<tree, disk, job, seen, read, todo, missed, compiles, settled>>

(* An import leads nowhere, a hash, a check or the emitter fails.          *)
Fail(p) ==
  /\ pc[p] \in {"resolve", "check", "emit"}
  /\ End(p)
  /\ UNCHANGED <<tree, disk, compiles, settled>>

(* invalidate_dependents: the signatures under the root of s's project     *)
(* whose source imports s by the name it has in that root.                 *)
Dependents(s) ==
  LET near == Nearest(Up[s[1]])
      root == IF near = <<>> THEN s[1] ELSE near[1]
  IN {t \in Source : /\ sig[t] # None /\ s[1] = root
                     /\ s[2] \in Imports[sig[t].text]
                     /\ \E i \in DOMAIN Up[t[1]] : Up[t[1]][i] = root}

(* detect_sig_changes *)
SigsChanged(s, text) ==
  IF sig[s] = None THEN Interface[text] # {}
  ELSE Interface[text] # Interface[sig[s].text]

Invalidate(p) ==
  LET s == job[p].src
      gone == IF SigsChanged(s, job[p].text) THEN Dependents(s) ELSE {}
  IN
  /\ pc[p] = "check"
  /\ seen' = [seen EXCEPT ![p] = sig[s]]
  /\ sig' = [t \in Source |-> IF t \in gone THEN None ELSE sig[t]]
  /\ settled' = {j \in settled : j.src \notin gone}
  /\ Goto(p, "emit")
  /\ UNCHANGED <<tree, output, written, job, compiles>>

(* write_text: the file is truncated, then written.                        *)
Truncate(p) ==
  LET o == job[p].out IN
  /\ pc[p] = "emit"
  /\ output' = [output EXCEPT ![o] = Torn]
  /\ written' = [written EXCEPT ![o] = edits]
  /\ settled' = {j \in settled : j.out # o}
  /\ Goto(p, "write")
  /\ UNCHANGED <<tree, sig, job, seen, compiles>>

Emitted(p) ==
  Compiled(job[p].src, job[p].mode, job[p].text,
           [x \in DOMAIN read[p] \ {job[p].src} |-> read[p][x]])

(* Onto what another compile has written, the end of the longer one stays. *)
Write(p) ==
  LET o == job[p].out IN
  /\ pc[p] = "write"
  /\ \E text \in {Emitted(p)} \cup
                 (IF output[o] \in {None, Torn, Emitted(p)} THEN {} ELSE {Torn}) :
       output' = [output EXCEPT ![o] = text]
  /\ written' = [written EXCEPT ![o] = edits]
  /\ settled' = {j \in settled : j.out # o}
  /\ Goto(p, "save")
  /\ UNCHANGED <<tree, sig, job, seen, compiles>>

(* Mutant: entries are kept as long as the source is the same. *)
KeptForSource(g, p) ==
  IF g # None /\ g.text = job[p].text
    THEN {o \in DOMAIN g.outputs : output[o] # None} ELSE {}

(* The entries of the old signature that build_outputs keeps.              *)
Kept(g, p) ==
  IF /\ g # None /\ g.text = job[p].text
     /\ g.imports = hashes[p] /\ g.misses = missed[p]
    THEN {o \in DOMAIN g.outputs : output[o] # None} ELSE {}

(* The compiles of a mode look for imports in the same places.             *)
SameRoots(m, k) ==
  /\ m.source_roots = k.source_roots
  /\ m.project_root = k.project_root
  /\ m.ritz_path = k.ritz_path

(* What must be skipped after p has saved: what was to be, in another      *)
(* source or with the same roots, and what p compiled; but nothing of its  *)
(* source if another compile of it is under way.                           *)
SettledAfter(p) ==
  LET own == [src |-> job[p].src, out |-> job[p].out, mode |-> job[p].mode]
      alone == \A q \in Proc \ {p} : Idle(q) \/ job[q].src # own.src
  IN {j \in settled : j.src # own.src}
     \cup IF alone
            THEN {j \in settled : SameRoots(j.mode, own.mode)}
                 \cup (IF output[own.out] = Emitted(p) THEN {own} ELSE {})
            ELSE {}

(* build_sig_data and write_sig_file, a rename.                            *)
Save(p) ==
  LET s == job[p].src
      old == seen[p]
      own == job[p].out
  IN
  /\ pc[p] = "save"
  /\ sig' = [sig EXCEPT ![s] =
       [text |-> job[p].text, imports |-> hashes[p], misses |-> missed[p],
        outputs |-> [o \in Kept(old, p) \cup {own} |->
          IF o = own THEN [mode |-> job[p].mode, ir |-> Emitted(p)]
          ELSE old.outputs[o]]]]
  /\ settled' = SettledAfter(p)
  /\ End(p)
  /\ UNCHANGED <<tree, output, written, compiles>>

Kill(p) ==
  /\ ~Idle(p)
  /\ End(p)
  /\ UNCHANGED <<tree, disk, compiles, settled>>

-----------------------------------------------------------------------------
(* The user.                                                               *)

MayEdit ==
  /\ edits < MaxEdits /\ edits' = edits + 1
  /\ EditsAnytime \/ \A p \in Proc : Idle(p)

(* What compiles to the same as before is still to be skipped.             *)
StillSettled ==
  {j \in settled : Build(files, j.src, j.mode)' = Build(files, j.src, j.mode)}

(* A file is written, created or removed, or comes from elsewhere with the *)
(* time it had there.                                                      *)
Edit(x) ==
  /\ MayEdit
  /\ \E text \in (Texts[x] \cup {None}) \ {files[x]} :
       files' = [files EXCEPT ![x] = text]
  /\ IF x \in Source
       THEN \E t \in (IF OldTimes THEN 0 .. edits + 1 ELSE {edits + 1}) :
              stamp' = [stamp EXCEPT ![x] = t]
       ELSE UNCHANGED stamp
  /\ UNCHANGED marked
  /\ settled' = {j \in StillSettled : j.src # x}
  /\ UNCHANGED <<disk, pc, locals, compiles>>

(* git init, or a ritzlib directory is made; or the reverse.               *)
Mark(d) ==
  /\ MayEdit
  /\ marked' = IF d \in marked THEN marked \ {d} ELSE marked \cup {d}
  /\ UNCHANGED <<files, stamp>>
  /\ settled' = StillSettled
  /\ UNCHANGED <<disk, pc, locals, compiles>>

RemoveOutput(o) ==
  /\ MayEdit /\ output[o] # None
  /\ output' = [output EXCEPT ![o] = None]
  /\ settled' = {j \in settled : j.out # o}
  /\ UNCHANGED <<files, marked, stamp, written, sig, pc, locals, compiles>>

-----------------------------------------------------------------------------

Init ==
  /\ files = First /\ marked = FirstMarked /\ edits = 0 /\ compiles = 0
  /\ stamp = [s \in Source |-> 0] /\ written = [o \in Output |-> 0]
  /\ output = [o \in Output |-> None]
  /\ sig = [s \in Source |-> None]
  /\ pc = [p \in Proc |-> "idle"]
  /\ job = [p \in Proc |-> None]
  /\ seen = [p \in Proc |-> None]
  /\ read = [p \in Proc |-> Nothing]
  /\ todo = [p \in Proc |-> {}]
  /\ missed = [p \in Proc |-> {}]
  /\ hashes = [p \in Proc |-> Nothing]
  /\ settled = {}

Step(p) ==
  \/ \E j \in Invocations : Begin(p, j)
  \/ ReadPrior(p) \/ CheckSource(p) \/ Skip(p) \/ Decline(p)
  \/ ResolveImport(p) \/ HashImports(p) \/ Fail(p) \/ Invalidate(p)
  \/ Truncate(p) \/ Write(p) \/ Save(p) \/ Kill(p)

Next ==
  \/ \E p \in Proc : Step(p)
  \/ \E x \in Path : Edit(x)
  \/ \E d \in Rootable : Mark(d)
  \/ \E o \in Output : RemoveOutput(o)

Spec == Init /\ [][Next]_vars

-----------------------------------------------------------------------------
(* Properties.                                                             *)

Place == Dir \X Module
IsPartial(f, D, R) == DOMAIN f \subseteq D /\ f \in [DOMAIN f -> R]
IsCompilation(c) ==
  /\ c = Compiled(c.source, c.mode, c.text, c.read)
  /\ c.source \in Source /\ c.mode \in Mode /\ c.text \in Text
  /\ IsPartial(c.read, Path, Text)
IsSignature(g) ==
  /\ g.text \in Text /\ IsPartial(g.imports, Path, Text)
  /\ g.misses \subseteq Place /\ DOMAIN g.outputs \subseteq Output
  /\ \A o \in DOMAIN g.outputs :
       g.outputs[o].mode \in Mode /\ IsCompilation(g.outputs[o].ir)

TreeOK ==
  /\ files \in [Path -> Text \cup {None}] /\ marked \in SUBSET Dir
  /\ stamp \in [Source -> 0 .. edits] /\ edits \in Nat
DiskOK ==
  /\ output = [o \in Output |-> output[o]] /\ written \in [Output -> 0 .. edits]
  /\ \A o \in Output : output[o] \in {None, Torn} \/ IsCompilation(output[o])
  /\ sig = [s \in Source |-> sig[s]]
  /\ \A s \in Source : sig[s] = None \/ IsSignature(sig[s])
LocalsOK ==
  /\ pc = [p \in Proc |-> pc[p]] /\ job = [p \in Proc |-> job[p]]
  /\ seen = [p \in Proc |-> seen[p]] /\ read = [p \in Proc |-> read[p]]
  /\ todo = [p \in Proc |-> todo[p]] /\ missed = [p \in Proc |-> missed[p]]
  /\ hashes = [p \in Proc |-> hashes[p]]
CompileOK(p) ==
  /\ pc[p] \in {"idle", "prior", "source", "vouch", "resolve", "check", "emit",
                "write", "save"}
  /\ IF Idle(p) THEN job[p] = None ELSE
       job[p] \in [src : Source, out : Output, mode : Mode, text : Text]
  /\ seen[p] = None \/ IsSignature(seen[p])
  /\ IsPartial(read[p], Path, Text) /\ IsPartial(hashes[p], Path, Text)
  /\ todo[p] \subseteq Module \X Path /\ missed[p] \subseteq Place
  /\ todo[p] # {} => pc[p] = "resolve"

(* Every variable has its type: no compile reads a file that is not there, *)
(* and none goes on to hash and emit with imports left to resolve          *)
(* (_resolve_import_path, resolve).                                        *)
TypeOK ==
  /\ TreeOK /\ DiskOK /\ LocalsOK /\ \A p \in Proc : CompileOK(p)
  /\ compiles \in Nat /\ settled \in SUBSET Job

(* A compile that says "Skipped" leaves at its output exactly what a       *)
(* compile of the present files in the present mode would write there,     *)
(* whatever was edited, created or removed, compiled elsewhere or killed   *)
(* since the output was written (the fast path of compile_file).           *)
SkippedIsFresh ==
  \A p \in Proc :
    pc[p] = "vouch" /\ Vouches(seen[p], job[p].out, job[p].mode)
      => output[job[p].out] = Build(files, job[p].src, job[p].mode)

(* A signature vouches for an output only in the mode it was written in,   *)
(* and with the very texts it was compiled from, though they are read once *)
(* to compile and once to hash, and other compiles of the source save      *)
(* theirs in between (build_import_hashes, build_outputs).                 *)
SigVouches ==
  \A s \in Source : sig[s] # None =>
    \A o \in DOMAIN sig[s].outputs :
      LET e == sig[s].outputs[o]
      IN e.ir = Compiled(s, e.mode, sig[s].text, sig[s].imports)

(* The fast path is taken where it can be: what was compiled stays vouched *)
(* for while nothing it was compiled from changes, through files that      *)
(* appear where no import of it looks, compiles of the source with other   *)
(* flags into other outputs, and kills (build_outputs, import_misses).     *)
SettledSkips ==
  \A j \in settled :
    /\ Newer(j.src, j.out)
    /\ sig[j.src].text = files[j.src]
    /\ Vouches(sig[j.src], j.out, j.mode)

=============================================================================
