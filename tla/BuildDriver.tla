----------------------------- MODULE BuildDriver -----------------------------
(***************************************************************************)
(* How the build driver turns sources into a binary                        *)
(* (projects/ritz/build.py compile_binary), and how it decides that it     *)
(* need not.                                                               *)
(*                                                                         *)
(* A build hashes every source, and returns the binary that is there when  *)
(* its manifest says it was built from these hashes.  Otherwise it goes    *)
(* through the modules: it finds the module's key, from the memo of an     *)
(* earlier build or by reading the import closure, and takes the object    *)
(* that the store has under the key, or compiles the module and stores it. *)
(* Then it links, and writes the manifest with the hashes it began with.   *)
(*                                                                         *)
(* Worktrees have their own sources, memos, binary and manifest, and share *)
(* the store, whose promise (one builder per key, see ArtifactStore) is    *)
(* taken as given here.  Sources are edited, the collector evicts store    *)
(* entries and memos, linkers fail and builds are killed at any point.     *)
(***************************************************************************)
EXTENDS Naturals

CONSTANTS
  Builders, Trees,
  Tree,         \* the worktree each build runs in
  EditedTrees,  \* the worktrees whose sources change
  N,            \* modules 1..N, in the order list_deps prints them
  Imports,      \* transitive imports of each module, without the module
  Contents, First, Broken,  \* of sources: all, initial, those with type errors
  Iface,        \* the interface of each content
  EditsAnytime, \* whether a source may be edited while its tree is built
  MaxEvents,    \* bound on edits and evictions
  None, Torn    \* no file; a binary whose link did not finish

Modules == 1..N

ASSUME BuildAssumption ==
  /\ N \in Nat \ {0}
  /\ Tree \in [Builders -> Trees] /\ EditedTrees \subseteq Trees
  /\ Imports \in [Modules -> SUBSET Modules]
  /\ First \in Contents /\ Broken \subseteq Contents
  /\ EditsAnytime \in BOOLEAN /\ MaxEvents \in Nat
  /\ Torn # None

VARIABLES
  src, events,        \* the sources of each tree; edits and evictions so far
  store,              \* [key, obj] for each object in the store
  memo,               \* [files, key] per tree and module, or None
  bin, manifest, tmp, \* per tree: binary, manifest, and the manifest to be
  pc, at,             \* where each build is, and at which module
  prov,               \* the hashes a build began with
  key, made,          \* the key at hand, and the objects to link
  failed, rec         \* whether a module failed; the manifest to write

outputs == <<bin, manifest, tmp>>
locals  == <<prov, key, made, failed, rec>>
vars    == <<src, events, store, memo, outputs, pc, at, locals>>

Source == [Modules -> Contents]
Closure(m) == Imports[m] \cup {m}

(* What the compiler reads to compile m: the module, and the interfaces of *)
(* its imports.  An object is what it was compiled from.                   *)
Compiled(s, m) ==
  [mod |-> m, own |-> s[m], deps |-> [d \in Imports[m] |-> Iface[s[d]]]]
Image(s) == [m \in Modules |-> Compiled(s, m)]

(* Mutant: the imports are left out of the key. *)
KeyWithoutImports(s, m) == <<m, s[m], {}>>

(* What the key of m digests. *)
KeyOf(s, m) == <<m, s[m], {<<d, Iface[s[d]]>> : d \in Imports[m]}>>

(* The sources of a build's tree. *)
Now(b) == src[Tree[b]]
Has(k) == \E e \in store : e.key = k

Init ==
  /\ src = [t \in Trees |-> [m \in Modules |-> First]] /\ events = 0
  /\ store = {}
  /\ memo = [t \in Trees |-> [m \in Modules |-> None]]
  /\ bin = [t \in Trees |-> None]
  /\ manifest = [t \in Trees |-> None]
  /\ tmp = [t \in Trees |-> None]
  /\ pc = [b \in Builders |-> "idle"]
  /\ at = [b \in Builders |-> 1]
  /\ prov = [b \in Builders |-> None]
  /\ key = [b \in Builders |-> None]
  /\ made = [b \in Builders |-> None]
  /\ failed = [b \in Builders |-> FALSE]
  /\ rec = [b \in Builders |-> None]

-----------------------------------------------------------------------------
(* The beginning of a build.                                               *)

Goto(b, where) ==
  /\ pc' = [pc EXCEPT ![b] = where]
  /\ UNCHANGED at

(* A build that is over, whether it returned, raised or was killed, keeps  *)
(* nothing.                                                                *)
End(b) ==
  /\ pc' = [pc EXCEPT ![b] = "idle"]
  /\ at' = [at EXCEPT ![b] = 1]
  /\ prov' = [prov EXCEPT ![b] = None]
  /\ key' = [key EXCEPT ![b] = None]
  /\ made' = [made EXCEPT ![b] = None]
  /\ failed' = [failed EXCEPT ![b] = FALSE]
  /\ rec' = [rec EXCEPT ![b] = None]

Start(b) ==
  /\ pc[b] = "idle"
  /\ Goto(b, "hash")
  /\ prov' = [prov EXCEPT ![b] = [m \in Modules |-> First]]
  /\ made' = [made EXCEPT ![b] = [m \in Modules |-> None]]
  /\ UNCHANGED <<src, events, store, memo, outputs, key, failed, rec>>

(* binary_provenance: one source after the other. *)
HashSource(b) ==
  /\ pc[b] = "hash" /\ at[b] <= N
  /\ prov' = [prov EXCEPT ![b][at[b]] = Now(b)[at[b]]]
  /\ at' = [at EXCEPT ![b] = @ + 1]
  /\ UNCHANGED <<src, events, store, memo, outputs, pc, key, made, failed, rec>>

(* Mutant: the binary's own hash is not compared. *)
MatchesProvenance(t, s) ==
  manifest[t] # None /\ bin[t] # None /\ manifest[t].prov = s

(* binary_is_up_to_date *)
UpToDate(t, s) ==
  /\ manifest[t] # None /\ bin[t] # None
  /\ manifest[t].prov = s
  /\ manifest[t].sha = bin[t]

FastPath(b) ==
  /\ pc[b] = "hash" /\ at[b] > N
  /\ pc' = [pc EXCEPT ![b] = IF UpToDate(Tree[b], prov[b]) THEN "done" ELSE "key"]
  /\ at' = [at EXCEPT ![b] = 1]
  /\ UNCHANGED <<src, events, store, memo, outputs, locals>>

-----------------------------------------------------------------------------
(* compile_modules, for the module at[b].                                  *)

NextModule(b) ==
  /\ at' = [at EXCEPT ![b] = @ + 1]
  /\ pc' = [pc EXCEPT ![b] = "key"]
  /\ key' = [key EXCEPT ![b] = None]

(* Mutant: only the module's own content is compared. *)
OwnContentMatches(t, m) ==
  memo[t][m] # None /\ memo[t][m].files[m] = src[t][m]

(* closure_memo_get: every file still has the content it had. *)
MemoHit(t, m) ==
  memo[t][m] # None /\ \A f \in Closure(m) : memo[t][m].files[f] = src[t][f]

(* cas_module_key: the memo's key, or the one computed from the closure,   *)
(* which is then recorded.                                                 *)
FindKey(b) ==
  /\ pc[b] = "key" /\ at[b] <= N
  /\ IF MemoHit(Tree[b], at[b])
     THEN /\ key' = [key EXCEPT ![b] = memo[Tree[b]][at[b]].key]
          /\ Goto(b, "lookup")
     ELSE /\ key' = [key EXCEPT ![b] = KeyOf(Now(b), at[b])]
          /\ Goto(b, "memo")
  /\ UNCHANGED <<src, events, store, memo, outputs, prov, made, failed, rec>>

(* closure_memo_put hashes the files of the closure again. *)
MemoPut(b) ==
  /\ pc[b] = "memo"
  /\ memo' = [memo EXCEPT ![Tree[b]][at[b]] =
                [files |-> [f \in Closure(at[b]) |-> Now(b)[f]], key |-> key[b]]]
  /\ Goto(b, "lookup")
  /\ UNCHANGED <<src, events, store, outputs, locals>>

(* get_or_build: a hit, or a compilation that nobody else has begun. *)
Lookup(b) ==
  /\ pc[b] = "lookup"
  /\ IF Has(key[b])
     THEN Goto(b, "copy")
     ELSE /\ \A c \in Builders : pc[c] \in {"compile", "put"} => key[c] # key[b]
          /\ Goto(b, "compile")
  /\ UNCHANGED <<src, events, store, memo, outputs, locals>>

(* shutil.copyfile of a hit: its error, when the object was evicted since, *)
(* ends the build.                                                         *)
Copy(b) ==
  /\ pc[b] = "copy"
  /\ IF Has(key[b])
     THEN /\ \E e \in store :
               e.key = key[b] /\ made' = [made EXCEPT ![b][at[b]] = e.obj]
          /\ NextModule(b)
          /\ UNCHANGED <<prov, failed, rec>>
     ELSE End(b)
  /\ UNCHANGED <<src, events, store, memo, outputs>>

(* Mutant: a module that does not compile is left out. *)
CompileOrSkip(b) ==
  /\ pc[b] = "compile"
  /\ IF Now(b)[at[b]] \in Broken
     THEN NextModule(b) /\ UNCHANGED made
     ELSE /\ made' = [made EXCEPT ![b][at[b]] = Compiled(Now(b), at[b])]
          /\ Goto(b, "put") /\ UNCHANGED key
  /\ UNCHANGED <<src, events, store, memo, outputs, prov, failed, rec>>

(* Mutant: what a failed compilation left behind is stored. *)
CompileOrStoreNothing(b) ==
  /\ pc[b] = "compile"
  /\ made' = [made EXCEPT ![b][at[b]] =
                IF Now(b)[at[b]] \in Broken THEN None ELSE Compiled(Now(b), at[b])]
  /\ Goto(b, "put")
  /\ UNCHANGED <<src, events, store, memo, outputs, prov, key, failed, rec>>

(* compile_src reads the sources as they are now.  BuildFailed lets the    *)
(* loop go on to the next module.                                          *)
Compile(b) ==
  /\ pc[b] = "compile"
  /\ IF Now(b)[at[b]] \in Broken
     THEN /\ failed' = [failed EXCEPT ![b] = TRUE]
          /\ NextModule(b)
          /\ UNCHANGED made
     ELSE /\ made' = [made EXCEPT ![b][at[b]] = Compiled(Now(b), at[b])]
          /\ Goto(b, "put")
          /\ UNCHANGED <<key, failed>>
  /\ UNCHANGED <<src, events, store, memo, outputs, prov, rec>>

Put(b) ==
  /\ pc[b] = "put"
  /\ store' = {e \in store : e.key # key[b]}
                \cup {[key |-> key[b], obj |-> made[b][at[b]]]}
  /\ NextModule(b)
  /\ UNCHANGED <<src, events, memo, outputs, prov, made, failed, rec>>

-----------------------------------------------------------------------------
(* Link and manifest.                                                      *)

(* Some module failed: reported, and nothing is linked. *)
GiveUp(b) ==
  /\ pc[b] = "key" /\ at[b] > N /\ failed[b]
  /\ End(b)
  /\ UNCHANGED <<src, events, store, memo, outputs>>

LinkBegin(b) ==
  /\ pc[b] = "key" /\ at[b] > N /\ ~failed[b]
  /\ bin' = [bin EXCEPT ![Tree[b]] = Torn]
  /\ Goto(b, "link")
  /\ UNCHANGED <<src, events, store, memo, manifest, tmp, locals>>
LinkEnd(b) ==
  /\ pc[b] = "link"
  /\ bin' = [bin EXCEPT ![Tree[b]] = made[b]]
  /\ Goto(b, "sha")
  /\ UNCHANGED <<src, events, store, memo, manifest, tmp, locals>>
LinkFails(b) ==
  /\ pc[b] = "link"
  /\ End(b)
  /\ UNCHANGED <<src, events, store, memo, outputs>>

(* write_binary_manifest hashes the binary that is there, writes the       *)
(* temporary file, which has one name per tree, and renames it.            *)
HashBinary(b) ==
  /\ pc[b] = "sha"
  /\ rec' = [rec EXCEPT ![b] = [prov |-> prov[b], sha |-> bin[Tree[b]]]]
  /\ Goto(b, "write")
  /\ UNCHANGED <<src, events, store, memo, outputs, prov, key, made, failed>>
WriteTmp(b) ==
  /\ pc[b] = "write"
  /\ tmp' = [tmp EXCEPT ![Tree[b]] = rec[b]]
  /\ Goto(b, "replace")
  /\ UNCHANGED <<src, events, store, memo, bin, manifest, locals>>
Replace(b) ==
  /\ pc[b] = "replace"
  /\ IF tmp[Tree[b]] = None
     THEN End(b) /\ UNCHANGED <<manifest, tmp>>
     ELSE /\ manifest' = [manifest EXCEPT ![Tree[b]] = tmp[Tree[b]]]
          /\ tmp' = [tmp EXCEPT ![Tree[b]] = None]
          /\ Goto(b, "done")
          /\ UNCHANGED locals
  /\ UNCHANGED <<src, events, store, memo, bin>>

Return(b) ==
  /\ pc[b] = "done"
  /\ End(b)
  /\ UNCHANGED <<src, events, store, memo, outputs>>

-----------------------------------------------------------------------------
(* What goes on around the builds.                                         *)

Killed(b) ==
  /\ pc[b] # "idle"
  /\ End(b)
  /\ UNCHANGED <<src, events, store, memo, outputs>>

Edit(t, m, c) ==
  /\ events < MaxEvents /\ t \in EditedTrees /\ c # src[t][m]
  /\ EditsAnytime \/ \A b \in Builders : Tree[b] = t => pc[b] = "idle"
  /\ src' = [src EXCEPT ![t][m] = c]
  /\ events' = events + 1
  /\ UNCHANGED <<store, memo, outputs, pc, at, locals>>

(* gc deletes objects and memos alike. *)
Evict(e) ==
  /\ events < MaxEvents /\ events' = events + 1
  /\ store' = store \ {e}
  /\ UNCHANGED <<src, memo, outputs, pc, at, locals>>
EvictMemo(t, m) ==
  /\ events < MaxEvents /\ events' = events + 1
  /\ memo[t][m] # None
  /\ memo' = [memo EXCEPT ![t][m] = None]
  /\ UNCHANGED <<src, store, outputs, pc, at, locals>>

-----------------------------------------------------------------------------
Step(b) ==
  \/ HashSource(b) \/ FastPath(b)
  \/ FindKey(b) \/ MemoPut(b) \/ Lookup(b) \/ Copy(b) \/ Compile(b) \/ Put(b)
  \/ GiveUp(b) \/ LinkBegin(b) \/ LinkEnd(b) \/ LinkFails(b)
  \/ HashBinary(b) \/ WriteTmp(b) \/ Replace(b) \/ Return(b)

Next ==
  \/ \E b \in Builders : Start(b) \/ Step(b) \/ Killed(b)
  \/ \E t \in Trees, m \in Modules : EvictMemo(t, m) \/ \E c \in Contents : Edit(t, m, c)
  \/ \E e \in store : Evict(e)

Spec == Init /\ [][Next]_vars

-----------------------------------------------------------------------------
(* Properties.  Quiet names what the passing run and the proofs assume:    *)
(* each build has a tree of its own, and nobody edits it while it runs.    *)

Quiet ==
  /\ ~EditsAnytime
  /\ \A b, c \in Builders : Tree[b] = Tree[c] => b = c

Object ==
  [mod : Modules, own : Contents, deps : {Compiled(s, m).deps : s \in Source, m \in Modules}]
Key    == {KeyOf(s, m) : s \in Source, m \in Modules}
Memo   == [files : UNION {[Closure(m) -> Contents] : m \in Modules}, key : Key]
Linked == [Modules -> Object \cup {None}]
Record == [prov : Source, sha : Linked \cup {None, Torn}]

(* Every variable has its type. *)
TypeOK ==
  /\ src \in [Trees -> Source] /\ events \in 0..MaxEvents
  /\ store \subseteq [key : Key, obj : Object]
  /\ memo \in [Trees -> [Modules -> Memo \cup {None}]]
  /\ bin \in [Trees -> Linked \cup {None, Torn}]
  /\ manifest \in [Trees -> Record \cup {None}] /\ tmp \in [Trees -> Record \cup {None}]
  /\ pc \in [Builders -> {"idle", "hash", "key", "memo", "lookup", "copy", "compile",
                          "put", "link", "sha", "write", "replace", "done"}]
  /\ at \in [Builders -> 1..(N + 1)]
  /\ prov \in [Builders -> Source \cup {None}]
  /\ key \in [Builders -> Key \cup {None}]
  /\ made \in [Builders -> Linked \cup {None}]
  /\ failed \in [Builders -> BOOLEAN]
  /\ rec \in [Builders -> Record \cup {None}]

(* build.py:1546, "True only if bin_path's manifest proves it was built    *)
(* from provenance": a binary that the next build would take as it is, is  *)
(* the one the sources of its tree compile to, whatever was evicted,       *)
(* interrupted or half linked before.                                      *)
UpToDateIsFresh ==
  \A t \in Trees : UpToDate(t, src[t]) => bin[t] = Image(src[t])

(* build.py:1590, "A hit is an object compiled from exactly this source    *)
(* and import closure ... in this worktree or any other": sources with the *)
(* key of a stored object would have compiled to that object.              *)
StoreSound ==
  \A e \in store, s \in Source, m \in Modules :
    KeyOf(s, m) = e.key => Compiled(s, m) = e.obj

(* Every key a build goes to the store with is the key of the sources it   *)
(* is building, though the memo it may come from was written by an earlier *)
(* build, before edits that have been undone or not.                       *)
KeysAreCurrent ==
  \A b \in Builders :
    pc[b] \in {"memo", "lookup", "copy", "compile", "put"} =>
      key[b] = KeyOf(Now(b), at[b])

(* A build that returns a binary returns the one its sources compile to.   *)
ReturnsFresh ==
  \A b \in Builders : pc[b] = "done" => bin[Tree[b]] = Image(Now(b))

=============================================================================
