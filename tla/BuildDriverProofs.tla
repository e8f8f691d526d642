-------------------------- MODULE BuildDriverProofs --------------------------
(***************************************************************************)
(* What BuildDriver promises for any number of builds, worktrees, modules, *)
(* contents, edits and evictions, when each build has a worktree of its    *)
(* own that nobody edits while it runs (Quiet).                            *)
(*                                                                         *)
(* Nothing the driver keeps names the moment it was written at, so every   *)
(* part of the invariant speaks of all sources: sources with the key of a  *)
(* stored object compile to it; sources with the recorded contents of a    *)
(* memo have its key; a manifest's binary is the image of its sources,     *)
(* whatever they were.  The sources of a running build do not change, so   *)
(* what it found out about them at its begin still holds at its end.       *)
(***************************************************************************)
EXTENDS BuildDriver, TLAPS

ModuleStates == {"memo", "lookup", "copy", "compile", "put"}
LinkedStates == {"sha", "write", "replace", "done"}

StoreOK == StoreSound
MemoOK ==
  \A t \in Trees, m \in Modules : memo[t][m] # None =>
    \A s \in Source :
      (\A f \in Closure(m) : memo[t][m].files[f] = s[f]) => memo[t][m].key = KeyOf(s, m)
RecOK(r) == r # None => r.sha = Image(r.prov)
FilesOK == \A t \in Trees : RecOK(manifest[t]) /\ RecOK(tmp[t])

(* What build b knows about the sources of its tree.                       *)
Hashed(b) ==
  /\ pc[b] = "idle" => at[b] = 1
  /\ pc[b] = "hash" => prov[b] \in Source /\ \A m \in 1..(at[b] - 1) : prov[b][m] = Now(b)[m]
  /\ pc[b] \notin {"idle", "hash"} => prov[b] = Now(b)
Keyed(b) == pc[b] \in ModuleStates => at[b] \in Modules /\ key[b] = KeyOf(Now(b), at[b])
Made(b) ==
  /\ pc[b] # "idle" => made[b] \in Linked
  /\ pc[b] \in ModuleStates \cup {"key"} /\ ~failed[b] =>
       \A m \in 1..(at[b] - 1) : made[b][m] = Compiled(Now(b), m)
  /\ pc[b] = "put" => made[b][at[b]] = Compiled(Now(b), at[b])
  /\ pc[b] = "link" => made[b] = Image(Now(b))
Written(b) ==
  /\ pc[b] \in LinkedStates => bin[Tree[b]] = Image(Now(b))
  /\ pc[b] = "write" => RecOK(rec[b])
Build(b) == Hashed(b) /\ Keyed(b) /\ Made(b) /\ Written(b)

IInv ==
  /\ TypeOK
  /\ StoreOK /\ MemoOK /\ FilesOK
  /\ \A b \in Builders : Build(b)

-----------------------------------------------------------------------------
(* Keys and objects.                                                       *)

LEMMA CompiledType ==
  ASSUME NEW s \in Source, NEW m \in Modules
  PROVE  Compiled(s, m) \in Object /\ KeyOf(s, m) \in Key /\ Image(s) \in Linked
<1>1. ASSUME NEW n \in Modules PROVE Compiled(s, n) \in Object
  <2>1. Compiled(s, n).deps \in {Compiled(u, k).deps : u \in Source, k \in Modules}
    OBVIOUS
  <2> QED BY <2>1 DEF Compiled, Object, Source
<1>2. KeyOf(s, m) \in Key
  BY DEF Key
<1> QED BY <1>1, <1>2 DEF Image, Linked

(* A key names everything the compiler reads. *)
LEMMA KeyNamesInputs ==
  ASSUME NEW s \in Source, NEW u \in Source, NEW m \in Modules, NEW n \in Modules,
         KeyOf(s, m) = KeyOf(u, n)
  PROVE  Compiled(s, m) = Compiled(u, n)
<1>1. m = n /\ s[m] = u[m]
  BY DEF KeyOf
<1>2. {<<d, Iface[s[d]]>> : d \in Imports[m]} = {<<d, Iface[u[d]]>> : d \in Imports[m]}
  BY <1>1 DEF KeyOf
<1>3. ASSUME NEW d \in Imports[m] PROVE Iface[s[d]] = Iface[u[d]]
  <2>1. <<d, Iface[s[d]]>> \in {<<e, Iface[u[e]]>> : e \in Imports[m]}
    BY <1>2
  <2> QED BY <2>1
<1>4. [d \in Imports[m] |-> Iface[s[d]]] = [d \in Imports[m] |-> Iface[u[d]]]
  BY <1>3
<1> QED BY <1>1, <1>4 DEF Compiled

(* A key depends on the closure only. *)
LEMMA KeyOfClosure ==
  ASSUME NEW s \in Source, NEW u \in Source, NEW m \in Modules,
         \A f \in Closure(m) : s[f] = u[f]
  PROVE  KeyOf(s, m) = KeyOf(u, m)
<1>1. s[m] = u[m] /\ \A d \in Imports[m] : s[d] = u[d]
  BY DEF Closure
<1>2. {<<d, Iface[s[d]]>> : d \in Imports[m]} = {<<d, Iface[u[d]]>> : d \in Imports[m]}
  BY <1>1
<1> QED BY <1>1, <1>2 DEF KeyOf

LEMMA InitIInv == Init => IInv
<1> SUFFICES ASSUME Init PROVE IInv
  OBVIOUS
<1>1. TypeOK
  BY BuildAssumption DEF Init, TypeOK, Source
<1>2. StoreOK /\ MemoOK /\ FilesOK
  BY DEF Init, StoreOK, StoreSound, MemoOK, FilesOK, RecOK
<1>3. \A b \in Builders : Build(b)
  BY DEF Init, Build, Hashed, Keyed, Made, Written, ModuleStates, LinkedStates
<1> QED BY <1>1, <1>2, <1>3 DEF IInv

-----------------------------------------------------------------------------
(* Steps.                                                                  *)

(* A build that takes no step, whose tree nobody touches, knows what it    *)
(* knew.                                                                   *)
Untouched(c) ==
  /\ pc'[c] = pc[c] /\ at'[c] = at[c] /\ prov'[c] = prov[c] /\ key'[c] = key[c]
  /\ made'[c] = made[c] /\ failed'[c] = failed[c] /\ rec'[c] = rec[c]
  /\ pc[c] # "idle" => src'[Tree[c]] = src[Tree[c]] /\ bin'[Tree[c]] = bin[Tree[c]]

LEMMA Frame ==
  ASSUME NEW c \in Builders, Build(c), Untouched(c)
  PROVE  Build(c)'
<1>1. CASE pc[c] = "idle"
  BY <1>1 DEF Untouched, Build, Hashed, Keyed, Made, Written, ModuleStates, LinkedStates
<1>2. CASE pc[c] # "idle"
  <2>1. Now(c)' = Now(c)
    BY <1>2 DEF Untouched, Now
  <2>2. Hashed(c)' /\ Keyed(c)'
    BY <1>2, <2>1 DEF Untouched, Build, Hashed, Keyed
  <2>3. Made(c)' /\ Written(c)'
    BY <1>2, <2>1 DEF Untouched, Build, Made, Written, RecOK
  <2> QED BY <2>2, <2>3 DEF Build
<1> QED BY <1>1, <1>2

(* The steps of one build leave every other build alone. *)
LEMMA OthersUntouched ==
  ASSUME Quiet, IInv, NEW b \in Builders, Step(b) \/ Start(b) \/ Killed(b),
         NEW c \in Builders, c # b
  PROVE  Build(c)'
<1>1. Tree[c] # Tree[b]
  BY DEF Quiet
<1> SUFFICES Untouched(c)
  BY Frame DEF IInv
<1> USE BuildAssumption DEF IInv, TypeOK
<1>2. CASE Start(b)
  BY <1>1, <1>2 DEF Start, Untouched, outputs, Goto
<1>3. CASE HashSource(b)
  BY <1>1, <1>3 DEF HashSource, Untouched, outputs
<1>4. CASE FastPath(b)
  BY <1>1, <1>4 DEF FastPath, Untouched, outputs, locals
<1>5. CASE FindKey(b)
  BY <1>1, <1>5 DEF FindKey, Untouched, outputs, Goto
<1>6. CASE MemoPut(b)
  BY <1>1, <1>6 DEF MemoPut, Untouched, outputs, Goto, locals
<1>7. CASE Lookup(b)
  BY <1>1, <1>7 DEF Lookup, Untouched, outputs, Goto, locals
<1>8. CASE Copy(b)
  BY <1>1, <1>8 DEF Copy, Untouched, outputs, NextModule, End, locals
<1>9. CASE Compile(b)
  BY <1>1, <1>9 DEF Compile, Untouched, outputs, NextModule, Goto
<1>10. CASE Put(b)
  BY <1>1, <1>10 DEF Put, Untouched, outputs, NextModule
<1>11. CASE GiveUp(b)
  BY <1>1, <1>11 DEF GiveUp, Untouched, outputs, End
<1>12. CASE LinkBegin(b)
  BY <1>1, <1>12 DEF LinkBegin, Untouched, outputs, Goto, locals
<1>13. CASE LinkEnd(b)
  BY <1>1, <1>13 DEF LinkEnd, Untouched, outputs, Goto, locals
<1>14. CASE LinkFails(b)
  BY <1>1, <1>14 DEF LinkFails, Untouched, outputs, End
<1>15. CASE HashBinary(b)
  BY <1>1, <1>15 DEF HashBinary, Untouched, outputs, Goto
<1>16. CASE WriteTmp(b)
  BY <1>1, <1>16 DEF WriteTmp, Untouched, outputs, Goto, locals
<1>17. CASE Replace(b)
  BY <1>1, <1>17 DEF Replace, Untouched, outputs, Goto, End, locals
<1>18. CASE Return(b)
  BY <1>1, <1>18 DEF Return, Untouched, outputs, End
<1>19. CASE Killed(b)
  BY <1>1, <1>19 DEF Killed, Untouched, outputs, End
<1> QED BY <1>2, <1>3, <1>4, <1>5, <1>6, <1>7, <1>8, <1>9, <1>10, <1>11, <1>12, <1>13, <1>14, <1>15, <1>16, <1>17, <1>18, <1>19 DEF Step

(* A build that ends keeps its types and owes nothing. *)
LEMMA EndBuild ==
  ASSUME IInv, NEW b \in Builders, End(b), UNCHANGED <<src, events, store, memo, outputs>>
  PROVE  TypeOK' /\ StoreOK' /\ MemoOK' /\ FilesOK' /\ Build(b)'
<1>1. TypeOK'
  BY BuildAssumption DEF IInv, TypeOK, End, outputs
<1>2. StoreOK' /\ MemoOK' /\ FilesOK'
  BY DEF IInv, StoreOK, StoreSound, MemoOK, FilesOK, RecOK, outputs
<1>3. pc'[b] = "idle" /\ at'[b] = 1
  BY DEF IInv, TypeOK, End
<1> QED
  BY <1>1, <1>2, <1>3
  DEF Build, Hashed, Keyed, Made, Written, ModuleStates, LinkedStates

(* What most steps leave alone. *)
LEMMA Kept ==
  ASSUME IInv
  PROVE  /\ UNCHANGED store => StoreOK'
         /\ UNCHANGED memo => MemoOK'
         /\ UNCHANGED <<manifest, tmp>> => FilesOK'
BY DEF IInv, StoreOK, StoreSound, MemoOK, FilesOK, RecOK

LEMMA HashSteps ==
  ASSUME IInv, NEW b \in Builders, Start(b) \/ HashSource(b) \/ FastPath(b)
  PROVE  TypeOK' /\ StoreOK' /\ MemoOK' /\ FilesOK' /\ Build(b)'
<1> USE BuildAssumption DEF ModuleStates, LinkedStates
<1>1. CASE Start(b)
  <2>1. [m \in Modules |-> First] \in Source /\ [m \in Modules |-> None] \in Linked
    BY DEF Source, Linked
  <2>2. TypeOK'
    BY <1>1, <2>1 DEF Start, Goto, IInv, TypeOK, outputs
  <2>3. at[b] = 1
    BY <1>1 DEF Start, IInv, Build, Hashed
  <2>4. Build(b)'
    BY <1>1, <2>1, <2>3
    DEF Start, Goto, IInv, TypeOK, Build, Hashed, Keyed, Made, Written
  <2> QED BY <1>1, <2>2, <2>4, Kept DEF Start, outputs
<1>2. CASE HashSource(b)
  <2>1. at[b] \in Modules /\ Now(b) \in Source /\ prov[b] \in Source
    BY <1>2 DEF HashSource, IInv, TypeOK, Build, Hashed, Modules, Now
  <2>2. [prov[b] EXCEPT ![at[b]] = Now(b)[at[b]]] \in Source
    BY <2>1 DEF Source
  <2>3. TypeOK'
    BY <1>2, <2>1, <2>2 DEF HashSource, IInv, TypeOK, outputs, Modules
  <2>4. pc'[b] = "hash" /\ at'[b] = at[b] + 1 /\ Now(b)' = Now(b)
        /\ prov'[b] = [prov[b] EXCEPT ![at[b]] = Now(b)[at[b]]]
        /\ made'[b] = made[b]
    BY <1>2 DEF HashSource, IInv, TypeOK, Now
  <2>5. Hashed(b)'
    <3>1. ASSUME NEW m \in 1..(at'[b] - 1) PROVE prov'[b][m] = Now(b)[m]
      <4>1. m \in Modules /\ (m = at[b] \/ m \in 1..(at[b] - 1))
        BY <2>1, <2>4 DEF Modules
      <4>2. \A n \in 1..(at[b] - 1) : prov[b][n] = Now(b)[n]
        BY <1>2 DEF HashSource, IInv, Build, Hashed
      <4> QED BY <4>1, <4>2, <2>1, <2>4 DEF Source
    <3> QED BY <2>2, <2>4, <3>1 DEF Hashed
  <2>6. Build(b)'
    BY <1>2, <2>4, <2>5 DEF HashSource, IInv, Build, Keyed, Made, Written
  <2> QED BY <1>2, <2>3, <2>6, Kept DEF HashSource, outputs
<1>3. CASE FastPath(b)
  <2>1. TypeOK'
    BY <1>3 DEF FastPath, IInv, TypeOK, outputs, locals
  <2>2. prov[b] = Now(b)
    <3>1. at[b] - 1 = N /\ Now(b) \in Source
      <4>1. at[b] \in 1..(N + 1) /\ at[b] > N /\ Now(b) \in Source
        BY <1>3 DEF FastPath, IInv, TypeOK, Now
      <4> QED BY ONLY <4>1, BuildAssumption
    <3>2. prov[b] \in Source /\ \A m \in Modules : prov[b][m] = Now(b)[m]
      BY <1>3, <3>1 DEF FastPath, IInv, Build, Hashed, Modules
    <3> QED BY <3>1, <3>2 DEF Source
  <2>3. UpToDate(Tree[b], prov[b]) => bin[Tree[b]] = Image(Now(b))
    BY <2>2 DEF UpToDate, IInv, FilesOK, RecOK
  <2>4. pc'[b] \in {"done", "key"} /\ at'[b] = 1 /\ Now(b)' = Now(b)
        /\ (pc'[b] = "done" => UpToDate(Tree[b], prov[b]))
    BY <1>3 DEF FastPath, IInv, TypeOK, Now
  <2>5. Build(b)'
    BY <1>3, <2>2, <2>3, <2>4
    DEF FastPath, IInv, Build, Hashed, Keyed, Made, Written, locals, outputs
  <2> QED BY <1>3, <2>1, <2>5, Kept DEF FastPath, outputs
<1> QED BY <1>1, <1>2, <1>3

LEMMA KeySteps ==
  ASSUME IInv, NEW b \in Builders, FindKey(b) \/ MemoPut(b) \/ Lookup(b)
  PROVE  TypeOK' /\ StoreOK' /\ MemoOK' /\ FilesOK' /\ Build(b)'
<1> USE BuildAssumption DEF ModuleStates, LinkedStates
<1>0. Tree[b] \in Trees /\ Now(b) \in Source
  BY DEF IInv, TypeOK, Now
<1>1. CASE FindKey(b)
  <2>1. at[b] \in Modules
    BY <1>1 DEF FindKey, IInv, TypeOK, Modules
  <2>2. MemoHit(Tree[b], at[b]) => memo[Tree[b]][at[b]].key = KeyOf(Now(b), at[b])
    BY <1>0, <2>1 DEF MemoHit, IInv, MemoOK, Now
  <2>3. KeyOf(Now(b), at[b]) \in Key
    BY <1>0, <2>1, CompiledType
  <2>4. key' = [key EXCEPT ![b] = KeyOf(Now(b), at[b])] /\ pc'[b] \in {"lookup", "memo"}
    BY <1>1, <2>2 DEF FindKey, Goto, IInv, TypeOK
  <2>5. TypeOK'
    <3>1. pc' = [pc EXCEPT ![b] = "lookup"] \/ pc' = [pc EXCEPT ![b] = "memo"]
      BY <1>1 DEF FindKey, Goto
    <3>2. key' \in [Builders -> Key \cup {None}]
      BY <2>3, <2>4 DEF IInv, TypeOK
    <3> QED BY <1>1, <3>1, <3>2 DEF FindKey, Goto, IInv, TypeOK, outputs
  <2>6. key'[b] = KeyOf(Now(b), at[b]) /\ at' = at /\ Now(b)' = Now(b)
    BY <1>1, <2>4 DEF FindKey, Goto, IInv, TypeOK, Now
  <2>7. Build(b)'
    BY <1>1, <2>1, <2>4, <2>6
    DEF FindKey, IInv, Build, Hashed, Keyed, Made, Written
  <2> QED BY <1>1, <2>5, <2>7, Kept DEF FindKey, outputs
<1>2. CASE MemoPut(b)
  <2> DEFINE entry == [files |-> [f \in Closure(at[b]) |-> Now(b)[f]], key |-> key[b]]
  <2>1. at[b] \in Modules /\ key[b] = KeyOf(Now(b), at[b])
    BY <1>2 DEF MemoPut, IInv, Build, Keyed
  <2>2. Closure(at[b]) \subseteq Modules
    BY <2>1 DEF Closure
  <2>3. entry \in Memo
    <3>1. [f \in Closure(at[b]) |-> Now(b)[f]] \in [Closure(at[b]) -> Contents]
      BY <1>0, <2>2 DEF Source
    <3>2. key[b] \in Key
      BY <1>0, <2>1, CompiledType
    <3> QED BY <2>1, <3>1, <3>2 DEF Memo
  <2>4. memo' = [memo EXCEPT ![Tree[b]][at[b]] = entry]
    BY <1>2 DEF MemoPut
  <2>5. \A s \in Source :
          (\A f \in Closure(at[b]) : entry.files[f] = s[f]) => entry.key = KeyOf(s, at[b])
    <3> TAKE s \in Source
    <3> HAVE \A f \in Closure(at[b]) : entry.files[f] = s[f]
    <3>1. \A f \in Closure(at[b]) : Now(b)[f] = s[f]
      OBVIOUS
    <3> QED BY <1>0, <2>1, <3>1, KeyOfClosure
  <2> HIDE DEF entry
  <2>6. TypeOK'
    <3>1. memo' \in [Trees -> [Modules -> Memo \cup {None}]]
      BY <1>0, <2>1, <2>3, <2>4 DEF IInv, TypeOK
    <3> QED BY <1>2, <3>1 DEF MemoPut, Goto, IInv, TypeOK, outputs, locals
  <2>7. MemoOK'
    <3>1. \A u \in Trees, n \in Modules :
            memo'[u][n] = IF u = Tree[b] /\ n = at[b] THEN entry ELSE memo[u][n]
      BY <1>0, <2>1, <2>4 DEF IInv, TypeOK
    <3> SUFFICES ASSUME NEW u \in Trees, NEW n \in Modules, memo'[u][n] # None
                 PROVE  \A s \in Source :
                          (\A f \in Closure(n) : memo'[u][n].files[f] = s[f])
                            => memo'[u][n].key = KeyOf(s, n)
      BY DEF MemoOK
    <3>2. CASE u = Tree[b] /\ n = at[b]
      BY <3>1, <3>2, <2>5
    <3>3. CASE ~(u = Tree[b] /\ n = at[b])
      BY <3>1, <3>3 DEF IInv, MemoOK
    <3> QED BY <3>2, <3>3
  <2>8. Build(b)'
    BY <1>2 DEF MemoPut, Goto, IInv, TypeOK, Build, Hashed, Keyed, Made, Written, Now,
       outputs, locals
  <2> QED BY <1>2, <2>6, <2>7, <2>8, Kept DEF MemoPut, outputs
<1>3. CASE Lookup(b)
  <2>1. TypeOK'
    BY <1>3 DEF Lookup, Goto, IInv, TypeOK, outputs, locals
  <2>2. Build(b)'
    BY <1>3 DEF Lookup, Goto, IInv, TypeOK, Build, Hashed, Keyed, Made, Written, Now,
       outputs, locals
  <2> QED BY <1>3, <2>1, <2>2, Kept DEF Lookup, outputs
<1> QED BY <1>1, <1>2, <1>3

LEMMA ModuleSteps ==
  ASSUME IInv, NEW b \in Builders, Copy(b) \/ Compile(b) \/ Put(b)
  PROVE  TypeOK' /\ StoreOK' /\ MemoOK' /\ FilesOK' /\ Build(b)'
<1> USE BuildAssumption DEF ModuleStates, LinkedStates
<1>0. /\ Tree[b] \in Trees /\ Now(b) \in Source
      /\ at[b] \in Modules /\ key[b] = KeyOf(Now(b), at[b])
      /\ made[b] \in Linked /\ prov[b] = Now(b)
      /\ Compiled(Now(b), at[b]) \in Object /\ key[b] \in Key
  <2>1. /\ Tree[b] \in Trees /\ Now(b) \in Source
        /\ at[b] \in Modules /\ key[b] = KeyOf(Now(b), at[b])
        /\ made[b] \in Linked /\ prov[b] = Now(b)
    BY DEF Copy, Compile, Put, IInv, TypeOK, Build, Hashed, Keyed, Made, Now
  <2> QED BY <2>1, CompiledType
<1>1. ASSUME NextModule(b), made' = [made EXCEPT ![b][at[b]] = Compiled(Now(b), at[b])],
             UNCHANGED <<src, events, memo, outputs, prov, failed, rec>>,
             store' \subseteq [key : Key, obj : Object],
             pc[b] \in {"copy", "compile"}
      PROVE  TypeOK' /\ Build(b)'
  <2>1. made'[b] = [made[b] EXCEPT ![at[b]] = Compiled(Now(b), at[b])] /\ made'[b] \in Linked
    BY <1>0, <1>1 DEF IInv, TypeOK, Linked
  <2>2. pc'[b] = "key" /\ at'[b] = at[b] + 1 /\ Now(b)' = Now(b)
    BY <1>1 DEF NextModule, IInv, TypeOK, Now
  <2>3. at'[b] \in 1..(N + 1)
    BY <1>0, <2>2 DEF Modules
  <2>4. TypeOK'
    BY <1>1, <2>1, <2>3 DEF NextModule, IInv, TypeOK, outputs
  <2>5. ASSUME NEW m \in 1..(at'[b] - 1), ~failed[b]
        PROVE  made'[b][m] = Compiled(Now(b), m)
    <3>1. m \in Modules /\ (m = at[b] \/ m \in 1..(at[b] - 1))
      BY <1>0, <2>2 DEF Modules
    <3>2. \A n \in 1..(at[b] - 1) : made[b][n] = Compiled(Now(b), n)
      BY <1>1, <2>5 DEF IInv, Build, Made
    <3> QED BY <1>0, <2>1, <3>1, <3>2 DEF Linked
  <2>6. Made(b)'
    BY <1>1, <2>1, <2>2, <2>5 DEF Made
  <2>7. Build(b)'
    BY <1>0, <1>1, <2>2, <2>6 DEF Build, Hashed, Keyed, Written
  <2> QED BY <2>4, <2>7
<1>2. CASE Copy(b)
  <2>1. CASE Has(key[b])
    <3>1. PICK e \in store : e.key = key[b] /\ made' = [made EXCEPT ![b][at[b]] = e.obj]
      BY <1>2, <2>1 DEF Copy
    <3>2. e.obj = Compiled(Now(b), at[b])
      BY <1>0, <3>1 DEF IInv, StoreOK, StoreSound
    <3>3. store' \subseteq [key : Key, obj : Object]
      BY <1>2 DEF Copy, IInv, TypeOK
    <3> QED BY <1>1, <1>2, <2>1, <3>1, <3>2, <3>3, Kept DEF Copy, outputs
  <2>2. CASE ~Has(key[b])
    BY <1>2, <2>2, EndBuild DEF Copy
  <2> QED BY <2>1, <2>2
<1>3. CASE Compile(b)
  <2>1. CASE Now(b)[at[b]] \in Broken
    <3>1. /\ failed' = [failed EXCEPT ![b] = TRUE] /\ NextModule(b) /\ UNCHANGED made
          /\ UNCHANGED <<src, events, store, memo, outputs, prov, rec>>
      BY <1>3, <2>1 DEF Compile
    <3>2. at'[b] = at[b] + 1 /\ pc'[b] = "key" /\ failed'[b] /\ Now(b)' = Now(b)
          /\ at'[b] \in 1..(N + 1)
      BY <1>0, <3>1 DEF NextModule, IInv, TypeOK, Now, Modules
    <3>3. TypeOK'
      BY <3>1, <3>2 DEF NextModule, IInv, TypeOK, outputs
    <3>4. Build(b)'
      BY <1>0, <3>1, <3>2 DEF Build, Hashed, Keyed, Made, Written
    <3> QED BY <3>1, <3>3, <3>4, Kept DEF outputs
  <2>2. CASE Now(b)[at[b]] \notin Broken
    <3>1. /\ made' = [made EXCEPT ![b][at[b]] = Compiled(Now(b), at[b])]
          /\ pc' = [pc EXCEPT ![b] = "put"]
          /\ UNCHANGED <<src, events, store, memo, outputs, prov, rec, at, key, failed>>
      BY <1>3, <2>2 DEF Compile, Goto
    <3>2. made'[b] = [made[b] EXCEPT ![at[b]] = Compiled(Now(b), at[b])]
          /\ made'[b] \in Linked /\ Now(b)' = Now(b) /\ pc'[b] = "put"
      BY <1>0, <3>1 DEF IInv, TypeOK, Linked, Now
    <3>3. TypeOK'
      BY <3>1, <3>2 DEF IInv, TypeOK, outputs
    <3>4. ASSUME NEW m \in 1..(at[b] - 1), ~failed[b]
          PROVE  made'[b][m] = Compiled(Now(b), m)
      <4>1. m \in Modules /\ m # at[b]
        BY <1>0 DEF Modules
      <4>2. \A n \in 1..(at[b] - 1) : made[b][n] = Compiled(Now(b), n)
        BY <1>3, <3>4 DEF Compile, IInv, Build, Made
      <4> QED BY <1>0, <3>2, <4>1, <4>2 DEF Linked
    <3>5. made'[b][at[b]] = Compiled(Now(b), at[b])
      BY <1>0, <3>2 DEF Linked
    <3>6. Made(b)'
      BY <3>1, <3>2, <3>4, <3>5 DEF Made
    <3>7. Build(b)'
      BY <1>0, <3>1, <3>2, <3>6 DEF Build, Hashed, Keyed, Written
    <3> QED BY <3>1, <3>3, <3>7, Kept DEF outputs
  <2> QED BY <2>1, <2>2
<1>4. CASE Put(b)
  <2> DEFINE new == [key |-> key[b], obj |-> made[b][at[b]]]
  <2>1. made[b][at[b]] = Compiled(Now(b), at[b])
    BY <1>4 DEF Put, IInv, Build, Made
  <2>2. new \in [key : Key, obj : Object]
    BY <1>0, <2>1
  <2>3. ASSUME NEW s \in Source, NEW m \in Modules, KeyOf(s, m) = new.key
        PROVE  Compiled(s, m) = new.obj
    BY <1>0, <2>1, <2>3, KeyNamesInputs
  <2>4. store' = {e \in store : e.key # key[b]} \cup {new}
    BY <1>4 DEF Put
  <2> HIDE DEF new
  <2>5. StoreOK'
    BY <2>3, <2>4 DEF IInv, StoreOK, StoreSound
  <2>6. /\ pc'[b] = "key" /\ at'[b] = at[b] + 1 /\ at'[b] \in 1..(N + 1)
        /\ Now(b)' = Now(b) /\ pc[b] = "put"
    BY <1>0, <1>4 DEF Put, NextModule, IInv, TypeOK, Now, Modules
  <2>7. TypeOK'
    <3>1. store' \subseteq [key : Key, obj : Object]
      BY <2>2, <2>4 DEF IInv, TypeOK
    <3> QED BY <1>4, <2>6, <3>1 DEF Put, NextModule, IInv, TypeOK, outputs
  <2>8. ASSUME NEW m \in 1..(at'[b] - 1), ~failed[b]
        PROVE  made[b][m] = Compiled(Now(b), m)
    <3>1. m = at[b] \/ m \in 1..(at[b] - 1)
      BY <1>0, <2>6 DEF Modules
    <3>2. \A n \in 1..(at[b] - 1) : made[b][n] = Compiled(Now(b), n)
      BY <2>6, <2>8 DEF IInv, Build, Made
    <3> QED BY <2>1, <3>1, <3>2
  <2>9. Made(b)'
    BY <1>0, <1>4, <2>6, <2>8 DEF Put, Made
  <2>10. Build(b)'
    BY <1>0, <1>4, <2>6, <2>9 DEF Put, Build, Hashed, Keyed, Written
  <2> QED BY <1>4, <2>5, <2>7, <2>10, Kept DEF Put, outputs
<1> QED BY <1>2, <1>3, <1>4

LEMMA LinkSteps ==
  ASSUME IInv, NEW b \in Builders,
         \/ GiveUp(b) \/ LinkBegin(b) \/ LinkEnd(b) \/ LinkFails(b)
         \/ HashBinary(b) \/ WriteTmp(b) \/ Replace(b) \/ Return(b) \/ Killed(b)
  PROVE  TypeOK' /\ StoreOK' /\ MemoOK' /\ FilesOK' /\ Build(b)'
<1> USE BuildAssumption DEF ModuleStates, LinkedStates
<1>0. Tree[b] \in Trees /\ Now(b) \in Source
  BY DEF IInv, TypeOK, Now
<1>1. CASE GiveUp(b) \/ LinkFails(b) \/ Return(b) \/ Killed(b)
  BY <1>1, EndBuild DEF GiveUp, LinkFails, Return, Killed
<1>2. CASE LinkBegin(b)
  <2>1. TypeOK'
    BY <1>2, <1>0 DEF LinkBegin, Goto, IInv, TypeOK, locals
  <2>2. Now(b)' = Now(b) /\ pc'[b] = "link" /\ made[b] = Image(Now(b)) /\ prov[b] = Now(b)
    <3>1. at[b] - 1 = N /\ made[b] \in Linked
      <4>1. at[b] \in 1..(N + 1) /\ at[b] > N /\ made[b] \in Linked
        BY <1>2 DEF LinkBegin, IInv, TypeOK, Build, Made
      <4> QED BY ONLY <4>1, BuildAssumption
    <3>2. \A m \in Modules : made[b][m] = Compiled(Now(b), m)
      BY <1>2, <3>1 DEF LinkBegin, IInv, Build, Made, Modules
    <3>3. made[b] = Image(Now(b))
      BY <3>1, <3>2 DEF Linked, Image
    <3> QED BY <1>2, <3>3 DEF LinkBegin, Goto, IInv, TypeOK, Build, Hashed, Now
  <2>3. Build(b)'
    BY <1>2, <2>2 DEF LinkBegin, IInv, Build, Hashed, Keyed, Made, Written, locals
  <2> QED BY <1>2, <2>1, <2>3, Kept DEF LinkBegin
<1>3. CASE LinkEnd(b)
  <2>1. made[b] = Image(Now(b)) /\ made[b] \in Linked /\ prov[b] = Now(b)
    BY <1>3 DEF LinkEnd, IInv, Build, Hashed, Made
  <2>2. TypeOK'
    BY <1>3, <1>0, <2>1 DEF LinkEnd, Goto, IInv, TypeOK, locals
  <2>3. Now(b)' = Now(b) /\ pc'[b] = "sha" /\ bin'[Tree[b]] = made[b]
    BY <1>3, <1>0 DEF LinkEnd, Goto, IInv, TypeOK, Now
  <2>4. Build(b)'
    BY <1>3, <2>1, <2>3 DEF LinkEnd, Build, Hashed, Keyed, Made, Written, locals
  <2> QED BY <1>3, <2>2, <2>4, Kept DEF LinkEnd
<1>4. CASE HashBinary(b)
  <2> DEFINE r == [prov |-> prov[b], sha |-> bin[Tree[b]]]
  <2>1. prov[b] = Now(b) /\ bin[Tree[b]] = Image(Now(b)) /\ made[b] \in Linked
    BY <1>4 DEF HashBinary, IInv, Build, Hashed, Made, Written
  <2>2. r \in Record /\ RecOK(r)
    BY <1>0, <2>1 DEF Record, IInv, TypeOK, RecOK
  <2>3. rec' = [rec EXCEPT ![b] = r]
    BY <1>4 DEF HashBinary
  <2> HIDE DEF r
  <2>4. TypeOK'
    BY <1>4, <2>2, <2>3 DEF HashBinary, Goto, IInv, TypeOK, outputs
  <2>5. Now(b)' = Now(b) /\ pc'[b] = "write" /\ rec'[b] = r
    BY <1>4, <2>3 DEF HashBinary, Goto, IInv, TypeOK, Now
  <2>6. Build(b)'
    BY <1>4, <2>1, <2>2, <2>5
    DEF HashBinary, Build, Hashed, Keyed, Made, Written, RecOK, outputs
  <2> QED BY <1>4, <2>4, <2>6, Kept DEF HashBinary, outputs
<1>5. CASE WriteTmp(b)
  <2>1. RecOK(rec[b]) /\ rec[b] \in Record \cup {None}
    BY <1>5 DEF WriteTmp, IInv, TypeOK, Build, Written
  <2>2. TypeOK'
    BY <1>5, <1>0, <2>1 DEF WriteTmp, Goto, IInv, TypeOK, locals
  <2>3. FilesOK'
    BY <1>5, <1>0, <2>1 DEF WriteTmp, IInv, TypeOK, FilesOK, RecOK
  <2>4. Build(b)'
    BY <1>5 DEF WriteTmp, Goto, IInv, TypeOK, Build, Hashed, Keyed, Made, Written, Now,
       locals
  <2> QED BY <1>5, <2>2, <2>3, <2>4, Kept DEF WriteTmp
<1>6. CASE Replace(b)
  <2>1. CASE tmp[Tree[b]] = None
    BY <1>6, <2>1, EndBuild DEF Replace, outputs
  <2>2. CASE tmp[Tree[b]] # None
    <3>1. TypeOK'
      BY <1>6, <1>0, <2>2 DEF Replace, Goto, IInv, TypeOK, locals
    <3>2. FilesOK'
      <4>1. /\ manifest' = [manifest EXCEPT ![Tree[b]] = tmp[Tree[b]]]
            /\ tmp' = [tmp EXCEPT ![Tree[b]] = None]
        BY <1>6, <2>2 DEF Replace
      <4>2. \A t \in Trees : /\ manifest'[t] \in {manifest[t], tmp[t]}
                             /\ tmp'[t] \in {tmp[t], None}
        BY <1>0, <4>1 DEF IInv, TypeOK
      <4> QED BY <4>2 DEF IInv, FilesOK, RecOK
    <3>3. Build(b)'
      BY <1>6, <2>2 DEF Replace, Goto, IInv, TypeOK, Build, Hashed, Keyed, Made, Written,
         Now, locals
    <3> QED BY <1>6, <3>1, <3>2, <3>3, Kept DEF Replace
  <2> QED BY <2>1, <2>2
<1> QED BY <1>1, <1>2, <1>3, <1>4, <1>5, <1>6

(* Edits, and what the collector takes.                                    *)
LEMMA OutsideSteps ==
  ASSUME Quiet, IInv,
         \/ \E t \in Trees, m \in Modules :
              EvictMemo(t, m) \/ \E c \in Contents : Edit(t, m, c)
         \/ \E e \in store : Evict(e)
  PROVE  IInv'
<1> USE BuildAssumption
<1>1. ASSUME NEW t \in Trees, NEW m \in Modules, EvictMemo(t, m) PROVE IInv'
  <2>1. TypeOK'
    BY <1>1 DEF EvictMemo, IInv, TypeOK, outputs, locals
  <2>2. MemoOK'
    <3>1. \A u \in Trees, n \in Modules :
            memo'[u][n] # None => memo'[u][n] = memo[u][n]
      BY <1>1 DEF EvictMemo, IInv, TypeOK
    <3> QED BY <3>1 DEF IInv, MemoOK
  <2>3. ASSUME NEW b \in Builders PROVE Build(b)'
    BY <1>1, Frame DEF EvictMemo, IInv, Untouched, outputs, locals
  <2> QED BY <1>1, <2>1, <2>2, <2>3, Kept DEF EvictMemo, IInv, outputs
<1>2. ASSUME NEW t \in Trees, NEW m \in Modules, NEW c \in Contents, Edit(t, m, c)
      PROVE IInv'
  <2>1. TypeOK'
    BY <1>2 DEF Edit, IInv, TypeOK, Source, outputs, locals
  <2>2. ASSUME NEW b \in Builders PROVE Build(b)'
    <3>1. pc[b] # "idle" => src'[Tree[b]] = src[Tree[b]]
      BY <1>2 DEF Edit, Quiet, IInv, TypeOK
    <3> QED BY <1>2, <3>1, Frame DEF Edit, IInv, Untouched, outputs, locals
  <2> QED BY <1>2, <2>1, <2>2, Kept DEF Edit, IInv, outputs
<1>3. ASSUME NEW e \in store, Evict(e) PROVE IInv'
  <2>1. TypeOK'
    BY <1>3 DEF Evict, IInv, TypeOK, outputs, locals
  <2>2. StoreOK'
    BY <1>3 DEF Evict, IInv, StoreOK, StoreSound
  <2>3. ASSUME NEW b \in Builders PROVE Build(b)'
    BY <1>3, Frame DEF Evict, IInv, Untouched, outputs, locals
  <2> QED BY <1>3, <2>1, <2>2, <2>3, Kept DEF Evict, IInv, outputs
<1> QED BY <1>1, <1>2, <1>3

LEMMA StepIInv == ASSUME Quiet, IInv, [Next]_vars PROVE IInv'
<1>1. ASSUME NEW b \in Builders, Start(b) \/ Step(b) \/ Killed(b) PROVE IInv'
  <2>1. TypeOK' /\ StoreOK' /\ MemoOK' /\ FilesOK' /\ Build(b)'
    BY <1>1, HashSteps, KeySteps, ModuleSteps, LinkSteps DEF Step
  <2>2. \A c \in Builders : c # b => Build(c)'
    BY <1>1, OthersUntouched
  <2> QED BY <2>1, <2>2 DEF IInv
<1>2. CASE UNCHANGED vars
  <2>1. \A b \in Builders : Build(b)'
    BY <1>2, Frame DEF vars, IInv, Untouched, outputs, locals
  <2>2. TypeOK'
    BY <1>2 DEF vars, IInv, TypeOK, outputs, locals
  <2> QED BY <1>2, <2>1, <2>2, Kept DEF vars, IInv, outputs
<1> QED BY <1>1, <1>2, OutsideSteps DEF Next

(* The invariant holds in every state of every run of quiet builds. *)
THEOREM BuildInvariant == ASSUME Quiet PROVE Spec => []IInv
<1>1. IInv /\ [Next]_vars => IInv'
  BY StepIInv
<1> QED BY InitIInv, <1>1, PTL DEF Spec

(* Every variable keeps its type. *)
THEOREM BuildTypeCorrect == ASSUME Quiet PROVE Spec => []TypeOK
<1>1. IInv => TypeOK
  BY DEF IInv
<1> QED BY <1>1, BuildInvariant, PTL

(* A binary the next build would take as it is, is the image of its        *)
(* sources.                                                                *)
THEOREM BuildUpToDateIsFresh == ASSUME Quiet PROVE Spec => []UpToDateIsFresh
<1>1. IInv => UpToDateIsFresh
  BY DEF IInv, FilesOK, RecOK, UpToDateIsFresh, UpToDate
<1> QED BY <1>1, BuildInvariant, PTL

(* Sources with the key of a stored object would have compiled to it, in   *)
(* every tree.                                                             *)
THEOREM BuildStoreSound == ASSUME Quiet PROVE Spec => []StoreSound
<1>1. IInv => StoreSound
  BY DEF IInv, StoreOK
<1> QED BY <1>1, BuildInvariant, PTL

(* Memos never give a build a key its sources do not have. *)
THEOREM BuildKeysAreCurrent == ASSUME Quiet PROVE Spec => []KeysAreCurrent
<1>1. IInv => KeysAreCurrent
  BY DEF IInv, Build, Keyed, KeysAreCurrent, ModuleStates
<1> QED BY <1>1, BuildInvariant, PTL

(* A build that returns a binary returns the image of its sources. *)
THEOREM BuildReturnsFresh == ASSUME Quiet PROVE Spec => []ReturnsFresh
<1>1. IInv => ReturnsFresh
  BY DEF IInv, Build, Written, ReturnsFresh, LinkedStates
<1> QED BY <1>1, BuildInvariant, PTL

=============================================================================
