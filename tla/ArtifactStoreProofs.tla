------------------------ MODULE ArtifactStoreProofs ------------------------
(***************************************************************************)
(* What ArtifactStore promises, for any number of processes, keys and      *)
(* inodes and any limit on the store.                                      *)
(*                                                                         *)
(* The argument is about inodes.  Two calls for one key that both hold a   *)
(* lock either hold it on the same inode, which flock forbids, or one of   *)
(* them holds an inode that the lock file's name no longer leads to.  A    *)
(* name is only removed once the object is there (Orphans), and a call     *)
(* that goes on to compile has just seen that it is not.                   *)
(***************************************************************************)
EXTENDS ArtifactStore, TLAPS

(* The part of the type the argument needs: gc's list and the ranks of the *)
(* objects' times play no role in it.                                      *)
Types ==
  /\ pc \in [Procs -> Holding \cup {"idle", "open", "flock", "hit", "copy"}]
  /\ key \in [Procs -> Keys]
  /\ out \in [Procs -> {"none", "built", "failed"}]
  /\ fd \in [Procs -> Inodes \cup {None}]
  /\ lockFile \in [Keys -> Inodes \cup {None}]
  /\ holder \in [Inodes -> Procs \cup {None}]

(* Which calls have a lock file open, and which of them hold its lock. *)
Opened(p) ==
  /\ pc[p] \in Holding \cup {"flock"} => fd[p] # None
  /\ pc[p] \in {"idle", "open", "copy"} => fd[p] = None
Holds(p) ==
  pc[p] \in Holding \cup {"hit"} /\ fd[p] # None => holder[fd[p]] = p

(* Without a deletion under the call: an inode that has lost its name      *)
(* belongs to a finished build, a builder has seen no object, and who      *)
(* removes the lock file or was told of a hit can see the object.          *)
Orphans(p) == fd[p] # None /\ fd[p] # lockFile[key[p]] => Has(key[p])
Misses(p)  == pc[p] \in Building => ~Has(key[p])
Sees(p)    ==
  \/ pc[p] \in {"unlink", "hit", "copy"}
  \/ pc[p] = "unlock" /\ out[p] = "none"
  => Has(key[p])
Quiet(p) == key[p] \notin raced => Orphans(p) /\ Misses(p) /\ Sees(p)

IInv ==
  /\ Types
  /\ \A p \in Procs : Opened(p) /\ Holds(p) /\ Quiet(p)

-----------------------------------------------------------------------------

(* Two builders of one key are one, unless gc deleted its object.  *)
LEMMA OneBuilder ==
  ASSUME IInv, NEW p \in Procs, NEW q \in Procs,
         pc[p] \in Building, pc[q] \in Building,
         key[p] = key[q], key[p] \notin raced
  PROVE  p = q
<1>1. fd[p] # None /\ fd[q] # None /\ holder[fd[p]] = p /\ holder[fd[q]] = q
  BY DEF IInv, Opened, Holds, Holding
<1>2. ~Has(key[p])
  BY DEF IInv, Quiet, Misses
<1>3. fd[p] = lockFile[key[p]] /\ fd[q] = lockFile[key[q]]
  BY <1>1, <1>2 DEF IInv, Quiet, Orphans
<1> QED BY <1>1, <1>3

LEMMA InitIInv == Init => IInv
BY StoreAssumption DEF Init, IInv, Types, Opened, Holds, Quiet, Orphans, Misses, Sees,
   Holding, Building, Has

(* What the end of a call does to its lock, whether it held one or not. *)
Frees(p) ==
  /\ fd' = [fd EXCEPT ![p] = None]
  /\ holder' \in [Inodes -> Procs \cup {None}]
  /\ \A i \in Inodes : holder[i] # p => holder'[i] = holder[i]
  /\ UNCHANGED lockFile

LEMMA UnhandFrees ==
  ASSUME IInv, NEW p \in Procs, Unhand(p) PROVE Frees(p)
BY StoreAssumption DEF IInv, Types, Unhand, Frees

(* A call that returns takes its history with it, and only its own. *)
LEMMA ReturnQuiet ==
  ASSUME IInv, NEW p \in Procs, pc[p] # "idle", Return(p), Frees(p), UNCHANGED stored
  PROVE  IInv'
<1> USE DEF Return, Frees, Building, Holding
<1>1. Types'
  BY StoreAssumption DEF IInv, Types
<1>2. ASSUME NEW q \in Procs PROVE (Opened(q) /\ Holds(q) /\ Quiet(q))'
  <2>1. CASE q = p
    BY <1>1, <2>1, StoreAssumption
    DEF IInv, Types, Opened, Holds, Quiet, Orphans, Misses, Sees, Has
  <2>2. CASE q # p
    <3>1. pc'[q] = pc[q] /\ key'[q] = key[q] /\ out'[q] = out[q] /\ fd'[q] = fd[q]
      BY <2>2 DEF IInv, Types
    <3>2. Opened(q)'
      BY <3>1 DEF IInv, Opened
    <3>3. Holds(q)'
      BY <3>1, <2>2, StoreAssumption DEF IInv, Types, Opened, Holds
    <3>4. Quiet(q)'
      <4>1. CASE key[q] \notin raced
        BY <4>1, <3>1 DEF IInv, Quiet, Orphans, Misses, Sees, Has
      <4>2. CASE key[q] \in raced /\ key[q] # key[p]
        BY <4>2, <3>1 DEF Quiet
      <4>3. CASE key[q] = key[p] /\ pc[q] = "idle"
        BY <4>3, <3>1 DEF IInv, Opened, Quiet, Orphans, Misses, Sees, Has
      <4>4. CASE key[q] = key[p] /\ pc[q] # "idle" /\ key[q] \in raced
        BY <4>4, <3>1, <2>2 DEF InCall, Quiet
      <4> QED BY <4>1, <4>2, <4>3, <4>4
    <3> QED BY <3>2, <3>3, <3>4
  <2> QED BY <2>1, <2>2
<1> QED BY <1>1, <1>2 DEF IInv

LEMMA StepIInv == IInv /\ [Next]_vars => IInv'
<1> SUFFICES ASSUME IInv, [Next]_vars PROVE IInv'
  OBVIOUS
<1> USE StoreAssumption DEF Goto, Building, Holding
<1>1. ASSUME NEW p \in Procs, NEW k \in Keys, Request(p, k) PROVE IInv'
  BY <1>1 DEF Request, IInv, Types, Opened, Holds, Quiet, Orphans, Misses, Sees, Has,
     locks, files
<1>2. ASSUME NEW p \in Procs, Open(p) PROVE IInv'
  <2>1. CASE lockFile[key[p]] # None
    BY <1>2, <2>1 DEF Open, IInv, Types, Opened, Holds, Quiet, Orphans, Misses, Sees,
       Has, files
  <2>2. CASE lockFile[key[p]] = None
    <3>1. FreeInode \in Inodes
      BY <1>2, <2>2 DEF Open, FreeInode
    <3>2. Types'
      BY <1>2, <2>2, <3>1 DEF Open, IInv, Types
    <3>3. ASSUME NEW q \in Procs PROVE (Opened(q) /\ Holds(q) /\ Quiet(q))'
      BY <1>2, <2>2, <3>1, <3>2, <3>3
      DEF Open, IInv, Types, Opened, Holds, Quiet, Orphans, Misses, Sees, Has, files
    <3> QED BY <3>2, <3>3 DEF IInv
  <2> QED BY <2>1, <2>2
<1>3. ASSUME NEW p \in Procs, Flock(p) PROVE IInv'
  BY <1>3 DEF Flock, IInv, Types, Opened, Holds, Quiet, Orphans, Misses, Sees, Has, files
<1>4. ASSUME NEW p \in Procs, Recheck(p) PROVE IInv'
  BY <1>4 DEF Recheck, IInv, Types, Opened, Holds, Quiet, Orphans, Misses, Sees, Has,
     files, locks
<1>5. ASSUME NEW p \in Procs, Touch(p) PROVE IInv'
  BY <1>5 DEF Touch, IInv, Types, Opened, Holds, Quiet, Orphans, Misses, Sees, Has, locks
<1>6. ASSUME NEW p \in Procs, Compile(p) \/ Fail(p) PROVE IInv'
  BY <1>6 DEF Compile, Fail, IInv, Types, Opened, Holds, Quiet, Orphans, Misses, Sees,
     Has, locks, files
<1>7. ASSUME NEW p \in Procs, Put(p) PROVE IInv'
  <2>1. Types'
    BY <1>7 DEF Put, IInv, Types, locks
  <2>2. ASSUME NEW q \in Procs PROVE (Opened(q) /\ Holds(q))'
    BY <1>7 DEF Put, IInv, Types, Opened, Holds, locks
  <2>3. ASSUME NEW q \in Procs PROVE Quiet(q)'
    <3>1. CASE key[q] # key[p]
      BY <1>7, <3>1 DEF Put, Store, IInv, Types, Quiet, Orphans, Misses, Sees, Has, locks
    <3>2. CASE q = p
      BY <1>7, <3>2 DEF Put, Store, IInv, Types, Quiet, Orphans, Misses, Sees, Has, locks
    <3>3. CASE q # p /\ key[q] = key[p]
      <4>1. key[q] \in raced \/ pc[q] \notin Building
        BY <1>7, <3>3, OneBuilder DEF Put
      <4> QED
        BY <1>7, <3>3, <4>1
        DEF Put, Store, IInv, Types, Quiet, Orphans, Misses, Sees, Has, locks
    <3> QED BY <3>1, <3>2, <3>3
  <2> QED BY <2>1, <2>2, <2>3 DEF IInv
<1>8. ASSUME NEW p \in Procs, Unlink(p) PROVE IInv'
  BY <1>8 DEF Unlink, IInv, Types, Opened, Holds, Quiet, Orphans, Misses, Sees, Has, files
<1>9. ASSUME NEW p \in Procs, Unlock(p) PROVE IInv'
  <2>1. CASE out[p] # "none"
    BY <1>9, <2>1, UnhandFrees, ReturnQuiet DEF Unlock, files
  <2>2. CASE out[p] = "none"
    <3>1. Types'
      BY <1>9, <2>2 DEF Unlock, Unhand, IInv, Types
    <3>2. ASSUME NEW q \in Procs PROVE (Opened(q) /\ Holds(q) /\ Quiet(q))'
      BY <1>9, <2>2, <3>1
      DEF Unlock, Unhand, IInv, Types, Opened, Holds, Quiet, Orphans, Misses, Sees, Has,
          files
    <3> QED BY <3>1, <3>2 DEF IInv
  <2> QED BY <2>1, <2>2
<1>10. ASSUME NEW p \in Procs, Copy(p) PROVE IInv'
  <2>1. Frees(p)
    BY <1>10 DEF Copy, IInv, Types, Opened, Frees, locks
  <2> QED BY <1>10, <2>1, ReturnQuiet DEF Copy, files
<1>11. ASSUME NEW p \in Procs, Die(p) PROVE IInv'
  BY <1>11, UnhandFrees, ReturnQuiet DEF Die, files
<1>12. CASE GcScan
  BY <1>12 DEF GcScan, IInv, Types, Opened, Holds, Quiet, Orphans, Misses, Sees, Has,
     calls, locks, files
<1>13. CASE GcDelete
  <2> DEFINE k == Head(gcList)
  <2>1. /\ UNCHANGED <<calls, locks>> /\ stored' = stored \ {k}
        /\ raced' = IF InCall(k) # {} THEN raced \cup {k} ELSE raced
    BY <1>13 DEF GcDelete
  <2> HIDE DEF k
  <2>2. ASSUME NEW p \in Procs PROVE Quiet(p)'
    <3>1. CASE pc[p] = "idle"
      BY <2>1, <3>1 DEF IInv, Opened, Quiet, Orphans, Misses, Sees, calls, locks
    <3>2. CASE pc[p] # "idle" /\ key[p] = k
      BY <2>1, <3>2 DEF InCall, Quiet, calls
    <3>3. CASE key[p] # k
      BY <2>1, <3>3 DEF IInv, Quiet, Orphans, Misses, Sees, Has, calls, locks
    <3> QED BY <3>1, <3>2, <3>3
  <2> QED BY <2>1, <2>2 DEF IInv, Types, Opened, Holds, calls, locks
<1>14. CASE UNCHANGED vars
  BY <1>14 DEF vars, IInv, Types, Opened, Holds, Quiet, Orphans, Misses, Sees, Has,
     calls, locks, files
<1> QED
  BY <1>1, <1>2, <1>3, <1>4, <1>5, <1>6, <1>7, <1>8, <1>9, <1>10, <1>11, <1>12, <1>13,
     <1>14 DEF Next, Step

(* The invariant holds in every state of every run. *)
THEOREM StoreInvariant == Spec => []IInv
BY InitIInv, StepIInv, PTL DEF Spec

(* Two calls never compile one key at the same time while gc leaves the    *)
(* key's object alone, whatever fails and whoever is killed.               *)
THEOREM StoreSingleFlight == Spec => []SingleFlight
<1>1. IInv => SingleFlight
  BY OneBuilder DEF SingleFlight
<1> QED BY <1>1, StoreInvariant, PTL

(* An object is never replaced, on the same condition. *)
THEOREM StoreNeverRewritten == Spec => []NeverRewritten
<1>1. IInv => NeverRewritten
  BY DEF IInv, Quiet, Misses, NeverRewritten
<1> QED BY <1>1, StoreInvariant, PTL

(* Who was told of a hit can read the object, on the same condition. *)
THEOREM StoreHitsAreReadable == Spec => []HitsAreReadable
<1>1. IInv => HitsAreReadable
  BY DEF IInv, Quiet, Sees, HitsAreReadable
<1> QED BY <1>1, StoreInvariant, PTL

=============================================================================
