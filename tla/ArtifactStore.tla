---------------------------- MODULE ArtifactStore ----------------------------
(***************************************************************************)
(* The content-addressed store of compiled modules that every build        *)
(* process, test runner and worktree on a machine shares                   *)
(* (projects/ritz/cas.py).                                                 *)
(*                                                                         *)
(* A call of get_or_build looks for the object of its key.  When it is     *)
(* missing the call opens the key's lock file, takes a flock on the inode  *)
(* it opened, looks again, compiles, stores what it made, and              *)
(* removes the lock file while it still holds the lock.  flock locks an    *)
(* inode, not a name: who waits on the inode of a removed file holds a     *)
(* lock nobody else will ask for.  Beside the callers a collector deletes  *)
(* the least recently used files, compilers fail, and processes are killed *)
(* at any point, which closes their files and so releases their locks.     *)
(***************************************************************************)
EXTENDS Naturals, FiniteSets, SequencesExt

CONSTANTS
  Procs,    \* processes and threads that build
  Keys,     \* keys of modules
  Inodes,   \* inodes for lock files, enough for all that are in use
  MaxObjects, \* gc's max_bytes, every object counted as one
  None

ASSUME StoreAssumption ==
  /\ None \notin Procs \cup Inodes
  /\ MaxObjects \in Nat
  /\ IsFiniteSet(Keys)

VARIABLES
  pc, key, out,  \* where each call is, its key, and what its build came to
  fd,            \* inode of the lock file a call has open
  lockFile,      \* inode the lock file's name leads to
  holder,        \* who holds the flock of an inode
  stored,        \* keys whose object is in the store (the IR stored beside
                 \* it is never looked for)
  mtime,         \* their modification times, as ranks
  gcList,        \* what gc decided to delete, oldest first
  raced          \* history: keys whose object gc deleted under a call

calls == <<pc, key, out>>
locks == <<fd, lockFile, holder>>
files == <<stored, mtime>>
vars  == <<calls, locks, files, gcList, raced>>

Has(k) == k \in stored

(* The calls of get_or_build for k that have not returned. *)
InCall(k) == {p \in Procs : pc[p] # "idle" /\ key[p] = k}

(* States in which a call holds its lock, and those in which it is the one *)
(* that compiles.                                                          *)
Building == {"build", "put"}
Holding  == Building \cup {"recheck", "unlink", "unlock"}

Init ==
  /\ pc = [p \in Procs |-> "idle"]
  /\ key \in [Procs -> Keys]
  /\ out = [p \in Procs |-> "none"]
  /\ fd = [p \in Procs |-> None]
  /\ lockFile = [k \in Keys |-> None]
  /\ holder = [i \in Inodes |-> None]
  /\ stored = {} /\ mtime = [k \in Keys |-> 0]
  /\ gcList = <<>>
  /\ raced = {}

-----------------------------------------------------------------------------
(* Objects: a write and os.utime make one the newest.                      *)

Ranked(S, time) ==
  [k \in Keys |-> IF k \in S THEN Cardinality({j \in S : time[j] <= time[k]}) ELSE 0]

Newest(S, k) == Ranked(S, [mtime EXCEPT ![k] = Cardinality(Keys) + 1])

(* A call that returns is over for the history too. *)
Return(p) ==
  /\ pc' = [pc EXCEPT ![p] = "idle"]
  /\ out' = [out EXCEPT ![p] = "none"]
  /\ raced' = IF InCall(key[p]) = {p} THEN raced \ {key[p]} ELSE raced
  /\ UNCHANGED key

Goto(p, where) ==
  /\ pc' = [pc EXCEPT ![p] = where]
  /\ UNCHANGED <<key, out>>

-----------------------------------------------------------------------------
(* get_or_build and the copy its callers make of a hit.                    *)

(* The first look, without the lock. *)
Request(p, k) ==
  /\ pc[p] = "idle"
  /\ key' = [key EXCEPT ![p] = k]
  /\ pc' = [pc EXCEPT ![p] = IF Has(k) THEN "hit" ELSE "open"]
  /\ UNCHANGED <<out, locks, files, gcList, raced>>

(* open(lock, "a"): the file that is there, or a new one. *)
InUse     == {fd[p] : p \in Procs} \cup {lockFile[k] : k \in Keys}
FreeInode == CHOOSE i \in Inodes : i \notin InUse
Open(p) ==
  /\ pc[p] = "open"
  /\ IF lockFile[key[p]] # None
     THEN /\ fd' = [fd EXCEPT ![p] = lockFile[key[p]]]
          /\ UNCHANGED lockFile
     ELSE /\ Inodes \ InUse # {}
          /\ fd' = [fd EXCEPT ![p] = FreeInode]
          /\ lockFile' = [lockFile EXCEPT ![key[p]] = FreeInode]
  /\ Goto(p, "flock")
  /\ UNCHANGED <<holder, files, gcList, raced>>

Flock(p) ==
  /\ pc[p] = "flock" /\ holder[fd[p]] = None
  /\ holder' = [holder EXCEPT ![fd[p]] = p]
  /\ Goto(p, "recheck")
  /\ UNCHANGED <<fd, lockFile, files, gcList, raced>>

(* Mutant: compiles without looking again. *)
NoRecheck(p) ==
  /\ pc[p] = "recheck"
  /\ Goto(p, "build")
  /\ UNCHANGED <<locks, files, gcList, raced>>

(* The second look, under the lock. *)
Recheck(p) ==
  /\ pc[p] = "recheck"
  /\ Goto(p, IF Has(key[p]) THEN "hit" ELSE "build")
  /\ UNCHANGED <<locks, files, gcList, raced>>

(* _hit: os.utime, whose failure on a deleted file is ignored.  A hit      *)
(* under the lock releases it before it returns.                           *)
Touch(p) ==
  /\ pc[p] = "hit"
  /\ mtime' = IF Has(key[p]) THEN Newest(stored, key[p]) ELSE mtime
  /\ Goto(p, IF fd[p] # None THEN "unlock" ELSE "copy")
  /\ UNCHANGED <<locks, stored, gcList, raced>>

(* Mutant: the lock file goes before the object is there. *)
UnlinkFirst(p) ==
  /\ pc[p] = "build"
  /\ lockFile' = [lockFile EXCEPT ![key[p]] = None]
  /\ Goto(p, "put")
  /\ UNCHANGED <<fd, holder, files, gcList, raced>>

(* build_fn compiles into the caller's own files, or raises BuildFailed. *)
Compile(p) ==
  /\ pc[p] = "build"
  /\ Goto(p, "put")
  /\ UNCHANGED <<locks, files, gcList, raced>>

(* Mutant: the exception is swallowed, and the call returns what it never  *)
(* stored as if it had been there.                                         *)
FailQuietly(p) ==
  /\ pc[p] \in Building
  /\ pc' = [pc EXCEPT ![p] = "unlock"]
  /\ UNCHANGED <<key, out, locks, files, gcList, raced>>

Fail(p) ==
  /\ pc[p] \in Building
  /\ pc' = [pc EXCEPT ![p] = "unlock"]
  /\ out' = [out EXCEPT ![p] = "failed"]
  /\ UNCHANGED <<key, locks, files, gcList, raced>>

(* put: the temporary file replaces whatever has the name. *)
Store(k) ==
  /\ stored' = stored \cup {k}
  /\ mtime' = Newest(stored', k)

Put(p) ==
  /\ pc[p] = "put"
  /\ Store(key[p])
  /\ pc' = [pc EXCEPT ![p] = "unlink"]
  /\ out' = [out EXCEPT ![p] = "built"]
  /\ UNCHANGED <<key, locks, gcList, raced>>

(* lock.unlink(): the name goes, whichever inode it leads to. *)
Unlink(p) ==
  /\ pc[p] = "unlink"
  /\ lockFile' = [lockFile EXCEPT ![key[p]] = None]
  /\ Goto(p, "unlock")
  /\ UNCHANGED <<fd, holder, files, gcList, raced>>

(* The end of `with open(...)` and its finally. *)
Unhand(p) ==
  /\ fd' = [fd EXCEPT ![p] = None]
  /\ holder' = [i \in Inodes |-> IF holder[i] = p THEN None ELSE holder[i]]
  /\ UNCHANGED lockFile

(* Mutant: a failed build leaves without its finally. *)
UnlockBuilt(p) ==
  /\ pc[p] = "unlock"
  /\ IF out[p] = "failed" THEN UNCHANGED locks ELSE Unhand(p)
  /\ IF out[p] = "none"
     THEN Goto(p, "copy") /\ UNCHANGED raced
     ELSE Return(p)
  /\ UNCHANGED <<files, gcList>>

Unlock(p) ==
  /\ pc[p] = "unlock"
  /\ Unhand(p)
  /\ IF out[p] = "none"
     THEN Goto(p, "copy") /\ UNCHANGED raced
     ELSE Return(p)
  /\ UNCHANGED <<files, gcList>>

(* shutil.copyfile(stored, out), which raises when the file is gone. *)
Copy(p) ==
  /\ pc[p] = "copy"
  /\ Return(p)
  /\ UNCHANGED <<locks, files, gcList>>

(* A build is killed: by its caller's timeout, by a signal. *)
Die(p) ==
  /\ pc[p] # "idle"
  /\ Unhand(p)
  /\ Return(p)
  /\ UNCHANGED <<files, gcList>>

-----------------------------------------------------------------------------
(* gc: a scan decides what goes, then the files go one by one.             *)

Oldest == SetToSortSeq(stored, LAMBDA j, k : mtime[j] < mtime[k])

GcScan ==
  /\ gcList = <<>> /\ Cardinality(stored) > MaxObjects
  /\ gcList' = SubSeq(Oldest, 1, Cardinality(stored) - MaxObjects)
  /\ UNCHANGED <<calls, locks, files, raced>>

GcDelete ==
  /\ gcList # <<>>
  /\ LET k == Head(gcList) IN
       /\ stored' = stored \ {k}
       /\ mtime' = Ranked(stored', mtime)
       /\ raced' = IF InCall(k) # {} THEN raced \cup {k} ELSE raced
  /\ gcList' = Tail(gcList)
  /\ UNCHANGED <<calls, locks>>

-----------------------------------------------------------------------------
Step(p) ==
  \/ Open(p) \/ Flock(p) \/ Recheck(p) \/ Touch(p)
  \/ Compile(p) \/ Put(p) \/ Unlink(p) \/ Unlock(p) \/ Copy(p)

Next ==
  \/ \E p \in Procs :
       Step(p) \/ Fail(p) \/ Die(p) \/ \E k \in Keys : Request(p, k)
  \/ GcScan \/ GcDelete

Spec == Init /\ [][Next]_vars

(* A process that runs goes on, and the kernel gives a lock to each waiter *)
(* in its turn.                                                            *)
Fairness ==
  \A p \in Procs : WF_vars(Step(p)) /\ SF_vars(Flock(p))

FairSpec == Spec /\ Fairness

-----------------------------------------------------------------------------
(* Properties.                                                             *)

(* cas.py:342, "built at most once machine-wide however many processes and *)
(* threads miss on it together": two calls never compile one key at the    *)
(* same time, through failed builds, killed builders, and lock files that  *)
(* were removed under the callers that wait on them.  gc must not have     *)
(* deleted the object while calls for it were under way.                   *)
SingleFlight ==
  \A p, q \in Procs :
    /\ pc[p] \in Building /\ pc[q] \in Building
    /\ p # q /\ key[p] = key[q]
    => key[p] \in raced

(* cas.py:35, "entries are immutable once written": nobody is about to     *)
(* store an object that is already there, on the same condition.           *)
NeverRewritten ==
  \A p \in Procs : pc[p] \in Building /\ Has(key[p]) => key[p] \in raced

(* A call that was told of a hit can read the object, on that condition.   *)
HitsAreReadable ==
  \A p \in Procs : pc[p] \in {"hit", "copy"} /\ ~Has(key[p]) => key[p] \in raced

(* Every call returns, however many lock holders fail or are killed.       *)
CallsReturn == \A p \in Procs : pc[p] # "idle" ~> pc[p] = "idle"

=============================================================================
