---------------------------- MODULE MausoleumTxn ----------------------------
(***************************************************************************)
(* Mausoleum's transaction manager: ids, snapshots, and the visibility of  *)
(* row versions.                                                           *)
(*                                                                         *)
(* A transaction has an id, from one counter, and a snapshot timestamp,    *)
(* from another that counts commits.  A row version carries the id of the  *)
(* transaction that wrote it and of the one that deleted it; the manager   *)
(* keeps no rows, its clients hand it the two ids of a version and are     *)
(* told whether the transaction sees it.  Here a client reads, writes one  *)
(* version and deletes versions it sees, in any of the transactions that   *)
(* are open.                                                               *)
(***************************************************************************)
EXTENDS Integers, FiniteSets

CONSTANTS
  NTxns,             \* transaction slots (MAX_ACTIVE_TXNS, 256)
  CommittedCapacity, \* ids the committed list holds (1024)
  MaxIds             \* bound: ids given out

ASSUME TxnAssumption ==
  NTxns \in Nat \ {0} /\ CommittedCapacity \in Nat /\ MaxIds \in Nat

Slot == 0 .. NTxns - 1
Id   == 1 .. MaxIds

VARIABLES
  active_txns,      \* the transaction slots
  next_txn_id, commit_ts, active_count,
  committed_txns,   \* ids in the committed list
  committed_count,
  written,          \* the versions, named by the id of their writer
  delete_ts,        \* delete_ts of every version, 0 while it is not deleted
  fate              \* history: what became of every id, and when

manager == <<active_txns, next_txn_id, commit_ts, active_count, committed_txns,
             committed_count, fate>>
rows == <<written, delete_ts>>
vars == <<manager, rows>>

Unused == [is |-> "unused", at |-> 0]

Init ==
  /\ active_txns = [s \in Slot |-> [id |-> 0, state |-> "INVALID", snapshot_ts |-> 0]]
  /\ next_txn_id = 1 /\ commit_ts = 1 /\ active_count = 0
  /\ committed_txns = {} /\ committed_count = 0
  /\ written = {}
  /\ delete_ts = [w \in Id |-> 0]
  /\ fate = [i \in Id |-> Unused]

Active(s) == active_txns[s].state = "ACTIVE"

-----------------------------------------------------------------------------
(* Visibility.                                                             *)

(* Mutants: no test against the snapshot; open transactions not looked    *)
(* for; any other open transaction taken for the writer.                  *)
CommittedUnstamped(s, tid) ==
  tid \in committed_txns
    \/ \A u \in Slot : ~(active_txns[u].id = tid /\ Active(u))
CommittedOrOpen(s, tid) == tid < active_txns[s].snapshot_ts
CommittedIfNoneOpen(s, tid) ==
  /\ tid < active_txns[s].snapshot_ts
  /\ tid \in committed_txns \/ \A u \in Slot \ {s} : ~Active(u)

(* is_committed_before: what is neither open nor listed counts as committed.*)
IsCommittedBefore(s, tid) ==
  /\ tid < active_txns[s].snapshot_ts
  /\ \/ tid \in committed_txns
     \/ \A u \in Slot : ~(active_txns[u].id = tid /\ Active(u))

(* txn_is_visible.                                                         *)
IsVisible(s, write, delete) ==
  IF write = active_txns[s].id
  THEN delete # active_txns[s].id
  ELSE /\ IsCommittedBefore(s, write)
       /\ delete # active_txns[s].id
       /\ delete = 0 \/ ~IsCommittedBefore(s, delete)

-----------------------------------------------------------------------------
(* The life of a transaction.                                              *)

(* txn_begin takes the first slot that is not ACTIVE...                    *)
Begin(s) ==
  /\ ~Active(s) /\ \A u \in Slot : u < s => Active(u)
  /\ next_txn_id \in Id
  /\ active_txns' = [active_txns EXCEPT ![s] =
       [id |-> next_txn_id, state |-> "ACTIVE", snapshot_ts |-> commit_ts]]
  /\ next_txn_id' = next_txn_id + 1
  /\ active_count' = active_count + 1
  /\ fate' = [fate EXCEPT ![next_txn_id] = [is |-> "open", at |-> 0]]
  /\ UNCHANGED <<commit_ts, committed_txns, committed_count, rows>>

(* ...and burns an id when BEGIN cannot be logged.                         *)
BeginFails ==
  /\ \E s \in Slot : ~Active(s)
  /\ next_txn_id \in Id
  /\ next_txn_id' = next_txn_id + 1
  /\ UNCHANGED <<active_txns, commit_ts, active_count, committed_txns,
                 committed_count, fate, rows>>

(* txn_commit.  When COMMIT cannot be logged nothing changes.              *)
Commit(s) ==
  /\ Active(s)
  /\ active_txns' = [active_txns EXCEPT ![s].state = "COMMITTED"]
  /\ active_count' = active_count - 1
  /\ commit_ts' = commit_ts + 1
  /\ IF committed_count < CommittedCapacity
     THEN /\ committed_txns' = committed_txns \cup {active_txns[s].id}
          /\ committed_count' = committed_count + 1
     ELSE UNCHANGED <<committed_txns, committed_count>>
  /\ fate' = [fate EXCEPT ![active_txns[s].id] = [is |-> "committed", at |-> commit_ts]]
  /\ UNCHANGED <<next_txn_id, rows>>

(* txn_abort, whether or not ABORT could be logged.                        *)
Abort(s) ==
  /\ Active(s)
  /\ active_txns' = [active_txns EXCEPT ![s].state = "ABORTED"]
  /\ active_count' = active_count - 1
  /\ fate' = [fate EXCEPT ![active_txns[s].id] = [is |-> "aborted", at |-> 0]]
  /\ UNCHANGED <<next_txn_id, commit_ts, committed_txns, committed_count, rows>>

(* A client's operations on rows.                                          *)
Write(s) ==
  /\ Active(s)
  /\ written' = written \cup {active_txns[s].id}
  /\ UNCHANGED <<manager, delete_ts>>
Delete(s, w) ==
  /\ Active(s) /\ IsVisible(s, w, delete_ts[w])
  /\ delete_ts' = [delete_ts EXCEPT ![w] = active_txns[s].id]
  /\ UNCHANGED <<manager, written>>

Next ==
  \/ BeginFails
  \/ \E s \in Slot :
       Begin(s) \/ Commit(s) \/ Abort(s) \/ Write(s) \/ \E w \in written : Delete(s, w)

Spec == Init /\ [][Next]_vars

-----------------------------------------------------------------------------
(* Properties.                                                             *)

(* Every variable has its type.                                            *)
TypeOK ==
  /\ active_txns \in [Slot -> [id : Id \cup {0}, snapshot_ts : Nat,
                               state : {"INVALID", "ACTIVE", "COMMITTED", "ABORTED"}]]
  /\ next_txn_id \in Nat \ {0} /\ commit_ts \in Nat \ {0}
  /\ active_count \in Int
  /\ committed_txns \subseteq Id /\ committed_count \in Nat
  /\ written \subseteq Id
  /\ delete_ts \in [Id -> Id \cup {0}]
  /\ fate \in [Id -> [is : {"unused", "open", "committed", "aborted"}, at : Nat]]

(* active_count is the number of open transactions: every way in and out,  *)
(* the ones on which the log fails included, counts.                       *)
ActiveCounted == active_count = Cardinality({s \in Slot : Active(s)})

Sees(s, w) == Active(s) /\ IsVisible(s, w, delete_ts[w])
Others(s) == written \ {active_txns[s].id}

(* No transaction sees what another one, still open, has written...        *)
NoDirtyRead ==
  \A s \in Slot : \A w \in Others(s) : Sees(s, w) => fate[w].is # "open"

(* ...nor misses what another one, still open, has deleted.                *)
NoDirtyDelete ==
  \A s \in Slot : \A w \in Others(s) :
    /\ Active(s) /\ IsCommittedBefore(s, w) /\ ~Sees(s, w)
    /\ delete_ts[w] # active_txns[s].id
    => fate[delete_ts[w]].is # "open"

(* Its view is that of the transactions that have ended.                   *)
NoDirtyView == NoDirtyRead /\ NoDirtyDelete

(* A transaction sees nothing of one that began after it, although ids and *)
(* snapshots come from two counters.                                       *)
NoFutureRead ==
  \A s \in Slot : \A w \in written : Sees(s, w) => w <= active_txns[s].id

(* txn.ritz:6, "Transactions only see data committed before their          *)
(* snapshot".                                                              *)
SeesOnlySnapshot ==
  \A s \in Slot : \A w \in Others(s) :
    Sees(s, w) => fate[w].is = "committed" /\ fate[w].at < active_txns[s].snapshot_ts

KeepsSeeing ==
  \A s \in Slot, w \in written :
    Sees(s, w) /\ Active(s)' /\ active_txns'[s].id = active_txns[s].id
      => Sees(s, w)' \/ delete_ts'[w] # 0

(* A version a transaction sees leaves its view only by being deleted.     *)
NothingVanishes == [][KeepsSeeing]_vars

=============================================================================
