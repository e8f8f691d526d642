------------------------ MODULE MausoleumTxnProofs ------------------------
(***************************************************************************)
(* Theorems about MausoleumTxn for any number of slots, any capacity of    *)
(* the committed list and any number of transactions.                      *)
(***************************************************************************)
EXTENDS MausoleumTxn, FiniteSetTheorems, TLAPS

Open == {s \in Slot : Active(s)}

(* The two counters: an id is given out for every commit that has happened *)
(* and for every one that can still happen, so a snapshot never gets past  *)
(* the ids.                                                                *)
Counters ==
  /\ active_count = Cardinality(Open)
  /\ commit_ts + active_count <= next_txn_id

(* Open transactions have ids of their own, given out before, and          *)
(* snapshots no later than them.                                           *)
OpenTxns ==
  /\ \A s \in Slot : Active(s) =>
       /\ active_txns[s].id \in Id
       /\ active_txns[s].id < next_txn_id
       /\ active_txns[s].snapshot_ts <= active_txns[s].id
  /\ \A s, u \in Slot :
       Active(s) /\ Active(u) /\ active_txns[s].id = active_txns[u].id => s = u

(* The history agrees with the manager.                                    *)
History ==
  /\ \A i \in Id : fate[i].is = "open" =>
       \E s \in Slot : Active(s) /\ active_txns[s].id = i
  /\ \A s \in Slot : Active(s) => fate[active_txns[s].id].is = "open"
  /\ \A i \in committed_txns : fate[i].is = "committed" /\ i < next_txn_id

IInv == TypeOK /\ Counters /\ OpenTxns /\ History

-----------------------------------------------------------------------------
(* A set of slots is finite.                                               *)
LEMMA OpenFinite == IsFiniteSet(Open) /\ Cardinality(Open) \in Nat
<1>1. NTxns - 1 \in Int
  BY TxnAssumption
<1>2. IsFiniteSet(Slot)
  BY <1>1, FS_Interval DEF Slot
<1>3. IsFiniteSet(Open)
  BY <1>2, FS_Subset DEF Open
<1>. QED
  BY <1>3, FS_CardinalityType

(* The invariant holds at the start.                                       *)
LEMMA InitIInv == Init => IInv
<1>. SUFFICES ASSUME Init PROVE IInv
  OBVIOUS
<1>1. Open = {}
  BY DEF Init, Open, Active
<1>2. Cardinality(Open) = 0
  BY <1>1, FS_EmptySet
<1>3. TypeOK
  BY DEF Init, TypeOK, Unused
<1>4. Counters
  BY <1>2 DEF Init, Counters
<1>5. OpenTxns /\ History
  BY DEF Init, OpenTxns, History, Active, Unused
<1>. QED
  BY <1>3, <1>4, <1>5 DEF IInv

(* A transaction begins.                                                   *)
LEMMA BeginIInv ==
  ASSUME IInv, NEW s \in Slot, Begin(s)
  PROVE  IInv'
<1>. USE DEF IInv
<1>1. TypeOK'
  BY DEF TypeOK, Begin, rows, Id
<1>2. \A u \in Slot \ {s} : active_txns'[u] = active_txns[u]
  BY DEF Begin, TypeOK
<1>3. active_txns'[s] = [id |-> next_txn_id, state |-> "ACTIVE", snapshot_ts |-> commit_ts]
  BY DEF Begin, TypeOK
<1>4. Counters'
  <2>1. Open' = Open \cup {s}
    BY <1>2, <1>3 DEF Open, Active
  <2>2. s \notin Open
    BY DEF Begin, Open
  <2>3. Cardinality(Open)' = Cardinality(Open) + 1
    BY <2>1, <2>2, OpenFinite, FS_AddElement
  <2>. QED
    BY <2>3, OpenFinite DEF Begin, Counters, TypeOK
<1>5. OpenTxns'
  <2>1. commit_ts <= next_txn_id
    BY OpenFinite DEF Counters, TypeOK
  <2>2. ASSUME NEW u \in Slot, Active(u)'
        PROVE  /\ active_txns'[u].id \in Id /\ active_txns'[u].id < next_txn_id'
               /\ active_txns'[u].snapshot_ts <= active_txns'[u].id
    <3>1. CASE u = s
      BY <2>1, <1>3, <3>1 DEF Begin, TypeOK
    <3>2. CASE u # s
      <4>1. Active(u) /\ active_txns'[u] = active_txns[u]
        BY <1>2, <2>2, <3>2 DEF Active
      <4>. QED
        BY <4>1 DEF OpenTxns, Begin, TypeOK, Id
    <3>. QED
      BY <3>1, <3>2
  <2>3. ASSUME NEW u \in Slot, NEW v \in Slot, Active(u)', Active(v)',
               active_txns'[u].id = active_txns'[v].id
        PROVE  u = v
    <3>1. \A x \in Slot \ {s} : Active(x)' => Active(x) /\ active_txns'[x].id < next_txn_id
      BY <1>2 DEF Active, OpenTxns
    <3>2. active_txns'[s].id = next_txn_id
      BY <1>3
    <3>3. next_txn_id \in Nat /\ \A x \in Slot : active_txns[x].id \in Nat
      BY DEF TypeOK, Id
    <3>4. CASE u = s \/ v = s
      BY <2>3, <3>1, <3>2, <3>3, <3>4, <1>2
    <3>5. CASE u # s /\ v # s
      BY <2>3, <3>1, <3>5, <1>2 DEF OpenTxns
    <3>. QED
      BY <3>4, <3>5
  <2>. QED
    BY <2>2, <2>3 DEF OpenTxns
<1>6. History'
  <2>1. \A u \in Slot \ {s} : Active(u) => Active(u)' /\ active_txns'[u].id = active_txns[u].id
    BY <1>2 DEF Active
  <2>2. Active(s)' /\ active_txns'[s].id = next_txn_id /\ ~Active(s)
    BY <1>3 DEF Active, Begin
  <2>3. ASSUME NEW i \in Id, fate'[i].is = "open"
        PROVE  \E u \in Slot : Active(u)' /\ active_txns'[u].id = i
    <3>1. CASE i = next_txn_id
      BY <2>2, <3>1
    <3>2. CASE i # next_txn_id
      BY <2>1, <2>2, <2>3, <3>2 DEF Begin, TypeOK, History
    <3>. QED
      BY <3>1, <3>2
  <2>4. \A i \in committed_txns' : fate'[i].is = "committed" /\ i < next_txn_id'
    BY DEF History, Begin, TypeOK, Id
  <2>5. ASSUME NEW u \in Slot, Active(u)'
        PROVE  fate'[active_txns'[u].id].is = "open"
    <3>1. CASE u = s
      BY <2>2, <3>1 DEF Begin, TypeOK
    <3>2. CASE u # s
      <4>1. Active(u) /\ active_txns'[u] = active_txns[u]
        BY <1>2, <2>5, <3>2 DEF Active
      <4>2. active_txns[u].id \in Id /\ active_txns[u].id # next_txn_id
        BY <4>1 DEF OpenTxns, TypeOK, Id
      <4>. QED
        BY <4>1, <4>2 DEF History, Begin, TypeOK
    <3>. QED
      BY <3>1, <3>2
  <2>. QED
    BY <2>3, <2>4, <2>5 DEF History
<1>. QED
  BY <1>1, <1>4, <1>5, <1>6

(* A transaction ends, in a state that is not ACTIVE and with a fate that  *)
(* is not open.                                                            *)
LEMMA EndIInv ==
  ASSUME IInv, NEW s \in Slot, Commit(s) \/ Abort(s)
  PROVE  IInv'
<1>. USE DEF IInv
<1>0. Active(s) /\ active_txns[s].id \in Id
  BY DEF Commit, Abort, OpenTxns
<1>a. PICK st \in {"COMMITTED", "ABORTED"} :
        active_txns' = [active_txns EXCEPT ![s] = [@ EXCEPT !.state = st]]
  BY DEF Commit, Abort
<1>b. /\ \A u \in Slot \ {s} : active_txns'[u] = active_txns[u]
      /\ active_txns'[s] = [active_txns[s] EXCEPT !.state = st]
  BY <1>a DEF TypeOK
<1>1. TypeOK'
  <2>1. active_txns' \in [Slot -> [id : Id \cup {0}, snapshot_ts : Nat,
                              state : {"INVALID", "ACTIVE", "COMMITTED", "ABORTED"}]]
    BY <1>a DEF TypeOK
  <2>2. fate' \in [Id -> [is : {"unused", "open", "committed", "aborted"}, at : Nat]]
    <3>1. PICK f : /\ f \in [is : {"committed", "aborted"}, at : Nat]
                  /\ fate' = [fate EXCEPT ![active_txns[s].id] = f]
      BY SMTT(20) DEF TypeOK, Commit, Abort
    <3>. QED
      BY <1>0, <3>1 DEF TypeOK
  <2>. QED
    BY <1>0, <2>1, <2>2 DEF TypeOK, Commit, Abort, rows
<1>2. /\ \A u \in Slot : active_txns'[u].id = active_txns[u].id
      /\ \A u \in Slot : active_txns'[u].snapshot_ts = active_txns[u].snapshot_ts
      /\ \A u \in Slot : Active(u)' <=> Active(u) /\ u # s
  <2>1. /\ active_txns'[s].id = active_txns[s].id
        /\ active_txns'[s].snapshot_ts = active_txns[s].snapshot_ts
        /\ active_txns'[s].state = st
    BY <1>b DEF TypeOK
  <2>. QED
    BY <1>b, <2>1 DEF Active
<1>3. Counters'
  <2>1. Open' = Open \ {s} /\ s \in Open
    BY <1>0, <1>2 DEF Open
  <2>2. Cardinality(Open)' = Cardinality(Open) - 1
    BY <2>1, OpenFinite, FS_RemoveElement
  <2>. QED
    BY <2>2, OpenFinite DEF Commit, Abort, Counters, TypeOK
<1>4. OpenTxns'
  BY <1>2 DEF OpenTxns, Commit, Abort
<1>5. History'
  <2>1. \A i \in Id : i # active_txns[s].id => fate'[i] = fate[i]
    BY DEF Commit, Abort, TypeOK
  <2>2. fate'[active_txns[s].id].is # "open"
    BY <1>0 DEF Commit, Abort, TypeOK
  <2>3. ASSUME NEW i \in Id, fate'[i].is = "open"
        PROVE  \E u \in Slot : Active(u)' /\ active_txns'[u].id = i
    <3>1. i # active_txns[s].id /\ fate[i].is = "open"
      BY <2>1, <2>2, <2>3
    <3>2. PICK u \in Slot : Active(u) /\ active_txns[u].id = i
      BY <3>1 DEF History
    <3>. QED
      BY <1>2, <3>1, <3>2
  <2>4. ASSUME NEW i \in committed_txns'
        PROVE  fate'[i].is = "committed" /\ i < next_txn_id'
    <3>1. CASE i \in committed_txns
      <4>1. fate[i].is = "committed" /\ i < next_txn_id /\ i \in Id
        BY <3>1 DEF History, TypeOK
      <4>2. next_txn_id' = next_txn_id
        BY DEF Commit, Abort
      <4>3. CASE i = active_txns[s].id /\ Commit(s)
        BY <4>1, <4>2, <4>3 DEF Commit, TypeOK
      <4>4. CASE i = active_txns[s].id /\ Abort(s)
        <5>1. fate[i].is = "open"
          BY <1>0, <4>4 DEF History
        <5>. QED
          BY <4>1, <5>1
      <4>5. CASE i # active_txns[s].id
        BY <2>1, <4>1, <4>2, <4>5
      <4>. QED
        BY <4>3, <4>4, <4>5
    <3>2. CASE i \notin committed_txns
      BY <1>0, <2>4, <3>2 DEF Commit, Abort, TypeOK, OpenTxns
    <3>. QED
      BY <3>1, <3>2
  <2>5. ASSUME NEW u \in Slot, Active(u)'
        PROVE  fate'[active_txns'[u].id].is = "open"
    <3>1. Active(u) /\ u # s /\ active_txns'[u].id = active_txns[u].id
      BY <1>2, <2>5
    <3>2. active_txns[u].id \in Id /\ active_txns[u].id # active_txns[s].id
      BY <1>0, <3>1 DEF OpenTxns
    <3>. QED
      BY <2>1, <3>1, <3>2 DEF History
  <2>. QED
    BY <2>3, <2>4, <2>5 DEF History
<1>. QED
  BY <1>1, <1>3, <1>4, <1>5

(* Every step preserves the invariant.                                     *)
LEMMA NextIInv == IInv /\ [Next]_vars => IInv'
<1>. SUFFICES ASSUME IInv, [Next]_vars PROVE IInv'
  OBVIOUS
<1>1. ASSUME NEW s \in Slot, Begin(s) PROVE IInv'
  BY <1>1, BeginIInv
<1>2. ASSUME NEW s \in Slot, Commit(s) \/ Abort(s) PROVE IInv'
  BY <1>2, EndIInv
<1>3. CASE BeginFails
  BY <1>3 DEF IInv, BeginFails, rows, TypeOK, Counters, Open, OpenTxns, History,
              Active, Id
<1>4. ASSUME UNCHANGED manager, TypeOK' PROVE IInv'
  BY <1>4 DEF IInv, manager, Counters, Open, OpenTxns, History, Active
<1>5. ASSUME NEW s \in Slot, Write(s) PROVE IInv'
  <2>1. active_txns[s].id \in Id
    BY <1>5 DEF IInv, OpenTxns, Write
  <2>. QED
    BY <1>4, <1>5, <2>1 DEF IInv, TypeOK, Write, manager
<1>6. ASSUME NEW s \in Slot, NEW w \in written, Delete(s, w) PROVE IInv'
  <2>1. active_txns[s].id \in Id
    BY <1>6 DEF IInv, OpenTxns, Delete
  <2>. QED
    BY <1>4, <1>6, <2>1 DEF IInv, TypeOK, Delete, manager
<1>7. CASE UNCHANGED vars
  BY <1>4, <1>7 DEF IInv, TypeOK, vars, manager, rows
<1>. QED
  BY <1>1, <1>2, <1>3, <1>5, <1>6, <1>7 DEF Next

(* The inductive invariant holds.                                          *)
THEOREM TxnInvariance == Spec => []IInv
BY InitIInv, NextIInv, PTL DEF Spec

(* Every variable keeps its type.                                          *)
THEOREM TxnTypeCorrect == Spec => []TypeOK
<1>1. IInv => TypeOK
  BY DEF IInv
<1>. QED
  BY <1>1, TxnInvariance, PTL

(* active_count is the number of open transactions.                        *)
THEOREM OpenAreCounted == Spec => []ActiveCounted
<1>1. IInv => ActiveCounted
  BY DEF IInv, Counters, Open, ActiveCounted
<1>. QED
  BY <1>1, TxnInvariance, PTL

-----------------------------------------------------------------------------
(* What is_committed_before accepts is not open.                           *)
LEMMA AcceptedIsClosed ==
  ASSUME IInv, NEW s \in Slot, NEW i \in Id, IsCommittedBefore(s, i)
  PROVE  fate[i].is # "open"
BY DEF IInv, History, IsCommittedBefore

(* No transaction sees what another, still open, has written.              *)
THEOREM ReadsAreClean == Spec => []NoDirtyRead
<1>1. IInv => NoDirtyRead
  <2>. SUFFICES ASSUME IInv, NEW s \in Slot, NEW w \in Others(s), Sees(s, w)
                PROVE  fate[w].is # "open"
    BY DEF NoDirtyRead
  <2>1. w \in Id /\ w # active_txns[s].id
    BY DEF IInv, TypeOK, Others
  <2>2. IsCommittedBefore(s, w)
    BY <2>1 DEF Sees, IsVisible
  <2>. QED
    BY <2>1, <2>2, AcceptedIsClosed
<1>. QED
  BY <1>1, TxnInvariance, PTL

(* No transaction misses what another, still open, has deleted.            *)
THEOREM DeletesAreClean == Spec => []NoDirtyDelete
<1>1. IInv => NoDirtyDelete
  <2>. SUFFICES ASSUME IInv, NEW s \in Slot, NEW w \in Others(s),
                       Active(s), IsCommittedBefore(s, w), ~Sees(s, w),
                       delete_ts[w] # active_txns[s].id
                PROVE  fate[delete_ts[w]].is # "open"
    BY DEF NoDirtyDelete
  <2>1. w \in Id /\ w # active_txns[s].id /\ delete_ts[w] \in Id \cup {0}
    BY DEF IInv, TypeOK, Others
  <2>2. delete_ts[w] # 0 /\ IsCommittedBefore(s, delete_ts[w])
    BY <2>1 DEF Sees, IsVisible
  <2>. QED
    BY <2>1, <2>2, AcceptedIsClosed
<1>. QED
  BY <1>1, TxnInvariance, PTL

(* What a transaction sees and misses is never another's that is still     *)
(* open.                                                                   *)
THEOREM ViewsAreClean == Spec => []NoDirtyView
<1>1. NoDirtyRead /\ NoDirtyDelete => NoDirtyView
  BY DEF NoDirtyView
<1>. QED
  BY <1>1, ReadsAreClean, DeletesAreClean, PTL

(* No transaction sees what one that began after it has written.           *)
THEOREM ReadsComeFromThePast == Spec => []NoFutureRead
<1>1. IInv => NoFutureRead
  <2>. SUFFICES ASSUME IInv, NEW s \in Slot, NEW w \in written, Sees(s, w)
                PROVE  w <= active_txns[s].id
    BY DEF NoFutureRead
  <2>1. /\ active_txns[s].snapshot_ts <= active_txns[s].id
        /\ active_txns[s].id \in Nat /\ active_txns[s].snapshot_ts \in Nat
        /\ w \in Nat
    BY DEF IInv, TypeOK, OpenTxns, Sees, Id
  <2>2. w = active_txns[s].id \/ w < active_txns[s].snapshot_ts
    BY DEF Sees, IsVisible, IsCommittedBefore
  <2>. QED
    BY <2>1, <2>2
<1>. QED
  BY <1>1, TxnInvariance, PTL

(* What is_committed_before has accepted it goes on accepting.             *)
LEMMA AcceptedStays ==
  ASSUME IInv, [Next]_vars, NEW s \in Slot, NEW w \in Id,
         Active(s), Active(s)', active_txns'[s].id = active_txns[s].id,
         IsCommittedBefore(s, w)
  PROVE  IsCommittedBefore(s, w)'
<1>1. /\ active_txns'[s] = active_txns[s]
      /\ committed_txns \subseteq committed_txns'
      /\ \A u \in Slot : Active(u)' =>
           \/ Active(u) /\ active_txns'[u].id = active_txns[u].id
           \/ active_txns'[u].id = next_txn_id
  <2>. DEFINE Stays ==
         /\ active_txns'[s] = active_txns[s]
         /\ committed_txns \subseteq committed_txns'
         /\ \A u \in Slot : Active(u)' =>
              \/ Active(u) /\ active_txns'[u].id = active_txns[u].id
              \/ active_txns'[u].id = next_txn_id
  <2>0. TypeOK
    BY DEF IInv
  <2>1. ASSUME NEW t \in Slot, Begin(t) PROVE Stays
    BY <2>0, <2>1 DEF TypeOK, Begin, Active
  <2>2. ASSUME NEW t \in Slot, Commit(t) \/ Abort(t) PROVE Stays
    <3>1. PICK st \in {"COMMITTED", "ABORTED"} :
            active_txns' = [active_txns EXCEPT ![t] = [@ EXCEPT !.state = st]]
      BY <2>2 DEF Commit, Abort
    <3>2. active_txns'[t].state = st /\ s # t
      BY <2>0, <3>1 DEF TypeOK, Active
    <3>3. \A u \in Slot \ {t} : active_txns'[u] = active_txns[u]
      BY <2>0, <3>1 DEF TypeOK
    <3>4. committed_txns \subseteq committed_txns'
      BY <2>2 DEF Commit, Abort
    <3>. QED
      BY <3>2, <3>3, <3>4 DEF Active
  <2>3. CASE UNCHANGED manager \/ BeginFails
    BY <2>3 DEF manager, BeginFails, Active
  <2>. QED
    BY <2>1, <2>2, <2>3 DEF Next, Write, Delete, vars
<1>2. w < next_txn_id
  <2>1. /\ w < active_txns[s].snapshot_ts
        /\ active_txns[s].snapshot_ts <= active_txns[s].id
        /\ active_txns[s].id < next_txn_id
    BY DEF IInv, OpenTxns, IsCommittedBefore
  <2>2. /\ w \in Int /\ next_txn_id \in Int
        /\ active_txns[s].id \in Int /\ active_txns[s].snapshot_ts \in Int
    BY DEF IInv, TypeOK, Id
  <2>. QED
    BY <2>1, <2>2
<1>3. w # next_txn_id
  BY <1>2 DEF IInv, TypeOK, Id
<1>. QED
  BY <1>1, <1>3 DEF IsCommittedBefore

(* A version leaves a transaction's view only by being deleted.            *)
THEOREM ViewsAreStable == Spec => NothingVanishes
<1>1. IInv /\ [Next]_vars => KeepsSeeing
  <2>. SUFFICES ASSUME IInv, [Next]_vars, NEW s \in Slot, NEW w \in written,
                       Sees(s, w), Active(s)',
                       active_txns'[s].id = active_txns[s].id,
                       delete_ts'[w] = 0
                PROVE  Sees(s, w)'
    BY DEF KeepsSeeing
  <2>1. w \in Id /\ Active(s) /\ active_txns[s].id # 0
    <3>1. w \in Id
      BY DEF IInv, TypeOK
    <3>2. Active(s)
      BY DEF Sees
    <3>3. active_txns[s].id \in Id
      BY <3>2 DEF IInv, OpenTxns
    <3>4. 0 \notin Id
      BY DEF Id
    <3>. QED
      BY <3>1, <3>2, <3>3, <3>4
  <2>2. CASE w = active_txns[s].id
    BY <2>1, <2>2 DEF Sees, IsVisible
  <2>3. CASE w # active_txns[s].id
    <3>1. IsCommittedBefore(s, w)
      BY <2>3 DEF Sees, IsVisible
    <3>2. IsCommittedBefore(s, w)'
      BY <2>1, <3>1, AcceptedStays
    <3>. QED
      BY <2>1, <2>3, <3>2 DEF Sees, IsVisible
  <2>. QED
    BY <2>2, <2>3
<1>2. IInv /\ [Next]_vars => [KeepsSeeing]_vars
  BY <1>1
<1>. QED
  BY <1>2, TxnInvariance, PTL DEF Spec, NothingVanishes

=============================================================================
