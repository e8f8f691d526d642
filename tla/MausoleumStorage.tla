-------------------------- MODULE MausoleumStorage --------------------------
(***************************************************************************)
(* The storage engine of mausoleum: a buffer pool over the data file, a    *)
(* log with a buffer of its own, a file of metadata, and the recovery that *)
(* reads the log when the storage is opened.  The process may die between  *)
(* any two system calls; what it has written stays, what it keeps in       *)
(* memory is lost.                                                         *)
(*                                                                         *)
(* The bytes of a page are a version, the number of the write that made    *)
(* them.  A record of the log is one part, that of a page two: its header  *)
(* and its image, which can reach the file in different writes.            *)
(***************************************************************************)
EXTENDS Integers, Sequences, FiniteSets, SequencesExt

CONSTANTS
  NumFrames,      \* frames of the buffer pool
  BufferParts,    \* parts of records that the log's buffer holds
  TableSize,      \* transactions that the analysis keeps track of
  MaxPages,       \* bound: pages of the data file
  Budgets         \* bounds on the processes, on the versions of pages, on the pins that
                  \* clients hold on one page, on the log's transactions and
                  \* checkpoints, and the writes that may fail ("log", "flush",
                  \* "evict"): a behaviour has one of these records

ASSUME SizesAssumption ==
  /\ NumFrames \in Nat \ {0} /\ BufferParts \in Nat \ {0, 1} /\ TableSize \in Nat
  /\ MaxPages \in Nat
  /\ Budgets \subseteq [opens : Nat, writes : Nat, pins : Nat, txns : Nat,
                       checkpoints : Nat, faults : SUBSET {"log", "flush", "evict"}]

Page    == 0 .. MaxPages - 1
Version == Nat
NoPage  == -1

VARIABLES
  budget,         \* of this behaviour
  \* the files
  file,           \* per page its version in the data file, 0 where none was written
  log,            \* the parts in the log file
  meta,           \* next_txn_id in the file of metadata; 0 if empty, -1 if missing
  \* the process
  phase,          \* no process, one that redoes the log, one that is open
  cache,          \* the frames in use, by page: version, pins, dirty
  lru,            \* the pages on the LRU list, most recently used first
  next_page_id,
  buffer,         \* the parts in the log's buffer
  next_txn_id,
  current_txn,    \* 0 for none
  todo,           \* what is left of the call in progress
  failed,         \* pages that the flush in progress could not write
  redo,           \* parts of the log that the redo pass has read
  \* the clients, and history
  held,           \* pins that clients hold, per page
  writes, opens,  \* versions given out, processes started
  settled,        \* versions at the last flush that reported success
  wrote,          \* the images that the current transaction has logged, by page
  acked,          \* transactions whose commit has returned, with their images
  ended,          \* transactions that were told to commit
  logFailed       \* whether a write to the log has failed

disk    == <<file, log, meta>>
pool    == <<cache, lru, next_page_id>>
txn     == <<next_txn_id, current_txn, wrote>>
history == <<budget, opens, settled, acked, ended, logFailed>>
vars    == <<disk, phase, pool, buffer, txn, todo, failed, redo, held, writes, history>>

-----------------------------------------------------------------------------
(* Parts of the log.  The second component of a transaction's name is the  *)
(* process that began it and not in the record: ids can come again.        *)

Txn == <<current_txn, opens>>
Record(kind, t) == [kind |-> kind, txn |-> t, page |-> NoPage, data |-> 0]
PageRecord(p, v) ==
  <<Record("page", Txn), [kind |-> "image", txn |-> Txn, page |-> p, data |-> v]>>
Count(kind) == Cardinality({i \in DOMAIN (log \o buffer) : (log \o buffer)[i].kind = kind})

(* wal_writer_flush: the whole buffer, or a part of it and an error.  Only *)
(* the first failure may leave something behind (a bound on the log).      *)
Short(parts) == IF logFailed THEN {0} ELSE 0 .. Len(parts) - 1
WriteLog ==
  \/ log' = log \o buffer /\ buffer' = <<>> /\ UNCHANGED logFailed
  \/ /\ "log" \in budget.faults /\ buffer # <<>>
     /\ \E k \in Short(buffer) : log' = log \o SubSeq(buffer, 1, k)
     /\ logFailed' = TRUE
     /\ UNCHANGED buffer

(* write_bytes for each part: a part for which there is no room has the    *)
(* buffer written first, and is dropped with all that follow if it is not. *)
Fitting(parts) == IF Len(parts) <= BufferParts - Len(buffer) THEN Len(parts)
                                                             ELSE BufferParts - Len(buffer)
AppendOk(parts) ==
  LET n == Fitting(parts) IN
  /\ IF n = Len(parts)
     THEN buffer' = buffer \o parts /\ UNCHANGED log
     ELSE /\ log' = log \o buffer \o SubSeq(parts, 1, n)
          /\ buffer' = SubSeq(parts, n + 1, Len(parts))
  /\ UNCHANGED logFailed
AppendFails(parts) ==
  LET n == Fitting(parts)
      full == buffer \o SubSeq(parts, 1, n) IN
  /\ "log" \in budget.faults /\ n < Len(parts)
  /\ \E k \in Short(full) : log' = log \o SubSeq(full, 1, k)
  /\ buffer' = full
  /\ logFailed' = TRUE

(* The image of a page, logged for the open transaction.                   *)
LogPage(p, v) ==
  \/ AppendOk(PageRecord(p, v)) /\ wrote' = wrote \cup {<<p, v>>}
  \/ AppendFails(PageRecord(p, v)) /\ UNCHANGED wrote

-----------------------------------------------------------------------------
(* The buffer pool.                                                        *)

Frame(v, n, d) == [data |-> v, pins |-> n, dirty |-> d]
Dirty   == {p \in DOMAIN cache : cache[p].dirty}
Content == [p \in Page |-> IF p \in DOMAIN cache THEN cache[p].data ELSE file[p]]
(* Mutant: page numbers start at 0 again, whatever the file has.            *)
SizeIgnored(f) == 0
SizeOf(f) == CHOOSE n \in 0 .. MaxPages :
  (\A p \in Page : f[p] # 0 => p < n) /\ (n # 0 => f[n - 1] # 0)

(* get_free_frame: the page that gives up its frame, if there is none left, *)
(* is the last on the list that nobody has pinned.                         *)
Victim(v) ==
  IF Cardinality(DOMAIN cache) < NumFrames
  THEN v = NoPage
  ELSE \E i \in DOMAIN lru : /\ v = lru[i] /\ cache[v].pins = 0
                            /\ \A j \in i + 1 .. Len(lru) : cache[lru[j]].pins # 0
NoFrame == /\ Cardinality(DOMAIN cache) = NumFrames
           /\ \A i \in DOMAIN lru : cache[lru[i]].pins # 0
(* Mutant: the frame is given away without a look at its dirty flag.       *)
WriteBackNever(v) == UNCHANGED file
WriteBack(v) ==
  \/ file' = IF v # NoPage /\ cache[v].dirty THEN [file EXCEPT ![v] = cache[v].data] ELSE file
  \/ "evict" \in budget.faults /\ v # NoPage /\ cache[v].dirty /\ UNCHANGED file
Load(p, frame, v) ==
  cache' = [q \in (DOMAIN cache \ {v}) \cup {p} |-> IF q = p THEN frame ELSE cache[q]]
Unlisted(p) ==
  IF \E i \in DOMAIN lru : lru[i] = p
  THEN RemoveAt(lru, CHOOSE i \in DOMAIN lru : lru[i] = p)
  ELSE lru

(* Mutant: one unpin takes all pins away.                                  *)
UnpinAll(p, v, dirty) ==
  /\ cache' = [cache EXCEPT ![p] = Frame(v, 0, @.dirty \/ dirty)]
  /\ lru' = <<p>> \o Unlisted(p)

(* buffer_pool_unpin                                                       *)
Unpin(p, v, dirty) ==
  LET n == cache[p].pins - 1 IN
  /\ cache' = [cache EXCEPT ![p] = Frame(v, n, @.dirty \/ dirty)]
  /\ lru' = IF n = 0 THEN <<p>> \o lru ELSE lru

-----------------------------------------------------------------------------
(* Recovery, as a function of the log file.                                *)

(* A header without its image makes the reader skip what comes next, an    *)
(* image out of place is no header.                                        *)
Bad(i) == \/ log[i].kind = "page" /\ ~(i < Len(log) /\ log[i + 1].kind = "image")
          \/ log[i].kind = "image" /\ ~(i > 1 /\ log[i - 1].kind = "page")
Torn == \E i \in DOMAIN log : Bad(i)

(* What wal_reader_next gives: all up to the end, or, after a torn record, *)
(* what is before it if the end comes within its image, and else nothing,  *)
(* since the next header read is none.                                     *)
Readable ==
  IF ~Torn THEN Len(log)
  ELSE LET i == CHOOSE j \in DOMAIN log : Bad(j) /\ \A k \in 1 .. j - 1 : ~Bad(k) IN
       IF \E j \in i .. Len(log) : log[j].kind = "image" THEN 0 ELSE i - 1

(* recovery_analysis_pass over the first n parts: an id is committed if    *)
(* that is the last thing it did and it has found a place in the table     *)
(* when it began.                                                          *)
IsOf(r, kinds, id) == r.kind \in kinds /\ r.txn[1] = id
Begun(n) == {log[i].txn[1] : i \in {j \in 1 .. n : log[j].kind = "begin"}}
Tracked(n, id) == \E m \in 1 .. n : /\ IsOf(log[m], {"begin"}, id)
                                   /\ id \notin Begun(m - 1)
                                   /\ Cardinality(Begun(m - 1)) < TableSize
(* Mutant: what was not aborted counts as committed.                       *)
CommittedIfNotAborted(n, id) ==
  /\ \E i \in 1 .. n : IsOf(log[i], {"begin"}, id)
  /\ ~\E i \in 1 .. n : IsOf(log[i], {"abort"}, id)
Committed(n, id) ==
  \E i \in 1 .. n :
    /\ IsOf(log[i], {"commit"}, id) /\ Tracked(i, id)
    /\ \A j \in i + 1 .. n : ~IsOf(log[j], {"begin", "commit", "abort"}, id)

(* What recovery_redo_pass applies: the images of committed ids.           *)
Redoable == {i \in 1 .. Readable : log[i].kind = "image" /\ Committed(Readable, log[i].txn[1])}

-----------------------------------------------------------------------------
Init ==
  /\ budget \in Budgets
  /\ file = [p \in Page |-> 0] /\ log = <<>> /\ meta = -1
  /\ phase = "down" /\ cache = <<>> /\ lru = <<>> /\ next_page_id = 0 /\ buffer = <<>>
  /\ next_txn_id = 0 /\ current_txn = 0 /\ todo = <<>> /\ failed = {} /\ redo = 0
  /\ held = [p \in Page |-> 0] /\ writes = 0 /\ opens = 0
  /\ settled = [p \in Page |-> 0] /\ wrote = {} /\ acked = {} /\ ended = {}
  /\ logFailed = FALSE

(* The memory of a process, when it is gone.                               *)
Forget ==
  /\ phase' = "down" /\ cache' = <<>> /\ lru' = <<>> /\ next_page_id' = 0 /\ buffer' = <<>>
  /\ next_txn_id' = 0 /\ current_txn' = 0 /\ todo' = <<>> /\ failed' = {} /\ redo' = 0
  /\ held' = [p \in Page |-> 0] /\ wrote' = {}

Crash ==
  /\ phase # "down"
  /\ Forget
  /\ UNCHANGED <<disk, writes, history>>

(* storage_open of a directory without metadata, which it creates and then *)
(* writes, and of one with.                                                *)
OpenNew ==
  /\ phase = "down" /\ meta = -1 /\ opens < budget.opens
  /\ meta' = 0
  /\ phase' = "open" /\ next_txn_id' = 1 /\ todo' = <<"meta">>
  /\ next_page_id' = SizeOf(file)
  /\ opens' = opens + 1
  /\ UNCHANGED <<file, log, cache, lru, buffer, current_txn, wrote, failed, redo, held, writes,
                 budget, settled, acked, ended, logFailed>>
Open ==
  /\ phase = "down" /\ meta > 0 /\ opens < budget.opens
  /\ phase' = "redo" /\ next_txn_id' = meta
  /\ next_page_id' = SizeOf(file)
  /\ opens' = opens + 1
  /\ UNCHANGED <<disk, cache, lru, buffer, current_txn, wrote, todo, failed, redo, held, writes,
                 budget, settled, acked, ended, logFailed>>

(* recovery_apply_page of the next image: a new page with its bytes.       *)
RedoPage ==
  /\ phase = "redo" /\ next_page_id < MaxPages
  /\ \E i \in Redoable :
       /\ redo < i /\ \A j \in Redoable : redo < j => i <= j
       /\ redo' = i
       /\ \E v \in Page \cup {NoPage} :
            /\ Victim(v) /\ WriteBack(v)
            /\ Load(next_page_id, Frame(log[i].data, 0, TRUE), v)
            /\ lru' = <<next_page_id>> \o Unlisted(v)
  /\ next_page_id' = next_page_id + 1
  /\ UNCHANGED <<log, meta, phase, buffer, txn, todo, failed, held, writes, history>>

(* The metadata written at the end of storage_open is what was read.       *)
RedoEnd ==
  /\ phase = "redo" /\ \A i \in Redoable : i <= redo
  /\ phase' = "open" /\ meta' = next_txn_id /\ redo' = 0
  /\ UNCHANGED <<file, log, pool, buffer, txn, todo, failed, held, writes, history>>

-----------------------------------------------------------------------------
(* Pages.  A client writes only pages that it has pinned, and unpins them  *)
(* as dirty then; it fetches pages that are there.                         *)

Idle == phase = "open" /\ todo = <<>>

(* buffer_pool_fetch                                                       *)
(* Mutant: a page that is pinned again stays on the LRU list.              *)
FetchHitListed(p) ==
  /\ Idle /\ p \in DOMAIN cache /\ held[p] < budget.pins
  /\ cache' = [cache EXCEPT ![p].pins = @ + 1]
  /\ held' = [held EXCEPT ![p] = @ + 1]
  /\ UNCHANGED <<disk, phase, lru, next_page_id, buffer, txn, todo, failed, redo, writes,
                 history>>
FetchHit(p) ==
  /\ Idle /\ p \in DOMAIN cache /\ held[p] < budget.pins
  /\ cache' = [cache EXCEPT ![p].pins = @ + 1]
  /\ lru' = IF cache[p].pins = 0 THEN Unlisted(p) ELSE lru
  /\ held' = [held EXCEPT ![p] = @ + 1]
  /\ UNCHANGED <<disk, phase, next_page_id, buffer, txn, todo, failed, redo, writes, history>>
FetchMiss(p) ==
  /\ Idle /\ p \notin DOMAIN cache /\ p < next_page_id /\ held[p] < budget.pins
  /\ \E v \in Page \cup {NoPage} :
       /\ Victim(v) /\ WriteBack(v)
       /\ Load(p, Frame(file[p], 1, FALSE), v)
       /\ lru' = Unlisted(v)
  /\ held' = [held EXCEPT ![p] = @ + 1]
  /\ UNCHANGED <<log, meta, phase, next_page_id, buffer, txn, todo, failed, redo, writes,
                 history>>

(* buffer_pool_alloc, alone or in storage_alloc_page, which logs the page. *)
(* Without a frame the page's number is used up all the same.              *)
Alloc(logged) ==
  /\ Idle /\ next_page_id < MaxPages /\ writes < budget.writes
  /\ logged => current_txn # 0
  /\ next_page_id' = next_page_id + 1
  /\ writes' = writes + 1
  /\ \E v \in Page \cup {NoPage} :
       /\ Victim(v) /\ WriteBack(v)
       /\ Load(next_page_id, Frame(writes', 1, TRUE), v)
       /\ lru' = Unlisted(v)
  /\ held' = [held EXCEPT ![next_page_id] = 1]
  /\ todo' = IF logged THEN <<"image">> ELSE <<>>
  /\ UNCHANGED <<log, meta, phase, buffer, txn, failed, redo, history>>
AllocFails ==
  /\ Idle /\ next_page_id < MaxPages /\ NoFrame
  /\ next_page_id' = next_page_id + 1
  /\ UNCHANGED <<disk, phase, cache, lru, buffer, txn, todo, failed, redo, held, writes, history>>
AllocLog ==
  /\ todo = <<"image">>
  /\ LogPage(next_page_id - 1, cache[next_page_id - 1].data)
  /\ todo' = <<>>
  /\ UNCHANGED <<file, meta, phase, pool, next_txn_id, current_txn, failed, redo, held, writes,
                 budget, opens, settled, acked, ended>>

(* New bytes for a page, storage_mark_dirty if they are to be logged, and  *)
(* storage_unpin_page; or the page is unpinned as it was.                  *)
Update(p, logged) ==
  /\ Idle /\ held[p] > 0 /\ writes < budget.writes
  /\ logged => current_txn # 0
  /\ writes' = writes + 1
  /\ Unpin(p, writes', TRUE)
  /\ IF logged THEN LogPage(p, writes') ELSE UNCHANGED <<log, buffer, logFailed, wrote>>
  /\ held' = [held EXCEPT ![p] = @ - 1]
  /\ UNCHANGED <<file, meta, phase, next_page_id, next_txn_id, current_txn, todo, failed, redo,
                 budget, opens, settled, acked, ended>>
Release(p) ==
  /\ Idle /\ held[p] > 0
  /\ Unpin(p, cache[p].data, FALSE)
  /\ held' = [held EXCEPT ![p] = @ - 1]
  /\ UNCHANGED <<disk, phase, next_page_id, buffer, txn, todo, failed, redo, writes, history>>

-----------------------------------------------------------------------------
(* Transactions: records in the log, and nothing else.                     *)

BeginTxn ==
  /\ Idle /\ current_txn = 0
  /\ Count("begin") < budget.txns /\ next_txn_id <= budget.txns
  /\ next_txn_id' = next_txn_id + 1
  /\ current_txn' = next_txn_id /\ wrote' = {}
  /\ LET begin == <<Record("begin", <<next_txn_id, opens>>)>> IN
       AppendOk(begin) \/ AppendFails(begin)
  /\ UNCHANGED <<file, meta, phase, pool, todo, failed, redo, held, writes, budget, opens,
                 settled, acked, ended>>

CommitTxn ==
  /\ Idle /\ current_txn # 0
  /\ ended' = ended \cup {Txn}
  /\ \/ /\ AppendOk(<<Record("commit", Txn)>>)
        /\ todo' = <<"commit">>
        /\ UNCHANGED <<current_txn, acked, wrote>>
     \/ /\ AppendFails(<<Record("commit", Txn)>>)
        /\ current_txn' = 0 /\ wrote' = {}
        /\ acked' = acked \cup {[txn |-> Txn, images |-> wrote]}
        /\ UNCHANGED todo
  /\ UNCHANGED <<file, meta, phase, pool, next_txn_id, failed, redo, held, writes, budget,
                 opens, settled>>

(* The flush of the commit record, whose result nobody looks at.           *)
(* Mutant: the commit record stays in the buffer.                          *)
CommitLazily ==
  /\ todo = <<"commit">>
  /\ current_txn' = 0 /\ wrote' = {} /\ todo' = <<>>
  /\ acked' = acked \cup {[txn |-> Txn, images |-> wrote]}
  /\ UNCHANGED <<disk, phase, pool, buffer, next_txn_id, failed, redo, held, writes, budget,
                 opens, settled, ended, logFailed>>
CommitFlush ==
  /\ todo = <<"commit">>
  /\ WriteLog
  /\ current_txn' = 0 /\ wrote' = {} /\ todo' = <<>>
  /\ acked' = acked \cup {[txn |-> Txn, images |-> wrote]}
  /\ UNCHANGED <<file, meta, phase, pool, next_txn_id, failed, redo, held, writes, budget,
                 opens, settled, ended>>

AbortTxn ==
  /\ Idle /\ current_txn # 0
  /\ AppendOk(<<Record("abort", Txn)>>) \/ AppendFails(<<Record("abort", Txn)>>)
  /\ current_txn' = 0 /\ wrote' = {}
  /\ UNCHANGED <<file, meta, phase, pool, next_txn_id, todo, failed, redo, held, writes, budget,
                 opens, settled, acked, ended>>

-----------------------------------------------------------------------------
(* Flushes, checkpoints and the end, as the steps they consist of.         *)

FlushSteps      == <<"log", "pages">>
CheckpointSteps == FlushSteps \o <<"record", "log", "meta">>
CloseSteps      == FlushSteps \o CheckpointSteps \o <<"log", "pages", "meta", "close">>

Call(steps) ==
  /\ Idle
  /\ todo' = steps
  /\ UNCHANGED <<disk, phase, pool, buffer, txn, failed, redo, held, writes, history>>
Flush      == Call(FlushSteps)
Checkpoint == Count("checkpoint") < budget.checkpoints /\ Call(CheckpointSteps)
Close ==
  /\ Count("checkpoint") < budget.checkpoints
  /\ \A p \in Page : held[p] = 0
  /\ Call(CloseSteps)

AtStep(step) == todo # <<>> /\ Head(todo) = step

FlushLog ==
  /\ AtStep("log")
  /\ WriteLog
  /\ todo' = Tail(todo)
  /\ UNCHANGED <<file, meta, phase, pool, txn, failed, redo, held, writes, budget, opens,
                 settled, acked, ended>>

(* buffer_pool_flush_all, a page at a time.                                *)
FlushPage(p) ==
  /\ AtStep("pages") /\ p \in Dirty \ failed
  /\ \/ /\ file' = [file EXCEPT ![p] = cache[p].data]
        /\ cache' = [cache EXCEPT ![p].dirty = FALSE]
        /\ UNCHANGED failed
     \/ /\ "flush" \in budget.faults
        /\ failed' = failed \cup {p}
        /\ UNCHANGED <<file, cache>>
  /\ UNCHANGED <<log, meta, phase, lru, next_page_id, buffer, txn, todo, redo, held, writes,
                 history>>

(* A checkpoint whose flush has failed ends there.                         *)
FlushDone ==
  /\ AtStep("pages") /\ Dirty \subseteq failed
  /\ settled' = IF failed = {} THEN Content ELSE settled
  /\ todo' = IF failed # {} /\ Len(todo) > 1 /\ todo[2] = "record"
             THEN SubSeq(todo, 5, Len(todo)) ELSE Tail(todo)
  /\ failed' = {}
  /\ UNCHANGED <<disk, phase, pool, buffer, txn, redo, held, writes, budget, opens, acked,
                 ended, logFailed>>

CheckpointRecord ==
  /\ AtStep("record")
  /\ LET record == <<Record("checkpoint", <<0, opens>>)>> IN
       \/ AppendOk(record) /\ todo' = Tail(todo)
       \/ AppendFails(record) /\ todo' = SubSeq(todo, 3, Len(todo))
  /\ UNCHANGED <<file, meta, phase, pool, txn, failed, redo, held, writes, budget, opens,
                 settled, acked, ended>>

WriteMeta ==
  /\ AtStep("meta")
  /\ meta' = next_txn_id
  /\ todo' = Tail(todo)
  /\ UNCHANGED <<file, log, phase, pool, buffer, txn, failed, redo, held, writes, history>>

Closed ==
  /\ AtStep("close")
  /\ Forget
  /\ UNCHANGED <<disk, writes, history>>

-----------------------------------------------------------------------------
Next ==
  \/ OpenNew \/ Open \/ RedoPage \/ RedoEnd \/ Crash
  \/ \E p \in Page : FetchHit(p) \/ FetchMiss(p) \/ Release(p)
  \/ \E logged \in BOOLEAN : Alloc(logged) \/ \E p \in Page : Update(p, logged)
  \/ AllocFails \/ AllocLog
  \/ BeginTxn \/ CommitTxn \/ CommitFlush \/ AbortTxn
  \/ Flush \/ Checkpoint \/ Close
  \/ FlushLog \/ (\E p \in Page : FlushPage(p)) \/ FlushDone
  \/ CheckpointRecord \/ WriteMeta \/ Closed

Spec == Init /\ [][Next]_vars

-----------------------------------------------------------------------------
Txns  == Nat \X Nat
Parts == [kind : {"begin", "commit", "abort", "page", "image", "checkpoint"}, txn : Txns,
          page : Page \cup {NoPage}, data : Version]
Steps == {"image", "commit", "log", "pages", "record", "meta", "close"}

(* Types.  The LRU list has every cached page that nobody has pinned, once; *)
(* the pool never has more pages than frames, nor the buffer more parts    *)
(* than it holds.                                                          *)
TypeOK ==
  /\ budget \in Budgets
  /\ file \in [Page -> Version] /\ log \in Seq(Parts) /\ meta \in Nat \cup {-1}
  /\ phase \in {"down", "redo", "open"}
  /\ DOMAIN cache \subseteq Page /\ Cardinality(DOMAIN cache) <= NumFrames
  /\ cache \in [DOMAIN cache -> [data : Version, pins : Nat, dirty : BOOLEAN]]
  /\ lru \in Seq(Page) /\ \A i, j \in DOMAIN lru : lru[i] = lru[j] => i = j
  /\ {lru[i] : i \in DOMAIN lru} = {p \in DOMAIN cache : cache[p].pins = 0}
  /\ next_page_id \in 0 .. MaxPages
  /\ buffer \in Seq(Parts) /\ Len(buffer) <= BufferParts
  /\ next_txn_id \in Nat /\ current_txn \in Nat
  /\ todo \in Seq(Steps) /\ failed \subseteq Page /\ redo \in Nat
  /\ held \in [Page -> Nat] /\ writes \in Nat /\ opens \in Nat
  /\ settled \in [Page -> Version]
  /\ wrote \subseteq Page \X Version /\ ended \subseteq Txns
  /\ acked \subseteq [txn : Txns, images : SUBSET (Page \X Version)]
  /\ logFailed \in BOOLEAN

(* The engine implements PageStore: what a client reads is what was last   *)
(* written, whatever was evicted and read again in between, and what a     *)
(* flush has settled is there after any crash and recovery.                *)
Store == INSTANCE PageStore WITH content <- Content
ImplementsPageStore == Store!Spec

(* A pinned page keeps its frame: the pointer that a client holds into it  *)
(* leads to the page it fetched.                                           *)
PinnedStay ==
  \A p \in Page : held[p] > 0 => p \in DOMAIN cache /\ cache[p].pins = held[p]

(* No two transactions that have records in the log were given one id.     *)
IdsOnce ==
  \A i, j \in DOMAIN log :
    log[i].txn[1] = log[j].txn[1] /\ log[i].txn[1] # 0 => log[i].txn = log[j].txn

(* The analysis has a place for every transaction that is in the log.      *)
TableHasRoom == Cardinality(Begun(Len(log))) <= TableSize

(* Recovery redoes nothing of a transaction that was not told to commit,   *)
(* wherever the log ends, as long as ids are not given twice.              *)
OnlyCommittedRedone == IdsOnce => \A i \in Redoable : log[i].txn \in ended

(* Once a commit has returned, recovery finds the images that the          *)
(* transaction logged, all of them and in the order in which they were     *)
(* written, whatever else is in the buffer, in the log, or lost in a       *)
(* crash: as long as ids are not given twice, no write to the log failed,  *)
(* and no crash has torn a record.                                         *)
Images(t) == {<<log[i].page, log[i].data>> : i \in {j \in Redoable : log[j].txn = t}}
AckedAreRedone ==
  IdsOnce /\ ~logFailed /\ ~Torn /\ TableHasRoom =>
    /\ \A a \in acked : Images(a.txn) = a.images
    /\ \A i, j \in Redoable : i < j => log[i].data < log[j].data

(* What wal.ritz:6 and recovery.ritz:11 promise and the code does not      *)
(* keep: a page that a committed transaction has logged has those bytes,   *)
(* or later ones, when the storage is open again.                          *)
CommitsSurvive ==
  phase = "open" =>
    \A a \in acked : \A image \in a.images : Content[image[1]] >= image[2]

=============================================================================
