----------------------- MODULE MausoleumStorageProofs -----------------------
(***************************************************************************)
(* For any pool, log buffer, analysis table and budgets: the engine keeps  *)
(* its types and the frames of pinned pages; recovery redoes only what was *)
(* told to commit, and all of what has; and, where evictions do not fail,  *)
(* the engine implements PageStore.                                        *)
(***************************************************************************)
EXTENDS MausoleumStorage, FiniteSetTheorems, SequenceTheorems, TLAPS

-----------------------------------------------------------------------------
(* The inductive invariant.                                                *)

(* The pins of a frame are those that clients hold.  Page numbers start    *)
(* beyond what the file has, and a page in the pool has such a number.     *)
PoolInv ==
  /\ \A p \in Page : held[p] = IF p \in DOMAIN cache THEN cache[p].pins ELSE 0
  /\ \A p \in DOMAIN cache : p < next_page_id
  /\ phase # "down" => \A p \in Page : file[p] # 0 => p < next_page_id

(* Versions: what is settled is in the file, a frame is never older than   *)
(* the file, and has the file's bytes unless it is dirty.                  *)
DiskInv ==
  /\ \A p \in Page : settled[p] <= file[p] /\ file[p] <= writes
  /\ \A p \in DOMAIN cache : /\ file[p] <= cache[p].data /\ cache[p].data <= writes
                             /\ ~cache[p].dirty => file[p] = cache[p].data

(* A process that is not open has no call in progress, and no transaction. *)
PlainSteps == Steps \ {"image", "commit"}
PhaseInv ==
  /\ phase = "down" => DOMAIN cache = {} /\ lru = <<>> /\ next_txn_id = 0
  /\ phase # "open" => buffer = <<>> /\ current_txn = 0 /\ todo = <<>>
  /\ todo \in {<<"image">>, <<"commit">>} \/ todo \in Seq(PlainSteps)
  /\ todo = <<"image">> => /\ current_txn # 0 /\ next_page_id - 1 \in DOMAIN cache
                           /\ cache[next_page_id - 1].data = writes /\ writes > 0
  /\ todo = <<"commit">> => current_txn # 0

(* A commit record is of a transaction that was told to commit, an image   *)
(* of a page that was written.                                             *)
PartOk(r) == /\ r.kind = "commit" => r.txn \in ended /\ r.txn[1] # 0
             /\ r.kind = "image" => r.data \in 1 .. writes
Elements(q) == {q[i] : i \in DOMAIN q}
PartsInv == \A r \in Elements(log) \cup Elements(buffer) : PartOk(r)

(* As long as no write failed, the log with the buffer is what was logged. *)
Full == log \o buffer
Written(F, t) == {<<F[i].page, F[i].data>> :
                    i \in {j \in DOMAIN F : F[j].kind = "image" /\ F[j].txn = t}}
Process == IF phase = "down" THEN opens + 1 ELSE opens
Used(t, process, id) == /\ t \in Txns
                        /\ t[2] < process \/ (t[2] = process /\ t[1] < id)

(* A transaction that has begun and was not told to end.                  *)
Running(F, t, images) ==
  /\ \E m \in DOMAIN F :
       /\ F[m].kind = "begin" /\ F[m].txn = t
       /\ \A i \in DOMAIN F : F[i].txn = t => m <= i /\ (i = m \/ F[i].kind \in {"page", "image"})
  /\ Written(F, t) = images

(* One whose parts are all among the first n, from its begin to its commit. *)
Finished(F, t, images, n) ==
  /\ \E m, k \in 1 .. n :
       /\ m < k
       /\ F[m].kind = "begin" /\ F[m].txn = t
       /\ F[k].kind = "commit" /\ F[k].txn = t
       /\ \A i \in DOMAIN F : F[i].txn = t =>
            m <= i /\ i <= k /\ (i = m \/ i = k \/ F[i].kind \in {"page", "image"})
  /\ Written(F, t) = images

Ordered(F) ==
  \A i, j \in DOMAIN F : i < j /\ F[i].kind = "image" /\ F[j].kind = "image" =>
    F[i].data < F[j].data

UsedInv == \A i \in DOMAIN Full : Used(Full[i].txn, Process, next_txn_id)
CurrentInv ==
  current_txn # 0 => /\ current_txn < next_txn_id
                     /\ IF todo = <<"commit">>
                        THEN Finished(Full, Txn, wrote, Len(Full))
                        ELSE Running(Full, Txn, wrote)
AckedInv ==
  \A a \in acked : /\ Used(a.txn, Process, next_txn_id) /\ a.txn[1] > 0
                   /\ current_txn # 0 => a.txn # Txn
                   /\ Finished(Full, a.txn, a.images, Len(log))
ImageInv ==
  todo = <<"image">> => \A i \in DOMAIN Full : Full[i].kind = "image" => Full[i].data < writes
LogInv == /\ phase # "down" => next_txn_id > 0
          /\ UsedInv /\ CurrentInv /\ AckedInv /\ Ordered(Full) /\ ImageInv

IInv == /\ TypeOK /\ PoolInv /\ DiskInv /\ PhaseInv /\ PartsInv
        /\ ~logFailed => LogInv

-----------------------------------------------------------------------------
(* The LRU list.                                                           *)

Distinct(q) == \A i, j \in DOMAIN q : q[i] = q[j] => i = j

(* A sequence without one of its elements.                                 *)
LEMMA Removed ==
  ASSUME NEW s \in Seq(Page), NEW i \in 1 .. Len(s)
  PROVE  /\ RemoveAt(s, i) \in Seq(Page) /\ Len(RemoveAt(s, i)) = Len(s) - 1
         /\ \A j \in 1 .. Len(s) - 1 : RemoveAt(s, i)[j] = IF j < i THEN s[j] ELSE s[j + 1]
<1>1. /\ SubSeq(s, 1, i - 1) \in Seq(Page) /\ Len(SubSeq(s, 1, i - 1)) = i - 1
      /\ \A j \in 1 .. i - 1 : SubSeq(s, 1, i - 1)[j] = s[j]
  BY SubSeqProperties
<1>2. /\ SubSeq(s, i + 1, Len(s)) \in Seq(Page) /\ Len(SubSeq(s, i + 1, Len(s))) = Len(s) - i
      /\ \A j \in 1 .. Len(s) - i : SubSeq(s, i + 1, Len(s))[j] = s[i + j]
  BY SubSeqProperties
<1> DEFINE a == SubSeq(s, 1, i - 1)
           b == SubSeq(s, i + 1, Len(s))
<1>3. RemoveAt(s, i) = a \o b
  BY DEF RemoveAt
<1> HIDE DEF a, b
<1>4. /\ a \o b \in Seq(Page) /\ Len(a \o b) = Len(a) + Len(b)
      /\ \A j \in 1 .. Len(a) + Len(b) : (a \o b)[j] = IF j <= Len(a) THEN a[j] ELSE b[j - Len(a)]
  BY <1>1, <1>2, ConcatProperties DEF a, b
<1>5. Len(a) = i - 1 /\ Len(b) = Len(s) - i /\ Len(s) \in Nat
  BY <1>1, <1>2 DEF a, b
<1>6. \A j \in 1 .. Len(s) - 1 : RemoveAt(s, i)[j] = IF j < i THEN s[j] ELSE s[j + 1]
  <2> SUFFICES ASSUME NEW j \in 1 .. Len(s) - 1
               PROVE  (a \o b)[j] = IF j < i THEN s[j] ELSE s[j + 1]
    BY <1>3
  <2>1. CASE j < i
    BY <2>1, <1>1, <1>4, <1>5 DEF a
  <2>2. CASE ~(j < i)
    <3>1. b[j - (i - 1)] = s[i + (j - (i - 1))]
      BY <2>2, <1>2, <1>5 DEF b
    <3> QED BY <2>2, <3>1, <1>4, <1>5
  <2> QED BY <2>1, <2>2
<1> QED BY <1>3, <1>4, <1>5, <1>6

(* Unlinking takes one page out and leaves the others.                     *)
LEMMA Unlinked ==
  ASSUME lru \in Seq(Page), Distinct(lru), NEW p
  PROVE  /\ Unlisted(p) \in Seq(Page) /\ Distinct(Unlisted(p))
         /\ Elements(Unlisted(p)) = Elements(lru) \ {p}
<1>1. CASE \E i \in DOMAIN lru : lru[i] = p
  <2>1. PICK i \in 1 .. Len(lru) : lru[i] = p /\ Unlisted(p) = RemoveAt(lru, i)
    <3> DEFINE i == CHOOSE j \in DOMAIN lru : lru[j] = p
    <3>1. i \in DOMAIN lru /\ lru[i] = p
      BY <1>1
    <3>2. Unlisted(p) = RemoveAt(lru, i)
      BY <1>1 DEF Unlisted
    <3> HIDE DEF i
    <3> QED BY <3>1, <3>2
  <2> DEFINE s == Unlisted(p)
  <2>2. /\ s \in Seq(Page) /\ DOMAIN s = 1 .. Len(lru) - 1
        /\ \A j \in DOMAIN s : s[j] = IF j < i THEN lru[j] ELSE lru[j + 1]
    <3> DEFINE r == RemoveAt(lru, i)
    <3>1. /\ r \in Seq(Page) /\ Len(r) = Len(lru) - 1
          /\ \A j \in 1 .. Len(lru) - 1 : r[j] = IF j < i THEN lru[j] ELSE lru[j + 1]
      BY Removed
    <3> HIDE DEF r
    <3>2. DOMAIN r = 1 .. Len(lru) - 1
      BY <3>1
    <3> QED BY <2>1, <3>1, <3>2 DEF r
  <2> HIDE DEF s
  <2>3. DOMAIN lru = 1 .. Len(lru) /\ Len(lru) \in Nat
    OBVIOUS
  <2>4. Distinct(s)
    BY <2>1, <2>2, <2>3 DEF Distinct
  <2>5. Elements(s) \subseteq Elements(lru) \ {p}
    BY <2>1, <2>2, <2>3 DEF Distinct, Elements
  <2>6. ASSUME NEW q \in Elements(lru) \ {p}
        PROVE  q \in Elements(s)
    <3>1. PICK j \in 1 .. Len(lru) : q = lru[j]
      BY <2>3 DEF Elements
    <3>2. CASE j < i
      BY <3>1, <3>2, <2>1, <2>2, <2>3 DEF Elements
    <3>3. CASE j > i
      <4>1. j - 1 \in DOMAIN s /\ s[j - 1] = lru[j]
        BY <3>3, <2>2, <2>3
      <4> QED BY <3>1, <4>1 DEF Elements
    <3> QED BY <3>1, <3>2, <3>3, <2>1
  <2> QED BY <2>2, <2>4, <2>5, <2>6 DEF s
<1>2. CASE ~\E i \in DOMAIN lru : lru[i] = p
  BY <1>2 DEF Unlisted, Elements
<1> QED BY <1>1, <1>2

(* Linking a page that is not on the list at its head.                     *)
LEMMA Linked ==
  ASSUME NEW q \in Seq(Page), Distinct(q), NEW p \in Page \ Elements(q)
  PROVE  /\ <<p>> \o q \in Seq(Page) /\ Distinct(<<p>> \o q)
         /\ Elements(<<p>> \o q) = Elements(q) \cup {p}
<1> DEFINE s == <<p>> \o q
<1>1. /\ s \in Seq(Page) /\ Len(s) = Len(q) + 1 /\ s[1] = p
      /\ \A j \in 1 .. Len(q) : s[j + 1] = q[j]
  OBVIOUS
<1> HIDE DEF s
<1>2. DOMAIN s = 1 .. Len(q) + 1 /\ DOMAIN q = 1 .. Len(q) /\ Len(q) \in Nat
  BY <1>1
<1>3. \A j \in DOMAIN s : j = 1 \/ (j - 1 \in DOMAIN q /\ s[j] = q[j - 1])
  BY <1>1, <1>2
<1>4. Distinct(s)
  BY <1>1, <1>2, <1>3 DEF Distinct, Elements
<1>5. Elements(s) = Elements(q) \cup {p}
  <2>1. Elements(s) \subseteq Elements(q) \cup {p}
    BY <1>1, <1>3 DEF Elements
  <2>2. p \in Elements(s)
    BY <1>1, <1>2 DEF Elements
  <2>3. ASSUME NEW r \in Elements(q)
        PROVE  r \in Elements(s)
    <3>1. PICK j \in DOMAIN q : r = q[j]
      BY DEF Elements
    <3>2. j + 1 \in DOMAIN s /\ s[j + 1] = r
      BY <3>1, <1>1, <1>2
    <3> QED BY <3>2 DEF Elements
  <2> QED BY <2>1, <2>2, <2>3
<1> QED BY <1>1, <1>4, <1>5 DEF s

-----------------------------------------------------------------------------
(* The pool.                                                               *)

Frames == [data : Version, pins : Nat, dirty : BOOLEAN]
PoolTypes ==
  /\ DOMAIN cache \subseteq Page /\ Cardinality(DOMAIN cache) <= NumFrames
  /\ cache \in [DOMAIN cache -> Frames]
  /\ lru \in Seq(Page) /\ Distinct(lru)
  /\ Elements(lru) = {p \in DOMAIN cache : cache[p].pins = 0}

LEMMA PoolTypesHold ==
  ASSUME TypeOK
  PROVE  PoolTypes
BY DEF TypeOK, PoolTypes, Frames, Distinct, Elements

(* A page gives up its frame only if nobody has pinned it.                 *)
LEMMA VictimUnpinned ==
  ASSUME PoolTypes, NEW v \in Page \cup {NoPage}, Victim(v)
  PROVE  /\ v \in Page => v \in DOMAIN cache /\ cache[v].pins = 0
         /\ v \notin Page => Cardinality(DOMAIN cache) < NumFrames /\ v \notin DOMAIN cache
<1>1. NoPage \notin Page
  BY DEF NoPage, Page
<1>2. CASE Cardinality(DOMAIN cache) < NumFrames
  BY <1>1, <1>2 DEF Victim, PoolTypes
<1>3. CASE ~(Cardinality(DOMAIN cache) < NumFrames)
  <2>1. PICK i \in DOMAIN lru : v = lru[i]
    BY <1>3 DEF Victim
  <2>2. v \in Elements(lru)
    BY <2>1 DEF Elements
  <2> QED BY <1>1, <2>2 DEF PoolTypes
<1> QED BY <1>2, <1>3

(* Loading a page keeps the pool's types.                                  *)
LEMMA Loaded ==
  ASSUME PoolTypes, NEW p \in Page, p \notin DOMAIN cache,
         NEW v \in Page \cup {NoPage}, Victim(v),
         NEW frame \in Frames, Load(p, frame, v),
         lru' = IF frame.pins = 0 THEN <<p>> \o Unlisted(v) ELSE Unlisted(v)
  PROVE  /\ PoolTypes'
         /\ DOMAIN cache' = (DOMAIN cache \ {v}) \cup {p}
         /\ cache'[p] = frame
         /\ \A q \in DOMAIN cache \ {v} : q # p /\ cache'[q] = cache[q]
<1> DEFINE D == DOMAIN cache
<1>1. /\ v \in Page => v \in D /\ cache[v].pins = 0
      /\ v \notin Page => Cardinality(D) < NumFrames /\ v \notin D
  BY VictimUnpinned
<1>2. /\ DOMAIN cache' = (D \ {v}) \cup {p}
      /\ cache'[p] = frame
      /\ \A q \in D \ {v} : q # p /\ cache'[q] = cache[q]
      /\ cache' = [q \in DOMAIN cache' |-> cache'[q]]
  BY DEF Load
<1>3. IsFiniteSet(D)
  <2>1. IsFiniteSet(Page)
    BY FS_Interval, SizesAssumption DEF Page, SizesAssumption
  <2> QED BY <2>1, FS_Subset DEF PoolTypes
<1>4. Cardinality((D \ {v}) \cup {p}) <= NumFrames
  <2> HIDE DEF D
  <2>1. Cardinality(D) \in Nat /\ Cardinality(D) <= NumFrames
    BY <1>3, FS_CardinalityType DEF PoolTypes, D
  <2>2. IsFiniteSet(D \ {v}) /\ Cardinality(D \ {v}) < NumFrames
    <3>1. CASE v \in D
      <4>1. IsFiniteSet(D \ {v}) /\ Cardinality(D \ {v}) = Cardinality(D) - 1
        BY <1>3, <3>1, FS_RemoveElement
      <4> QED BY <2>1, <4>1, SizesAssumption DEF SizesAssumption
    <3>2. CASE v \notin D
      <4>1. D \ {v} = D /\ v \notin Page
        BY <1>1, <3>2 DEF D
      <4> QED BY <1>1, <1>3, <4>1 DEF D
    <3> QED BY <3>1, <3>2
  <2>3. Cardinality(D \ {v}) \in Nat
    BY <2>2, FS_CardinalityType
  <2>4. Cardinality((D \ {v}) \cup {p}) = Cardinality(D \ {v}) + 1
    BY <2>2, FS_AddElement DEF D
  <2> QED BY <2>2, <2>3, <2>4, SizesAssumption DEF SizesAssumption
<1>5. cache' \in [DOMAIN cache' -> Frames]
  BY <1>2 DEF PoolTypes
<1>6. /\ Unlisted(v) \in Seq(Page) /\ Distinct(Unlisted(v))
      /\ Elements(Unlisted(v)) = Elements(lru) \ {v}
  BY Unlinked DEF PoolTypes
<1>7. Elements(lru) = {q \in D : cache[q].pins = 0}
  BY DEF PoolTypes
<1>8. lru' \in Seq(Page) /\ Distinct(lru') /\ Elements(lru') = {q \in DOMAIN cache' : cache'[q].pins = 0}
  <2>1. CASE frame.pins = 0
    <3>1. Unlisted(v) \in Seq(Page) /\ p \in Page \ Elements(Unlisted(v))
      BY <1>6, <1>7
    <3>2. /\ lru' \in Seq(Page) /\ Distinct(lru')
          /\ Elements(lru') = Elements(Unlisted(v)) \cup {p}
      BY <2>1, <1>6, <3>1, Linked
    <3> QED BY <2>1, <3>2, <1>1, <1>2, <1>6, <1>7
  <2>2. CASE frame.pins # 0
    BY <2>2, <1>1, <1>2, <1>6, <1>7
  <2> QED BY <2>1, <2>2
<1>9. DOMAIN cache' \subseteq Page
  BY <1>2 DEF PoolTypes
<1> QED BY <1>2, <1>4, <1>5, <1>8, <1>9 DEF PoolTypes

(* So does unpinning one.                                                  *)
LEMMA Unpinned ==
  ASSUME PoolTypes, NEW p \in DOMAIN cache, cache[p].pins > 0, NEW d \in Version,
         NEW b \in BOOLEAN, Unpin(p, d, b)
  PROVE  /\ PoolTypes'
         /\ DOMAIN cache' = DOMAIN cache
         /\ cache'[p] = Frame(d, cache[p].pins - 1, cache[p].dirty \/ b)
         /\ \A q \in DOMAIN cache \ {p} : cache'[q] = cache[q]
<1>1. /\ DOMAIN cache' = DOMAIN cache
      /\ cache'[p] = Frame(d, cache[p].pins - 1, cache[p].dirty \/ b)
      /\ \A q \in DOMAIN cache \ {p} : cache'[q] = cache[q]
  BY DEF Unpin, PoolTypes
<1>2. cache[p].pins \in Nat /\ cache[p].dirty \in BOOLEAN
  BY DEF PoolTypes, Frames
<1>3. cache' \in [DOMAIN cache' -> Frames]
  <2>1. Frame(d, cache[p].pins - 1, cache[p].dirty \/ b) \in Frames
    BY <1>2 DEF Frame, Frames
  <2> QED BY <2>1, <1>1 DEF Unpin, PoolTypes
<1>4. p \in Page \ Elements(lru)
  BY DEF PoolTypes
<1>5. /\ lru' \in Seq(Page) /\ Distinct(lru')
      /\ Elements(lru') = IF cache[p].pins = 1 THEN Elements(lru) \cup {p} ELSE Elements(lru)
  <2>1. CASE cache[p].pins = 1
    <3>1. lru' = <<p>> \o lru
      BY <2>1 DEF Unpin
    <3> QED BY <2>1, <3>1, <1>4, Linked DEF PoolTypes
  <2>2. CASE cache[p].pins # 1
    BY <2>2, <1>2 DEF Unpin, PoolTypes
  <2> QED BY <2>1, <2>2
<1>6. cache'[p].pins = cache[p].pins - 1
  BY <1>1 DEF Frame
<1>7. Elements(lru') = {q \in DOMAIN cache' : cache'[q].pins = 0}
  <2>1. Elements(lru) = {q \in DOMAIN cache : cache[q].pins = 0}
    BY DEF PoolTypes
  <2>2. cache'[p].pins = 0 <=> cache[p].pins = 1
    BY <1>2, <1>6
  <2> QED BY <1>1, <1>5, <2>1, <2>2
<1> QED BY <1>1, <1>3, <1>5, <1>7 DEF PoolTypes

-----------------------------------------------------------------------------
(* The log and its buffer.                                                 *)

LEMMA ElementsOfConcat ==
  ASSUME NEW S, NEW s \in Seq(S), NEW t \in Seq(S)
  PROVE  /\ s \o t \in Seq(S) /\ Len(s \o t) = Len(s) + Len(t)
         /\ Elements(s \o t) = Elements(s) \cup Elements(t)
<1>1. /\ s \o t \in Seq(S) /\ Len(s \o t) = Len(s) + Len(t)
      /\ \A i \in 1 .. Len(s) + Len(t) : (s \o t)[i] = IF i <= Len(s) THEN s[i] ELSE t[i - Len(s)]
  BY ConcatProperties
<1> DEFINE c == s \o t
<1> HIDE DEF c
<1>2. /\ DOMAIN c = 1 .. Len(s) + Len(t) /\ DOMAIN s = 1 .. Len(s) /\ DOMAIN t = 1 .. Len(t)
      /\ Len(s) \in Nat /\ Len(t) \in Nat
  BY <1>1 DEF c
<1>3. \A i \in DOMAIN c : c[i] = IF i <= Len(s) THEN s[i] ELSE t[i - Len(s)]
  BY <1>1, <1>2 DEF c
<1>4. \A i \in DOMAIN s : i \in DOMAIN c /\ c[i] = s[i]
  BY <1>2, <1>3
<1>5. \A i \in DOMAIN t : i + Len(s) \in DOMAIN c /\ c[i + Len(s)] = t[i]
  BY <1>2, <1>3
<1>6. \A i \in DOMAIN c : i \in DOMAIN s \/ i - Len(s) \in DOMAIN t
  BY <1>2
<1>7. Elements(c) \subseteq Elements(s) \cup Elements(t)
  BY <1>2, <1>3, <1>6 DEF Elements
<1>8. Elements(s) \subseteq Elements(c) /\ Elements(t) \subseteq Elements(c)
  BY <1>4, <1>5 DEF Elements
<1> QED BY <1>1, <1>7, <1>8 DEF c

LEMMA ElementsOfSubSeq ==
  ASSUME NEW S, NEW s \in Seq(S), NEW m \in 1 .. Len(s) + 1, NEW n \in 0 .. Len(s), m <= n + 1
  PROVE  /\ SubSeq(s, m, n) \in Seq(S) /\ Elements(SubSeq(s, m, n)) \subseteq Elements(s)
         /\ Len(SubSeq(s, m, n)) = n + 1 - m
<1> DEFINE c == SubSeq(s, m, n)
<1>1. c \in Seq(S) /\ Len(c) = n + 1 - m /\ \A i \in 1 .. n + 1 - m : c[i] = s[m + i - 1]
  BY SubSeqProperties
<1> HIDE DEF c
<1>2. DOMAIN c = 1 .. n + 1 - m /\ DOMAIN s = 1 .. Len(s) /\ Len(s) \in Nat
  BY <1>1
<1>3. \A i \in DOMAIN c : m + i - 1 \in DOMAIN s
  BY <1>2
<1> QED BY <1>1, <1>2, <1>3 DEF Elements, c

(* A sequence cut in two.                                                  *)
LEMMA Parted ==
  ASSUME NEW S, NEW s \in Seq(S), NEW n \in 0 .. Len(s)
  PROVE  /\ SubSeq(s, 1, n) \in Seq(S) /\ SubSeq(s, n + 1, Len(s)) \in Seq(S)
         /\ Len(SubSeq(s, 1, n)) = n /\ Len(SubSeq(s, n + 1, Len(s))) = Len(s) - n
         /\ Elements(SubSeq(s, 1, n)) \subseteq Elements(s)
         /\ Elements(SubSeq(s, n + 1, Len(s))) \subseteq Elements(s)
         /\ SubSeq(s, 1, n) \o SubSeq(s, n + 1, Len(s)) = s
<1>1. /\ 1 \in 1 .. Len(s) + 1 /\ n \in 1 - 1 .. Len(s) /\ Len(s) \in n .. Len(s)
      /\ n + 1 \in 1 .. Len(s) + 1 /\ Len(s) \in 0 .. Len(s)
  OBVIOUS
<1>2. SubSeq(s, 1, n) \o SubSeq(s, n + 1, Len(s)) = SubSeq(s, 1, Len(s))
  BY <1>1, ConcatAdjacentSubSeq
<1>3. SubSeq(s, 1, Len(s)) = s
  BY SubSeqFull
<1>4. /\ SubSeq(s, 1, n) \in Seq(S) /\ Len(SubSeq(s, 1, n)) = n
      /\ Elements(SubSeq(s, 1, n)) \subseteq Elements(s)
  <2>1. Len(SubSeq(s, 1, n)) = n + 1 - 1
    BY <1>1, ElementsOfSubSeq
  <2> QED BY <1>1, <2>1, ElementsOfSubSeq
<1>5. /\ SubSeq(s, n + 1, Len(s)) \in Seq(S) /\ Len(SubSeq(s, n + 1, Len(s))) = Len(s) - n
      /\ Elements(SubSeq(s, n + 1, Len(s))) \subseteq Elements(s)
  <2>1. Len(SubSeq(s, n + 1, Len(s))) = Len(s) + 1 - (n + 1)
    BY <1>1, ElementsOfSubSeq
  <2> QED BY <1>1, <2>1, ElementsOfSubSeq
<1> QED BY <1>2, <1>3, <1>4, <1>5

LogTypes == log \in Seq(Parts) /\ buffer \in Seq(Parts) /\ Len(buffer) <= BufferParts
Logged   == Elements(log) \cup Elements(buffer)

(* What an append leaves in the log and its buffer; it loses nothing and   *)
(* changes nothing that is there unless it fails.                          *)
LEMMA Appended ==
  ASSUME LogTypes, NEW parts \in Seq(Parts), Len(parts) <= BufferParts, AppendOk(parts)
  PROVE  /\ LogTypes' /\ Logged' \subseteq Logged \cup Elements(parts)
         /\ Full' = Full \o parts /\ Len(log) <= Len(log') /\ logFailed' = logFailed
<1> DEFINE n == Fitting(parts)
<1>1. BufferParts \in Nat
  BY SizesAssumption DEF SizesAssumption
<1>2. n \in 0 .. Len(parts) /\ n + Len(buffer) <= BufferParts
  BY <1>1 DEF Fitting, LogTypes
<1>3. CASE n = Len(parts)
  <2>1. log' = log /\ buffer' = buffer \o parts
    BY <1>3 DEF AppendOk
  <2>2. buffer' \in Seq(Parts) /\ Elements(buffer') = Elements(buffer) \cup Elements(parts)
    BY <2>1, ElementsOfConcat DEF LogTypes
  <2>3. Len(buffer') <= BufferParts
    BY <2>1, <1>2, <1>3 DEF LogTypes
  <2>4. Full' = Full \o parts
    BY <2>1, ConcatAssociative DEF Full, LogTypes
  <2> QED BY <2>1, <2>2, <2>3, <2>4 DEF LogTypes, Logged, AppendOk
<1>4. CASE n # Len(parts)
  <2>1. PICK a, b : /\ a = SubSeq(parts, 1, n) /\ b = SubSeq(parts, n + 1, Len(parts))
                    /\ log' = Full \o a /\ buffer' = b
    BY <1>4 DEF AppendOk, Full
  <2> HIDE DEF n
  <2>2. Full \in Seq(Parts) /\ Elements(Full) = Logged /\ Len(Full) = Len(log) + Len(buffer)
    BY ElementsOfConcat DEF LogTypes, Logged, Full
  <2>7. /\ a \in Seq(Parts) /\ Len(a) = n /\ Elements(a) \subseteq Elements(parts)
        /\ b \in Seq(Parts) /\ Len(b) = Len(parts) - n /\ Elements(b) \subseteq Elements(parts)
        /\ a \o b = parts
    BY <1>2, <2>1, Parted
  <2>3. /\ Full \o a \in Seq(Parts) /\ Len(Full \o a) = Len(Full) + Len(a)
        /\ Elements(Full \o a) = Elements(Full) \cup Elements(a)
    BY <2>2, <2>7, ElementsOfConcat
  <2>8. (Full \o a) \o b = Full \o (a \o b)
    <3>1. Full \in Seq(Parts) /\ a \in Seq(Parts) /\ b \in Seq(Parts)
      BY <2>2, <2>7
    <3> QED BY <3>1
  <2>4. Full' = Full \o parts
    BY <2>1, <2>7, <2>8 DEF Full
  <2>5. Len(log) \in Nat /\ Len(buffer) \in Nat
    BY DEF LogTypes
  <2>6. Len(log) <= Len(log') /\ Len(buffer') <= BufferParts
    BY <1>1, <1>2, <2>1, <2>2, <2>3, <2>5, <2>7
  <2> QED BY <2>1, <2>2, <2>3, <2>4, <2>6, <2>7 DEF LogTypes, Logged, AppendOk
<1> QED BY <1>3, <1>4

LEMMA AppendFailed ==
  ASSUME LogTypes, logFailed \in BOOLEAN, NEW parts \in Seq(Parts), AppendFails(parts)
  PROVE  LogTypes' /\ Logged' \subseteq Logged \cup Elements(parts) /\ logFailed' = TRUE
<1> DEFINE n == Fitting(parts)
           a == SubSeq(parts, 1, n)
           f == buffer \o a
<1>1. BufferParts \in Nat
  BY SizesAssumption DEF SizesAssumption
<1>2. n \in 0 .. Len(parts) /\ n + Len(buffer) <= BufferParts
  BY <1>1 DEF Fitting, LogTypes
<1>3. PICK k \in Short(f) : log' = log \o SubSeq(f, 1, k) /\ buffer' = f /\ logFailed' = TRUE
  BY DEF AppendFails
<1> HIDE DEF n
<1>4. a \in Seq(Parts) /\ Elements(a) \subseteq Elements(parts) /\ Len(a) = n
  BY <1>2, ElementsOfSubSeq
<1> HIDE DEF a
<1>5. f \in Seq(Parts) /\ Elements(f) = Elements(buffer) \cup Elements(a)
  BY <1>4, ElementsOfConcat DEF LogTypes
<1>6. Len(f) = Len(buffer) + Len(a)
  BY <1>4, ElementsOfConcat DEF LogTypes
<1> HIDE DEF f
<1> DEFINE c == SubSeq(f, 1, k)
<1>7. k \in 0 .. Len(f)
  BY <1>5 DEF Short
<1>8. c \in Seq(Parts) /\ Elements(c) \subseteq Elements(f)
  BY <1>5, <1>7, ElementsOfSubSeq
<1> HIDE DEF c
<1>9. log \o c \in Seq(Parts) /\ Elements(log \o c) = Elements(log) \cup Elements(c)
  BY <1>8, ElementsOfConcat DEF LogTypes
<1>11. log' = log \o c
  BY <1>3 DEF c
<1>10. Len(f) <= BufferParts
  BY <1>1, <1>2, <1>4, <1>6 DEF LogTypes
<1> QED BY <1>3, <1>4, <1>5, <1>8, <1>9, <1>10, <1>11 DEF LogTypes, Logged

(* The same for a flush of the buffer.                                     *)
LEMMA LogFlushed ==
  ASSUME LogTypes, logFailed \in BOOLEAN, WriteLog
  PROVE  /\ LogTypes' /\ Logged' \subseteq Logged
         /\ logFailed' \in BOOLEAN /\ (logFailed => logFailed')
         /\ ~logFailed' => Full' = Full /\ log' = Full /\ Len(log) <= Len(log')
<1>1. CASE log' = log \o buffer /\ buffer' = <<>> /\ logFailed' = logFailed
  <2>1. log' \in Seq(Parts) /\ Elements(log') = Logged
    BY <1>1, ElementsOfConcat DEF LogTypes, Logged
  <2>2. buffer' \in Seq(Parts) /\ Len(buffer') <= BufferParts /\ Elements(buffer') = {}
    BY <1>1, SizesAssumption DEF Elements, SizesAssumption
  <2>3. Full' = Full /\ log' = Full
    BY <1>1, <2>1 DEF Full
  <2>4. Len(log) <= Len(log')
    BY <1>1 DEF LogTypes
  <2> QED BY <1>1, <2>1, <2>2, <2>3, <2>4 DEF LogTypes, Logged
<1>2. ASSUME NEW k \in Short(buffer), log' = log \o SubSeq(buffer, 1, k), buffer' = buffer,
             buffer # <<>>, logFailed' = TRUE
      PROVE  LogTypes' /\ Logged' \subseteq Logged
  <2> DEFINE c == SubSeq(buffer, 1, k)
  <2>1. k \in 0 .. Len(buffer)
    BY <1>2 DEF Short, LogTypes
  <2>2. c \in Seq(Parts) /\ Elements(c) \subseteq Elements(buffer)
    BY <2>1, ElementsOfSubSeq DEF LogTypes
  <2> HIDE DEF c
  <2>3. log \o c \in Seq(Parts) /\ Elements(log \o c) = Elements(log) \cup Elements(c)
    BY <2>2, ElementsOfConcat DEF LogTypes
  <2>4. log' = log \o c
    BY <1>2 DEF c
  <2> QED BY <1>2, <2>2, <2>3, <2>4 DEF LogTypes, Logged
<1> QED BY <1>1, <1>2 DEF WriteLog


-----------------------------------------------------------------------------
(* The types and the parts of the invariant that say nothing of what the   *)
(* log has.                                                                *)

SInv == TypeOK /\ PoolInv /\ DiskInv /\ PhaseInv /\ PartsInv

OtherTypes ==
  /\ budget \in Budgets /\ file \in [Page -> Version] /\ meta \in Nat \cup {-1}
  /\ phase \in {"down", "redo", "open"} /\ next_page_id \in 0 .. MaxPages
  /\ next_txn_id \in Nat /\ current_txn \in Nat
  /\ todo \in Seq(Steps) /\ failed \subseteq Page /\ redo \in Nat
  /\ held \in [Page -> Nat] /\ writes \in Nat /\ opens \in Nat
  /\ settled \in [Page -> Version]
  /\ wrote \subseteq Page \X Version /\ ended \subseteq Txns
  /\ acked \subseteq [txn : Txns, images : SUBSET (Page \X Version)]
  /\ logFailed \in BOOLEAN

(* A page that comes into the pool, for which another may have to go.      *)
LEMMA Brought ==
  ASSUME SInv, phase # "down", UNCHANGED <<phase, settled>>,
         NEW p \in Page, p \notin DOMAIN cache, NEW v \in Page \cup {NoPage}, Victim(v),
         WriteBack(v), NEW frame \in Frames, Load(p, frame, v),
         lru' = IF frame.pins = 0 THEN <<p>> \o Unlisted(v) ELSE Unlisted(v),
         file[p] <= frame.data, frame.data <= writes', writes' \in Nat, writes <= writes', ~frame.dirty => frame.data = file[p],
         next_page_id' \in 0 .. MaxPages, next_page_id <= next_page_id', p < next_page_id',
         held' = [held EXCEPT ![p] = frame.pins]
  PROVE  /\ PoolTypes' /\ PoolInv' /\ DiskInv' /\ file' \in [Page -> Version]
         /\ held' \in [Page -> Nat]
         /\ DOMAIN cache' = (DOMAIN cache \ {v}) \cup {p} /\ cache'[p] = frame
         /\ \A q \in DOMAIN cache \ {v} : q # p /\ cache'[q] = cache[q]
         /\ \A q \in Page : file'[q] = file[q] \/ (q = v /\ q \in DOMAIN cache /\ file'[q] = cache[q].data)
<1>1. PoolTypes
  BY PoolTypesHold DEF SInv
<1>2. /\ v \in Page => v \in DOMAIN cache /\ cache[v].pins = 0
      /\ v \notin Page => v \notin DOMAIN cache
  BY <1>1, VictimUnpinned
<1>3. /\ PoolTypes'
      /\ DOMAIN cache' = (DOMAIN cache \ {v}) \cup {p}
      /\ cache'[p] = frame
      /\ \A q \in DOMAIN cache \ {v} : q # p /\ cache'[q] = cache[q]
  BY <1>1, Loaded
<1> USE DEF SInv, Version
<1>4. frame.pins \in Nat /\ frame.data \in Nat /\ frame.dirty \in BOOLEAN
  BY DEF Frames
<1>9. /\ file \in [Page -> Nat] /\ held \in [Page -> Nat] /\ settled \in [Page -> Nat]
      /\ writes \in Nat /\ next_page_id \in 0 .. MaxPages
  BY DEF TypeOK
<1>5. \A q \in DOMAIN cache : q \in Page /\ cache[q].data \in Nat /\ cache[q].pins \in Nat
  BY <1>1 DEF PoolTypes, Frames
<1>6. /\ file' \in [Page -> Nat]
      /\ \A q \in Page : file'[q] = file[q] \/ (q = v /\ q \in DOMAIN cache /\ file'[q] = cache[q].data)
  <2>1. CASE file' = IF v # NoPage /\ cache[v].dirty THEN [file EXCEPT ![v] = cache[v].data] ELSE file
    <3>1. CASE v \in Page
      BY <2>1, <3>1, <1>2, <1>4, <1>9, <1>5
    <3>2. CASE v \notin Page
      BY <2>1, <3>2, <1>4, <1>9
    <3> QED BY <3>1, <3>2
  <2>2. CASE file' = file
    BY <2>2, <1>4, <1>9
  <2> QED BY <2>1, <2>2 DEF WriteBack
<1>7. PoolInv'
  <2>1. \A q \in Page : held'[q] = IF q = p THEN frame.pins ELSE held[q]
    BY <1>4, <1>9
  <2>2. \A q \in Page : held'[q] = IF q \in DOMAIN cache' THEN cache'[q].pins ELSE 0
    <3> SUFFICES ASSUME NEW q \in Page
                 PROVE  held'[q] = IF q \in DOMAIN cache' THEN cache'[q].pins ELSE 0
      OBVIOUS
    <3>1. held[q] = IF q \in DOMAIN cache THEN cache[q].pins ELSE 0
      BY DEF PoolInv
    <3>2. CASE q = p
      BY <3>2, <2>1, <1>3 DEF Frames
    <3>3. CASE q # p
      BY <3>1, <3>3, <2>1, <1>2, <1>3
    <3> QED BY <3>2, <3>3
  <2>3. \A q \in DOMAIN cache' : q < next_page_id'
    <3>1. \A q \in DOMAIN cache : q < next_page_id
      BY DEF PoolInv
    <3> QED BY <3>1, <1>3, <1>4, <1>9, <1>5 DEF Page
  <2>4. \A q \in Page : file'[q] # 0 => q < next_page_id'
    <3>1. \A q \in DOMAIN cache : q < next_page_id
      BY DEF PoolInv
    <3>2. \A q \in Page : file[q] # 0 => q < next_page_id
      BY DEF PoolInv
    <3> QED BY <3>1, <3>2, <1>4, <1>9, <1>6 DEF Page
  <2> QED BY <2>2, <2>3, <2>4 DEF PoolInv
<1>8. DiskInv'
  <2>1. \A q \in Page : settled[q] <= file[q] /\ file[q] <= writes
    BY DEF DiskInv
  <2>2. \A q \in DOMAIN cache : /\ file[q] <= cache[q].data /\ cache[q].data <= writes
                                /\ ~cache[q].dirty => file[q] = cache[q].data
    BY DEF DiskInv
  <2>3. ASSUME NEW q \in Page
        PROVE  settled'[q] <= file'[q] /\ file'[q] <= writes'
    <3>1. settled' = settled /\ settled[q] \in Nat /\ file[q] \in Nat
      BY <1>4, <1>9
    <3>2. CASE file'[q] = file[q]
      BY <3>1, <3>2, <2>1, <1>4, <1>9
    <3>3. CASE q \in DOMAIN cache /\ file'[q] = cache[q].data
      <4>1. file[q] <= cache[q].data /\ cache[q].data <= writes /\ cache[q].data \in Nat
        BY <3>3, <1>5, <2>2
      <4> QED BY <3>1, <3>3, <4>1, <2>1, <1>4, <1>9
    <3> QED BY <3>2, <3>3, <1>6
  <2>4. ASSUME NEW q \in DOMAIN cache'
        PROVE  /\ file'[q] <= cache'[q].data /\ cache'[q].data <= writes'
               /\ ~cache'[q].dirty => file'[q] = cache'[q].data
    <3>1. CASE q = p
      <4>1. file'[p] = file[p]
        BY <1>6
      <4>2. cache'[p] = frame /\ frame.data \in Nat
        BY <1>3 DEF Frames
      <4> QED BY <3>1, <4>1, <4>2
    <3>2. CASE q # p
      <4>1. q \in DOMAIN cache \ {v} /\ cache'[q] = cache[q]
        BY <3>2, <1>3
      <4>2. file'[q] = file[q]
        BY <4>1, <1>5, <1>6
      <4>3. /\ file[q] <= cache[q].data /\ cache[q].data <= writes
            /\ ~cache[q].dirty => file[q] = cache[q].data
        BY <4>1, <2>2
      <4>4. cache[q].data <= writes'
        BY <4>1, <4>3, <1>5, <1>9
      <4> QED BY <4>1, <4>2, <4>3, <4>4
    <3> QED BY <3>1, <3>2
  <2> QED BY <2>3, <2>4 DEF DiskInv
<1> QED BY <1>3, <1>4, <1>9, <1>6, <1>7, <1>8

(* A page that is unpinned, with the bytes it had or newer ones.           *)
LEMMA Unbrought ==
  ASSUME SInv, UNCHANGED <<phase, settled, file, next_page_id>>,
         NEW p \in Page, held[p] > 0, NEW d \in Version, NEW b \in BOOLEAN, Unpin(p, d, b),
         cache[p].data <= d, d <= writes', writes' \in Nat, writes <= writes',
         b \/ d = cache[p].data, held' = [held EXCEPT ![p] = @ - 1]
  PROVE  /\ PoolTypes' /\ PoolInv' /\ DiskInv' /\ held' \in [Page -> Nat]
         /\ p \in DOMAIN cache /\ DOMAIN cache' = DOMAIN cache
         /\ \A q \in DOMAIN cache : cache'[q].data = IF q = p THEN d ELSE cache[q].data
<1>1. PoolTypes
  BY PoolTypesHold DEF SInv
<1>2. p \in DOMAIN cache /\ cache[p].pins = held[p]
  BY DEF SInv, PoolInv
<1>3. /\ PoolTypes'
      /\ DOMAIN cache' = DOMAIN cache
      /\ cache'[p] = Frame(d, cache[p].pins - 1, cache[p].dirty \/ b)
      /\ \A q \in DOMAIN cache \ {p} : cache'[q] = cache[q]
  BY <1>1, <1>2, Unpinned
<1> USE DEF SInv, Version
<1>4. /\ file \in [Page -> Nat] /\ held \in [Page -> Nat] /\ writes \in Nat
  BY DEF TypeOK
<1>5. \A q \in DOMAIN cache : /\ q \in Page /\ cache[q].data \in Nat /\ cache[q].pins \in Nat
                              /\ cache[q].dirty \in BOOLEAN
  BY <1>1 DEF PoolTypes, Frames
<1>6. held' \in [Page -> Nat] /\ \A q \in Page : held'[q] = IF q = p THEN held[p] - 1 ELSE held[q]
  BY <1>4
<1>7. /\ cache'[p].data = d /\ cache'[p].pins = cache[p].pins - 1
      /\ cache'[p].dirty = (cache[p].dirty \/ b)
  BY <1>3 DEF Frame
<1>8. PoolInv'
  <2>1. \A q \in Page : held'[q] = IF q \in DOMAIN cache' THEN cache'[q].pins ELSE 0
    BY <1>2, <1>3, <1>6, <1>7 DEF PoolInv
  <2> QED BY <2>1, <1>3 DEF PoolInv
<1>9. DiskInv'
  <2>1. \A q \in Page : settled'[q] <= file'[q] /\ file'[q] <= writes'
    BY <1>4 DEF DiskInv, TypeOK
  <2>2. ASSUME NEW q \in DOMAIN cache'
        PROVE  /\ file'[q] <= cache'[q].data /\ cache'[q].data <= writes'
               /\ ~cache'[q].dirty => file'[q] = cache'[q].data
    <3>1. /\ file[q] <= cache[q].data /\ cache[q].data <= writes
          /\ ~cache[q].dirty => file[q] = cache[q].data
      BY <1>3 DEF DiskInv
    <3>2. q \in Page /\ file[q] \in Nat /\ cache[q].data \in Nat
      BY <1>3, <1>4, <1>5
    <3>3. CASE q = p
      <4>1. ~cache'[p].dirty => ~cache[p].dirty /\ ~b
        BY <1>7, Zenon
      <4>2. file'[p] <= d /\ (~cache[p].dirty /\ ~b => file'[p] = d)
        BY <3>1, <3>2, <3>3
      <4> QED BY <3>3, <4>1, <4>2, <1>7
    <3>4. CASE q # p
      BY <3>1, <3>2, <3>4, <1>3, <1>4
    <3> QED BY <3>3, <3>4
  <2> QED BY <2>1, <2>2 DEF DiskInv
<1> QED BY <1>2, <1>3, <1>6, <1>7, <1>8, <1>9

(* The types, taken apart.                                                 *)
LEMMA TypesParted ==
  TypeOK <=> PoolTypes /\ LogTypes /\ OtherTypes
<1>1. TypeOK => PoolTypes /\ LogTypes /\ OtherTypes
  BY DEF TypeOK, PoolTypes, LogTypes, OtherTypes, Frames, Distinct, Elements
<1>2. PoolTypes /\ LogTypes /\ OtherTypes => TypeOK
  BY DEF TypeOK, PoolTypes, LogTypes, OtherTypes, Frames, Distinct, Elements
<1> QED BY <1>1, <1>2

LEMMA TypesJoined ==
  ASSUME PoolTypes', LogTypes', OtherTypes'
  PROVE  TypeOK'
BY DEF TypeOK, PoolTypes, LogTypes, OtherTypes, Frames, Distinct, Elements

(* Steps that leave the pool, or the log, alone.                           *)
LEMMA PoolStays ==
  ASSUME SInv, UNCHANGED <<cache, lru, next_page_id, held, file, settled, writes>>,
         phase' # "down" => phase # "down"
  PROVE  PoolTypes' /\ PoolInv' /\ DiskInv'
<1>1. PoolTypes'
  BY TypesParted DEF SInv, PoolTypes
<1>2. PoolInv'
  BY DEF SInv, PoolInv
<1>3. DiskInv'
  BY DEF SInv, DiskInv
<1> QED BY <1>1, <1>2, <1>3

LEMMA PartStaysOk ==
  ASSUME NEW r, PartOk(r), ended \subseteq ended', writes \in Nat, writes' \in Nat, writes <= writes'
  PROVE  PartOk(r)'
BY DEF PartOk

LEMMA LogStays ==
  ASSUME SInv, UNCHANGED <<log, buffer>>, ended \subseteq ended', writes' \in Nat, writes <= writes'
  PROVE  LogTypes' /\ PartsInv'
<1>1. LogTypes'
  BY TypesParted DEF SInv, LogTypes
<1>2. writes \in Nat
  BY DEF SInv, TypeOK
<1>3. Elements(log) = Elements(log)' /\ Elements(buffer) = Elements(buffer)'
  BY DEF Elements
<1> QED BY <1>1, <1>2, <1>3, PartStaysOk DEF PartsInv, SInv

LEMMA PartsAdded ==
  ASSUME SInv, NEW parts, Logged' \subseteq Logged \cup Elements(parts),
         ended \subseteq ended', writes' \in Nat, writes <= writes',
         \A r \in Elements(parts) : PartOk(r)'
  PROVE  PartsInv'
<1>1. writes \in Nat
  BY DEF SInv, TypeOK
<1>2. \A r \in Logged : PartOk(r)'
  BY <1>1, PartStaysOk DEF PartsInv, SInv, Logged
<1>3. \A r \in Logged' : PartOk(r)'
  BY <1>2
<1> QED BY <1>3 DEF PartsInv, Logged

(* A record that the log takes, wholly or not.                             *)
LEMMA RecordAdded ==
  ASSUME SInv, NEW parts \in Seq(Parts), Len(parts) <= BufferParts,
         AppendOk(parts) \/ AppendFails(parts),
         ended \subseteq ended', writes' \in Nat, writes <= writes',
         \A r \in Elements(parts) : PartOk(r)'
  PROVE  LogTypes' /\ PartsInv' /\ logFailed' \in BOOLEAN
<1>1. LogTypes /\ logFailed \in BOOLEAN
  BY TypesParted DEF SInv, OtherTypes
<1>2. LogTypes' /\ Logged' \subseteq Logged \cup Elements(parts) /\ logFailed' \in BOOLEAN
  <2>1. CASE AppendOk(parts)
    BY <1>1, <2>1, Appended
  <2>2. CASE AppendFails(parts)
    BY <1>1, <2>2, AppendFailed
  <2> QED BY <2>1, <2>2
<1>3. PartsInv'
  BY <1>2, PartsAdded
<1> QED BY <1>2, <1>3

LEMMA BufferWritten ==
  ASSUME SInv, WriteLog, UNCHANGED <<ended, writes>>
  PROVE  LogTypes' /\ PartsInv' /\ logFailed' \in BOOLEAN
<1>1. LogTypes /\ logFailed \in BOOLEAN /\ writes \in Nat
  BY TypesParted DEF SInv, OtherTypes
<1>2. LogTypes' /\ Logged' \subseteq Logged \cup Elements(<<>>) /\ logFailed' \in BOOLEAN
  BY <1>1, LogFlushed
<1>3. \A r \in Elements(<<>>) : PartOk(r)'
  BY DEF Elements
<1>4. PartsInv'
  BY <1>1, <1>2, <1>3, PartsAdded
<1> QED BY <1>2, <1>4

(* What is left of a call.                                                 *)
LEMMA PlainPhase ==
  ASSUME phase' = "open", todo' \in Seq(PlainSteps)
  PROVE  PhaseInv' /\ todo' \in Seq(Steps)
<1>1. todo' \in Seq(Steps)
  BY DEF PlainSteps
<1>2. todo' # <<"image">> /\ todo' # <<"commit">>
  BY DEF PlainSteps
<1> QED BY <1>1, <1>2 DEF PhaseInv

LEMMA StepTaken ==
  ASSUME SInv, NEW step \in PlainSteps, AtStep(step)
  PROVE  /\ phase = "open" /\ todo \in Seq(PlainSteps) /\ Tail(todo) \in Seq(PlainSteps)
         /\ SubSeq(todo, 3, Len(todo)) \in Seq(PlainSteps)
         /\ SubSeq(todo, 5, Len(todo)) \in Seq(PlainSteps)
<1>1. phase = "open" /\ todo \in Seq(PlainSteps)
  <2>1. todo # <<"image">> /\ todo # <<"commit">>
    BY DEF AtStep, PlainSteps
  <2> QED BY <2>1 DEF SInv, PhaseInv, AtStep
<1>2. todo # <<>>
  BY DEF AtStep
<1> QED BY <1>1, <1>2

-----------------------------------------------------------------------------
(* The actions, one after the other: the processes.                        *)

(* A process that ends leaves the files.                                   *)
LEMMA ForgetSafe ==
  ASSUME SInv, Forget, UNCHANGED <<disk, writes, history>>
  PROVE  SInv'
<1>1. LogTypes /\ OtherTypes
  BY TypesParted DEF SInv
<1>2. /\ DOMAIN cache' = {} /\ lru' = <<>> /\ cache' = <<>>
  BY DEF Forget
<1>3. PoolTypes'
  <2>1. Cardinality({}) = 0
    BY FS_EmptySet
  <2> QED BY <1>2, <2>1, SizesAssumption DEF PoolTypes, SizesAssumption, Distinct, Elements, Frames
<1>4. LogTypes'
  BY <1>1, SizesAssumption DEF Forget, disk, LogTypes, SizesAssumption
<1>5. OtherTypes'
  BY <1>1, SizesAssumption DEF OtherTypes, SizesAssumption, Forget, disk, history
<1>6. PoolInv'
  BY <1>2, <1>1 DEF PoolInv, Forget, OtherTypes
<1>7. DiskInv'
  BY <1>2 DEF DiskInv, SInv, disk, history
<1>8. PhaseInv'
  BY <1>2 DEF PhaseInv, Forget
<1>9. PartsInv'
  <2>1. Elements(buffer') = {} /\ Elements(log') = Elements(log)
    BY DEF Forget, Elements, disk
  <2> QED BY <2>1 DEF SInv, PartsInv, PartOk, history
<1> QED BY <1>3, <1>4, <1>5, <1>6, <1>7, <1>8, <1>9, TypesJoined DEF SInv

LEMMA CrashSafe == ASSUME SInv, Crash PROVE SInv'
BY ForgetSafe DEF Crash

LEMMA ClosedSafe == ASSUME SInv, Closed PROVE SInv'
BY ForgetSafe DEF Closed

(* The first page number beyond what the file has is found.                *)
LEMMA LeastNat ==
  ASSUME NEW S \in SUBSET Nat, S # {}
  PROVE  \E n \in S : \A m \in S : n <= m
<1>1. PICK t \in S : TRUE
  OBVIOUS
<1> DEFINE U == 0 .. t
           F == {u \in SUBSET U : \E n \in S : n <= t /\ u = 0 .. n}
<1>2. IsWellFoundedOn(StrictSubsetOrdering(U), SUBSET U)
  <2>1. IsFiniteSet(U)
    BY FS_Interval
  <2> QED BY <2>1, FS_StrictSubsetOrderingWellFounded, FS_FiniteSubsetsOfFinite
<1>3. F # {} /\ F \subseteq SUBSET U
  <2>1. U \in F
    BY <1>1
  <2> QED BY <2>1
<1>4. \E u \in F : \A w \in F : ~(<<w, u>> \in StrictSubsetOrdering(U))
  <2> HIDE DEF F, U
  <2> QED BY <1>2, <1>3, WFMin
<1>5. PICK n \in S : n <= t /\ 0 .. n \in F /\ \A w \in F : ~(<<w, 0 .. n>> \in StrictSubsetOrdering(U))
  BY <1>4
<1>6. ASSUME NEW m \in S, m < n
      PROVE  FALSE
  <2>1. 0 .. m \in F
    BY <1>5, <1>6
  <2>2. 0 .. m \in SUBSET U /\ 0 .. n \in SUBSET U
    BY <1>5, <1>6
  <2>3. 0 .. m \subseteq 0 .. n /\ 0 .. m # 0 .. n
    BY <1>6
  <2> QED BY <1>5, <2>1, <2>2, <2>3 DEF StrictSubsetOrdering
<1> QED BY <1>5, <1>6

LEMMA SizeFound ==
  ASSUME NEW f \in [Page -> Version]
  PROVE  SizeOf(f) \in 0 .. MaxPages /\ \A p \in Page : f[p] # 0 => p < SizeOf(f)
<1> DEFINE S == {n \in 0 .. MaxPages : \A p \in Page : f[p] # 0 => p < n}
<1>1. MaxPages \in Nat
  BY SizesAssumption DEF SizesAssumption
<1>2. MaxPages \in S
  BY <1>1 DEF Page
<1>3. PICK n \in S : \A m \in S : n <= m
  <2>1. S \in SUBSET Nat /\ S # {}
    BY <1>1, <1>2
  <2> HIDE DEF S
  <2> QED BY <2>1, LeastNat
<1>4. n # 0 => f[n - 1] # 0
  <2> SUFFICES ASSUME n # 0, f[n - 1] = 0
               PROVE  FALSE
    OBVIOUS
  <2>1. n - 1 \in S
    BY <1>1 DEF Page
  <2> QED BY <2>1, <1>1, <1>3
<1>5. \E m \in 0 .. MaxPages : (\A p \in Page : f[p] # 0 => p < m) /\ (m # 0 => f[m - 1] # 0)
  BY <1>3, <1>4
<1> QED BY <1>5 DEF SizeOf

LEMMA OpenSafe ==
  ASSUME SInv, OpenNew \/ Open
  PROVE  SInv'
<1>1. PoolTypes /\ LogTypes /\ OtherTypes
  BY TypesParted DEF SInv
<1>2. /\ phase = "down" /\ next_page_id' = SizeOf(file) /\ opens' = opens + 1
      /\ UNCHANGED <<file, log, cache, lru, buffer, current_txn, wrote, failed, redo, held,
                     writes, budget, settled, acked, ended, logFailed>>
      /\ \/ /\ phase' = "open" /\ todo' = <<"meta">> /\ meta' = 0 /\ next_txn_id' = 1
         \/ /\ phase' = "redo" /\ todo' = todo /\ meta' = meta /\ next_txn_id' = meta /\ meta > 0
  BY DEF OpenNew, Open, disk
<1>3. SizeOf(file) \in 0 .. MaxPages /\ \A p \in Page : file[p] # 0 => p < SizeOf(file)
  BY <1>1, SizeFound DEF OtherTypes
<1>4. DOMAIN cache = {} /\ lru = <<>> /\ buffer = <<>> /\ current_txn = 0 /\ todo = <<>>
  BY <1>2 DEF SInv, PhaseInv
<1>5. PoolTypes' /\ LogTypes'
  BY <1>1, <1>2 DEF PoolTypes, LogTypes
<1>6. OtherTypes'
  <2>1. todo' \in Seq(Steps)
    <3>1. <<"meta">> \in Seq(Steps) /\ <<>> \in Seq(Steps)
      BY DEF Steps
    <3> QED BY <1>2, <1>4, <3>1
  <2> QED BY <1>1, <1>2, <1>3, <2>1 DEF OtherTypes
<1>7. PoolInv'
  BY <1>2, <1>3, <1>4 DEF SInv, PoolInv
<1>8. DiskInv'
  BY <1>2 DEF SInv, DiskInv
<1>9. PhaseInv'
  <2>1. CASE phase' = "open"
    <3>1. todo' \in Seq(PlainSteps)
      <4>1. <<"meta">> \in Seq(PlainSteps)
        BY DEF PlainSteps, Steps
      <4> QED BY <1>2, <2>1, <4>1
    <3> QED BY <2>1, <3>1, PlainPhase
  <2>2. CASE phase' = "redo"
    BY <1>2, <1>4, <2>2 DEF PhaseInv
  <2> QED BY <1>2, <2>1, <2>2
<1>10. PartsInv'
  BY <1>1, <1>2, LogStays DEF OtherTypes, Version
<1> QED BY <1>5, <1>6, <1>7, <1>8, <1>9, <1>10, TypesJoined DEF SInv

(* What the reader gives ends with the log, or with its first torn record. *)
LEMMA FirstBad ==
  ASSUME log \in Seq(Parts), Torn
  PROVE  \E j \in DOMAIN log : Bad(j) /\ \A k \in 1 .. j - 1 : ~Bad(k)
<1> DEFINE B == {j \in DOMAIN log : Bad(j)}
<1>1. B \in SUBSET Nat /\ B # {}
  BY DEF Torn
<1>2. PICK j \in B : \A k \in B : j <= k
  <2> HIDE DEF B
  <2> QED BY <1>1, LeastNat
<1>3. ASSUME NEW k \in 1 .. j - 1
      PROVE  ~Bad(k)
  BY <1>2
<1> QED BY <1>2, <1>3

LEMMA ReadableBound ==
  ASSUME log \in Seq(Parts)
  PROVE  Readable \in 0 .. Len(log)
<1>1. CASE ~Torn
  BY <1>1 DEF Readable
<1>2. CASE Torn
  <2> DEFINE i == CHOOSE j \in DOMAIN log : Bad(j) /\ \A k \in 1 .. j - 1 : ~Bad(k)
  <2>1. i \in DOMAIN log
    BY <1>2, FirstBad
  <2>2. Readable \in {0, i - 1}
    BY <1>2 DEF Readable
  <2> HIDE DEF i
  <2> QED BY <1>2, <2>1, <2>2
<1> QED BY <1>1, <1>2

(* An image that recovery applies: a page of its own, with written bytes.  *)
LEMMA RedoneWritten ==
  ASSUME SInv, NEW i \in Redoable
  PROVE  log[i].data \in 1 .. writes
<1>1. i \in DOMAIN log /\ log[i].kind = "image"
  <2>1. log \in Seq(Parts) /\ Readable \in 0 .. Len(log)
    BY ReadableBound DEF SInv, TypeOK
  <2> QED BY <2>1 DEF Redoable
<1> QED BY <1>1 DEF SInv, PartsInv, PartOk, Elements

(* The next page number belongs to no page yet.                            *)
LEMMA NextPageNew ==
  ASSUME SInv, phase # "down", next_page_id < MaxPages
  PROVE  /\ next_page_id \in Page /\ next_page_id \notin DOMAIN cache
         /\ file[next_page_id] = 0 /\ held[next_page_id] = 0
         /\ next_page_id + 1 \in 0 .. MaxPages
<1>1. next_page_id \in 0 .. MaxPages /\ MaxPages \in Nat /\ file \in [Page -> Version]
  BY SizesAssumption DEF SInv, TypeOK, SizesAssumption
<1>2. next_page_id \in Page /\ next_page_id + 1 \in 0 .. MaxPages
  BY <1>1 DEF Page
<1>3. next_page_id \notin DOMAIN cache /\ file[next_page_id] = 0
  BY <1>1, <1>2 DEF SInv, PoolInv
<1> QED BY <1>2, <1>3 DEF SInv, PoolInv

LEMMA RedoPageSafe ==
  ASSUME SInv, RedoPage
  PROVE  SInv'
<1>1. PoolTypes /\ LogTypes /\ OtherTypes
  BY TypesParted DEF SInv
<1>2. phase = "redo" /\ next_page_id < MaxPages /\ next_page_id' = next_page_id + 1
  BY DEF RedoPage
<1>3. UNCHANGED <<log, meta, phase, buffer, txn, todo, failed, held, writes, history>>
  BY DEF RedoPage
<1>4. PICK i \in Redoable : /\ redo' = i
                            /\ \E v \in Page \cup {NoPage} :
                                 /\ Victim(v) /\ WriteBack(v)
                                 /\ Load(next_page_id, Frame(log[i].data, 0, TRUE), v)
                                 /\ lru' = <<next_page_id>> \o Unlisted(v)
  BY DEF RedoPage
<1>5. PICK v \in Page \cup {NoPage} :
        /\ Victim(v) /\ WriteBack(v)
        /\ Load(next_page_id, Frame(log[i].data, 0, TRUE), v)
        /\ lru' = <<next_page_id>> \o Unlisted(v)
  BY <1>4
<1>6. log[i].data \in 1 .. writes /\ writes \in Nat
  BY <1>1, RedoneWritten DEF OtherTypes
<1> DEFINE frame == Frame(log[i].data, 0, TRUE)
<1>7. frame \in Frames /\ frame.data = log[i].data /\ frame.pins = 0 /\ frame.dirty = TRUE
  BY <1>6 DEF Frame, Frames, Version
<1>8. /\ next_page_id \in Page /\ next_page_id \notin DOMAIN cache
      /\ file[next_page_id] = 0 /\ held[next_page_id] = 0
      /\ next_page_id + 1 \in 0 .. MaxPages
  BY <1>2, NextPageNew
<1>9. held' = [held EXCEPT ![next_page_id] = frame.pins]
  BY <1>1, <1>3, <1>7, <1>8 DEF OtherTypes
<1>10. phase # "down" /\ UNCHANGED <<phase, settled>> /\ writes' = writes
  BY <1>2, <1>3 DEF history
<1>11. /\ Victim(v) /\ WriteBack(v) /\ Load(next_page_id, frame, v)
       /\ lru' = IF frame.pins = 0 THEN <<next_page_id>> \o Unlisted(v) ELSE Unlisted(v)
  BY <1>5, <1>7
<1>12. /\ file[next_page_id] <= frame.data /\ frame.data <= writes' /\ writes' \in Nat
       /\ writes <= writes' /\ (~frame.dirty => frame.data = file[next_page_id])
       /\ next_page_id <= next_page_id' /\ next_page_id < next_page_id'
       /\ next_page_id' \in 0 .. MaxPages
  <2>1. next_page_id \in 0 .. MaxPages
    BY <1>1 DEF OtherTypes
  <2>2. ~frame.dirty => frame.data = file[next_page_id]
    BY <1>7
  <2> HIDE DEF frame
  <2>3. file[next_page_id] <= frame.data /\ frame.data <= writes' /\ writes' \in Nat
    BY <1>6, <1>7, <1>8, <1>10
  <2> QED BY <1>2, <1>6, <1>8, <1>10, <2>1, <2>2, <2>3
<1> HIDE DEF frame
<1>13. /\ PoolTypes' /\ PoolInv' /\ DiskInv' /\ file' \in [Page -> Version]
       /\ held' \in [Page -> Nat]
  BY <1>7, <1>8, <1>9, <1>10, <1>11, <1>12, Brought
<1>14. LogTypes' /\ PartsInv'
  BY <1>1, <1>3, LogStays DEF history, OtherTypes
<1>15. i \in Nat
  BY <1>1, ReadableBound DEF LogTypes, Redoable
<1>16. OtherTypes'
  BY <1>1, <1>2, <1>3, <1>4, <1>12, <1>13, <1>15 DEF OtherTypes, txn, history
<1>17. PhaseInv'
  BY <1>2, <1>3 DEF SInv, PhaseInv, txn
<1> QED BY <1>13, <1>14, <1>16, <1>17, TypesJoined DEF SInv

LEMMA RedoEndSafe ==
  ASSUME SInv, RedoEnd
  PROVE  SInv'
<1>1. PoolTypes /\ LogTypes /\ OtherTypes
  BY TypesParted DEF SInv
<1>2. /\ phase = "redo" /\ phase' = "open" /\ meta' = next_txn_id /\ redo' = 0
      /\ UNCHANGED <<file, log, pool, buffer, txn, todo, failed, held, writes, history>>
  BY DEF RedoEnd
<1>3. PoolTypes' /\ PoolInv' /\ DiskInv'
  BY <1>2, PoolStays DEF pool, history
<1>4. LogTypes' /\ PartsInv'
  BY <1>1, <1>2, LogStays DEF history, OtherTypes
<1>5. OtherTypes'
  BY <1>1, <1>2 DEF OtherTypes, pool, txn, history
<1>6. PhaseInv'
  <2>1. todo' \in Seq(PlainSteps)
    BY <1>2 DEF SInv, PhaseInv
  <2> QED BY <1>2, <2>1, PlainPhase
<1> QED BY <1>3, <1>4, <1>5, <1>6, TypesJoined DEF SInv

-----------------------------------------------------------------------------
(* Pages.                                                                  *)

LEMMA FetchHitSafe ==
  ASSUME SInv, NEW p \in Page, FetchHit(p)
  PROVE  SInv'
<1>1. PoolTypes /\ LogTypes /\ OtherTypes
  BY TypesParted DEF SInv
<1>2. /\ Idle /\ p \in DOMAIN cache /\ cache' = [cache EXCEPT ![p].pins = @ + 1]
      /\ lru' = IF cache[p].pins = 0 THEN Unlisted(p) ELSE lru
      /\ held' = [held EXCEPT ![p] = @ + 1]
      /\ UNCHANGED <<disk, phase, next_page_id, buffer, txn, todo, failed, redo, writes, history>>
  BY DEF FetchHit
<1>3. \A q \in DOMAIN cache : /\ cache[q] \in Frames /\ cache[q].pins \in Nat
                              /\ cache[q].data \in Nat /\ cache[q].dirty \in BOOLEAN
  BY <1>1 DEF PoolTypes, Frames, Version
<1>4. /\ DOMAIN cache' = DOMAIN cache
      /\ cache'[p] = [cache[p] EXCEPT !.pins = @ + 1]
      /\ \A q \in DOMAIN cache \ {p} : cache'[q] = cache[q]
      /\ cache' \in [DOMAIN cache' -> Frames]
  <2>1. [cache[p] EXCEPT !.pins = @ + 1] \in Frames
    BY <1>2, <1>3 DEF Frames
  <2> QED BY <1>1, <1>2, <1>3, <2>1 DEF PoolTypes
<1>5. /\ cache'[p].pins = cache[p].pins + 1 /\ cache'[p].data = cache[p].data
      /\ cache'[p].dirty = cache[p].dirty
  BY <1>2, <1>3, <1>4 DEF Frames
<1>6. PoolTypes'
  <2>1. /\ Unlisted(p) \in Seq(Page) /\ Distinct(Unlisted(p))
        /\ Elements(Unlisted(p)) = Elements(lru) \ {p}
    BY <1>1, Unlinked DEF PoolTypes
  <2>2. Elements(lru) = {q \in DOMAIN cache : cache[q].pins = 0}
    BY <1>1 DEF PoolTypes
  <2>3. lru' \in Seq(Page) /\ Distinct(lru')
    BY <1>1, <1>2, <2>1 DEF PoolTypes
  <2>4. Elements(lru') = Elements(lru) \ {p}
    BY <1>2, <2>1, <2>2
  <2>5. cache'[p].pins # 0
    BY <1>2, <1>3, <1>5
  <2>6. Elements(lru') = {q \in DOMAIN cache' : cache'[q].pins = 0}
    BY <1>2, <1>4, <2>2, <2>4, <2>5
  <2> QED BY <1>1, <1>4, <2>3, <2>6 DEF PoolTypes
<1>7. held' \in [Page -> Nat] /\ \A q \in Page : held'[q] = IF q = p THEN held[p] + 1 ELSE held[q]
  BY <1>1, <1>2 DEF OtherTypes
<1>8. PoolInv'
  <2>1. \A q \in Page : held'[q] = IF q \in DOMAIN cache' THEN cache'[q].pins ELSE 0
    BY <1>2, <1>4, <1>5, <1>7 DEF SInv, PoolInv
  <2> QED BY <1>2, <1>4, <2>1 DEF SInv, PoolInv, disk
<1>9. DiskInv'
  <2>1. \A q \in DOMAIN cache : cache'[q].data = cache[q].data /\ cache'[q].dirty = cache[q].dirty
    BY <1>4, <1>5
  <2> QED BY <1>2, <1>4, <2>1 DEF SInv, DiskInv, disk, history
<1>10. LogTypes' /\ PartsInv'
  BY <1>1, <1>2, LogStays DEF disk, history, OtherTypes
<1>11. OtherTypes'
  BY <1>1, <1>2, <1>7 DEF OtherTypes, disk, txn, history
<1>12. PhaseInv'
  <2>1. todo' \in Seq(PlainSteps) /\ phase' = "open"
    BY <1>2 DEF Idle
  <2> QED BY <2>1, PlainPhase
<1> QED BY <1>6, <1>8, <1>9, <1>10, <1>11, <1>12, TypesJoined DEF SInv

LEMMA FetchMissSafe ==
  ASSUME SInv, NEW p \in Page, FetchMiss(p)
  PROVE  SInv'
<1>1. PoolTypes /\ LogTypes /\ OtherTypes
  BY TypesParted DEF SInv
<1>2. /\ phase = "open" /\ todo = <<>> /\ p \notin DOMAIN cache /\ p < next_page_id
      /\ held' = [held EXCEPT ![p] = @ + 1]
      /\ UNCHANGED <<log, meta, phase, next_page_id, buffer, txn, todo, failed, redo, writes,
                     history>>
  BY DEF FetchMiss, Idle
<1>3. PICK v \in Page \cup {NoPage} :
        /\ Victim(v) /\ WriteBack(v)
        /\ Load(p, Frame(file[p], 1, FALSE), v)
        /\ lru' = Unlisted(v)
  BY DEF FetchMiss
<1>4. file[p] \in Nat /\ file[p] <= writes /\ writes \in Nat
  BY <1>1 DEF SInv, DiskInv, OtherTypes, Version
<1> DEFINE frame == Frame(file[p], 1, FALSE)
<1>5. frame \in Frames /\ frame.data = file[p] /\ frame.pins = 1 /\ frame.dirty = FALSE
  BY <1>4 DEF Frame, Frames, Version
<1> HIDE DEF frame
<1>6. held[p] = 0
  BY <1>2 DEF SInv, PoolInv
<1>7. held' = [held EXCEPT ![p] = frame.pins]
  BY <1>2, <1>5, <1>6
<1>8. phase # "down" /\ UNCHANGED <<phase, settled>> /\ writes' = writes
  BY <1>2 DEF history
<1>9. /\ Victim(v) /\ WriteBack(v) /\ Load(p, frame, v)
      /\ lru' = IF frame.pins = 0 THEN <<p>> \o Unlisted(v) ELSE Unlisted(v)
  <2>1. Load(p, frame, v)
    BY <1>3 DEF frame
  <2> QED BY <1>3, <1>5, <2>1
<1>10. /\ file[p] <= frame.data /\ frame.data <= writes' /\ writes' \in Nat
       /\ writes <= writes' /\ (~frame.dirty => frame.data = file[p])
       /\ next_page_id <= next_page_id' /\ p < next_page_id'
       /\ next_page_id' \in 0 .. MaxPages
  <2>1. next_page_id' = next_page_id /\ next_page_id \in 0 .. MaxPages
    BY <1>1, <1>2 DEF OtherTypes
  <2>2. file[p] <= frame.data /\ (~frame.dirty => frame.data = file[p])
    BY <1>4, <1>5
  <2> QED BY <1>2, <1>4, <1>5, <1>8, <2>1, <2>2
<1>11. /\ PoolTypes' /\ PoolInv' /\ DiskInv' /\ file' \in [Page -> Version]
       /\ held' \in [Page -> Nat]
  BY <1>2, <1>5, <1>7, <1>8, <1>9, <1>10, Brought
<1>12. LogTypes' /\ PartsInv'
  BY <1>1, <1>2, LogStays DEF history, OtherTypes
<1>13. OtherTypes'
  BY <1>1, <1>2, <1>11 DEF OtherTypes, txn, history
<1>14. PhaseInv'
  <2>1. todo' \in Seq(PlainSteps) /\ phase' = "open"
    BY <1>2
  <2> QED BY <2>1, PlainPhase
<1> QED BY <1>11, <1>12, <1>13, <1>14, TypesJoined DEF SInv

LEMMA ReleaseSafe ==
  ASSUME SInv, NEW p \in Page, Release(p)
  PROVE  SInv'
<1>1. PoolTypes /\ LogTypes /\ OtherTypes
  BY TypesParted DEF SInv
<1>2. /\ phase = "open" /\ todo = <<>> /\ held[p] > 0 /\ Unpin(p, cache[p].data, FALSE)
      /\ held' = [held EXCEPT ![p] = @ - 1]
      /\ UNCHANGED <<disk, phase, next_page_id, buffer, txn, todo, failed, redo, writes, history>>
  BY DEF Release, Idle
<1> DEFINE d == cache[p].data
<1>3. d \in Version /\ d <= writes /\ writes \in Nat
  <2>1. p \in DOMAIN cache
    BY <1>2 DEF SInv, PoolInv
  <2> QED BY <1>1, <2>1 DEF SInv, DiskInv, PoolTypes, OtherTypes, Frames
<1>4. /\ UNCHANGED <<phase, settled, file, next_page_id>> /\ writes' = writes
      /\ d <= writes' /\ writes' \in Nat /\ writes <= writes' /\ d <= d
  BY <1>2, <1>3 DEF history, disk, Version
<1>5. PoolTypes' /\ PoolInv' /\ DiskInv' /\ held' \in [Page -> Nat]
  <2>1. Unpin(p, d, FALSE) /\ cache[p].data <= d /\ (FALSE \/ d = cache[p].data)
    BY <1>2, <1>4
  <2> HIDE DEF d
  <2>2. FALSE \in BOOLEAN
    OBVIOUS
  <2> QED BY <1>2, <1>3, <1>4, <2>1, <2>2, Unbrought
<1>6. LogTypes' /\ PartsInv'
  BY <1>1, <1>2, LogStays DEF disk, history, OtherTypes
<1>7. OtherTypes'
  BY <1>1, <1>2, <1>5 DEF OtherTypes, disk, txn, history
<1>8. PhaseInv'
  <2>1. todo' \in Seq(PlainSteps) /\ phase' = "open"
    BY <1>2
  <2> QED BY <2>1, PlainPhase
<1> QED BY <1>5, <1>6, <1>7, <1>8, TypesJoined DEF SInv

(* A page that is allocated is pinned and not on the list.                 *)
LEMMA AllocSafe ==
  ASSUME SInv, NEW logged \in BOOLEAN, Alloc(logged)
  PROVE  SInv'
<1>1. PoolTypes /\ LogTypes /\ OtherTypes
  BY TypesParted DEF SInv
<1>2. /\ phase = "open" /\ next_page_id < MaxPages /\ (logged => current_txn # 0)
      /\ next_page_id' = next_page_id + 1 /\ writes' = writes + 1
      /\ held' = [held EXCEPT ![next_page_id] = 1]
      /\ todo' = IF logged THEN <<"image">> ELSE <<>>
      /\ UNCHANGED <<log, meta, phase, buffer, txn, failed, redo, history>>
  BY DEF Alloc, Idle
<1>3. PICK v \in Page \cup {NoPage} :
        /\ Victim(v) /\ WriteBack(v)
        /\ Load(next_page_id, Frame(writes', 1, TRUE), v)
        /\ lru' = Unlisted(v)
  BY DEF Alloc
<1>4. writes \in Nat /\ writes' \in Nat /\ writes <= writes' /\ writes' > 0
  BY <1>1, <1>2 DEF OtherTypes
<1> DEFINE frame == Frame(writes', 1, TRUE)
<1>5. frame.data = writes' /\ frame.pins = 1 /\ frame.dirty = TRUE
  BY DEF Frame
<1>7. frame \in Frames
  BY <1>4 DEF Frame, Frames, Version
<1> HIDE DEF frame
<1>6. /\ next_page_id \in Page /\ next_page_id \notin DOMAIN cache
      /\ file[next_page_id] = 0 /\ next_page_id + 1 \in 0 .. MaxPages
  BY <1>2, NextPageNew
<1>8. phase # "down" /\ UNCHANGED <<phase, settled>>
  BY <1>2 DEF history
<1>9. /\ Victim(v) /\ WriteBack(v) /\ Load(next_page_id, frame, v)
      /\ lru' = IF frame.pins = 0 THEN <<next_page_id>> \o Unlisted(v) ELSE Unlisted(v)
      /\ held' = [held EXCEPT ![next_page_id] = frame.pins]
  <2>1. Load(next_page_id, frame, v)
    BY <1>3 DEF frame
  <2> QED BY <1>2, <1>3, <1>5, <2>1
<1>10. /\ file[next_page_id] <= frame.data /\ frame.data <= writes' /\ writes' \in Nat
       /\ writes <= writes' /\ (~frame.dirty => frame.data = file[next_page_id])
       /\ next_page_id <= next_page_id' /\ next_page_id < next_page_id'
       /\ next_page_id' \in 0 .. MaxPages
  <2>1. next_page_id \in 0 .. MaxPages
    BY <1>1 DEF OtherTypes
  <2>2. ~frame.dirty => frame.data = file[next_page_id]
    BY <1>5
  <2> QED BY <1>2, <1>4, <1>5, <1>6, <2>1, <2>2
<1>11. /\ PoolTypes' /\ PoolInv' /\ DiskInv' /\ file' \in [Page -> Version]
       /\ held' \in [Page -> Nat]
       /\ DOMAIN cache' = (DOMAIN cache \ {v}) \cup {next_page_id} /\ cache'[next_page_id] = frame
  BY <1>7, <1>6, <1>8, <1>9, <1>10, Brought
<1>12. LogTypes' /\ PartsInv'
  BY <1>1, <1>2, <1>4, LogStays DEF history
<1>13. OtherTypes'
  <2>1. todo' \in Seq(Steps)
    <3>1. <<"image">> \in Seq(Steps) /\ <<>> \in Seq(Steps)
      BY DEF Steps
    <3> QED BY <1>2, <3>1
  <2> QED BY <1>1, <1>2, <1>4, <1>10, <1>11, <2>1 DEF OtherTypes, txn, history
<1>14. PhaseInv'
  <2>1. CASE logged
    <3>1. todo' = <<"image">> /\ phase' = "open" /\ current_txn' # 0 /\ next_page_id' - 1 = next_page_id
      BY <1>1, <1>2, <2>1 DEF txn, OtherTypes
    <3>2. next_page_id' - 1 \in DOMAIN cache' /\ cache'[next_page_id' - 1].data = writes'
      BY <1>5, <1>11, <3>1
    <3> QED BY <1>4, <3>1, <3>2 DEF PhaseInv
  <2>2. CASE ~logged
    <3>1. todo' \in Seq(PlainSteps) /\ phase' = "open"
      BY <1>2, <2>2
    <3> QED BY <3>1, PlainPhase
  <2> QED BY <2>1, <2>2
<1> QED BY <1>11, <1>12, <1>13, <1>14, TypesJoined DEF SInv

LEMMA AllocFailsSafe ==
  ASSUME SInv, AllocFails
  PROVE  SInv'
<1>1. PoolTypes /\ LogTypes /\ OtherTypes
  BY TypesParted DEF SInv
<1>2. /\ phase = "open" /\ todo = <<>> /\ next_page_id < MaxPages
      /\ next_page_id' = next_page_id + 1
      /\ UNCHANGED <<disk, phase, cache, lru, buffer, txn, todo, failed, redo, held, writes, history>>
  BY DEF AllocFails, Idle
<1>3. next_page_id \in 0 .. MaxPages /\ next_page_id' \in 0 .. MaxPages
  BY <1>1, <1>2, SizesAssumption DEF OtherTypes, SizesAssumption
<1>4. PoolTypes'
  BY <1>1, <1>2 DEF PoolTypes
<1>5. PoolInv'
  BY <1>1, <1>2, <1>3 DEF SInv, PoolInv, disk, PoolTypes, Page
<1>6. DiskInv'
  BY <1>2 DEF SInv, DiskInv, disk, history
<1>7. LogTypes' /\ PartsInv'
  BY <1>1, <1>2, LogStays DEF disk, history, OtherTypes
<1>8. OtherTypes'
  BY <1>1, <1>2, <1>3 DEF OtherTypes, disk, txn, history
<1>9. PhaseInv'
  <2>1. todo' \in Seq(PlainSteps) /\ phase' = "open"
    BY <1>2
  <2> QED BY <2>1, PlainPhase
<1> QED BY <1>4, <1>5, <1>6, <1>7, <1>8, <1>9, TypesJoined DEF SInv

(* The records of a transaction.                                           *)
LEMMA RecordTypes ==
  ASSUME TypeOK
  PROVE  /\ Txn \in Txns
         /\ \A kind \in {"begin", "commit", "abort", "checkpoint"}, t \in Txns :
              /\ Record(kind, t) \in Parts /\ <<Record(kind, t)>> \in Seq(Parts)
              /\ Len(<<Record(kind, t)>>) = 1
              /\ Elements(<<Record(kind, t)>>) = {Record(kind, t)}
              /\ Record(kind, t).kind = kind /\ Record(kind, t).txn = t
         /\ 1 <= BufferParts /\ 2 <= BufferParts
<1>1. Txn \in Txns
  BY DEF TypeOK, Txn, Txns
<1>2. ASSUME NEW kind \in {"begin", "commit", "abort", "checkpoint"}, NEW t \in Txns
      PROVE  /\ Record(kind, t) \in Parts /\ <<Record(kind, t)>> \in Seq(Parts)
             /\ Len(<<Record(kind, t)>>) = 1
             /\ Elements(<<Record(kind, t)>>) = {Record(kind, t)}
             /\ Record(kind, t).kind = kind /\ Record(kind, t).txn = t
  <2>1. Record(kind, t) \in Parts /\ Record(kind, t).kind = kind /\ Record(kind, t).txn = t
    BY DEF Record, Parts, Version
  <2> DEFINE r == Record(kind, t)
  <2> HIDE DEF r
  <2>2. <<r>> \in Seq(Parts) /\ Len(<<r>>) = 1 /\ Elements(<<r>>) = {r}
    BY <2>1 DEF r, Elements
  <2> QED BY <2>1, <2>2 DEF r
<1>3. 1 <= BufferParts /\ 2 <= BufferParts
  BY SizesAssumption DEF SizesAssumption
<1> QED BY <1>1, <1>2, <1>3

LEMMA PageRecordTypes ==
  ASSUME TypeOK, NEW p \in Page, NEW n \in Nat
  PROVE  /\ PageRecord(p, n) \in Seq(Parts) /\ Len(PageRecord(p, n)) = 2
         /\ PageRecord(p, n)[1] = Record("page", Txn)
         /\ PageRecord(p, n) = <<PageRecord(p, n)[1], PageRecord(p, n)[2]>>
         /\ PageRecord(p, n)[1] \in Parts /\ PageRecord(p, n)[2] \in Parts
         /\ PageRecord(p, n)[2].kind = "image" /\ PageRecord(p, n)[2].txn = Txn
         /\ PageRecord(p, n)[2].page = p /\ PageRecord(p, n)[2].data = n
         /\ \A r \in Elements(PageRecord(p, n)) :
              r.kind = "page" \/ (r.kind = "image" /\ r.data = n)
<1>1. Txn \in Txns
  BY RecordTypes
<1> DEFINE h == Record("page", Txn)
           m == [kind |-> "image", txn |-> Txn, page |-> p, data |-> n]
<1>2. h \in Parts /\ h.kind = "page"
  BY <1>1 DEF Record, Parts, Version
<1>3. m \in Parts /\ m.kind = "image" /\ m.txn = Txn /\ m.page = p /\ m.data = n
  BY <1>1 DEF Parts, Version
<1>4. PageRecord(p, n) = <<h, m>>
  BY DEF PageRecord
<1> HIDE DEF h, m
<1>5. /\ <<h, m>> \in Seq(Parts) /\ Len(<<h, m>>) = 2 /\ <<h, m>>[1] = h /\ <<h, m>>[2] = m
      /\ Elements(<<h, m>>) = {h, m}
  BY <1>2, <1>3 DEF Elements
<1> QED BY <1>2, <1>3, <1>4, <1>5 DEF h

(* The image of a page that has just got its bytes.                        *)
LEMMA PageLogged ==
  ASSUME SInv, NEW p \in Page, NEW n \in Nat, LogPage(p, n), n > 0, n <= writes',
         UNCHANGED ended, writes' \in Nat, writes <= writes'
  PROVE  LogTypes' /\ PartsInv' /\ logFailed' \in BOOLEAN /\ wrote' \subseteq Page \X Version
<1>1. TypeOK
  BY DEF SInv
<1>2. /\ PageRecord(p, n) \in Seq(Parts) /\ Len(PageRecord(p, n)) = 2
      /\ \A r \in Elements(PageRecord(p, n)) : r.kind = "page" \/ (r.kind = "image" /\ r.data = n)
  BY <1>1, PageRecordTypes
<1>3. \A r \in Elements(PageRecord(p, n)) : PartOk(r)'
  BY <1>2 DEF PartOk
<1>4. Len(PageRecord(p, n)) <= BufferParts
  BY <1>1, <1>2, RecordTypes
<1>5. AppendOk(PageRecord(p, n)) \/ AppendFails(PageRecord(p, n))
  BY DEF LogPage
<1>6. ended \subseteq ended'
  OBVIOUS
<1>7. LogTypes' /\ PartsInv' /\ logFailed' \in BOOLEAN
  BY <1>2, <1>3, <1>4, <1>5, <1>6, RecordAdded
<1>8. wrote' \subseteq Page \X Version
  BY <1>1 DEF LogPage, TypeOK, Version
<1> QED BY <1>7, <1>8

LEMMA AllocLogSafe ==
  ASSUME SInv, AllocLog
  PROVE  SInv'
<1>1. PoolTypes /\ LogTypes /\ OtherTypes
  BY TypesParted DEF SInv
<1>2. /\ todo = <<"image">> /\ LogPage(next_page_id - 1, cache[next_page_id - 1].data)
      /\ todo' = <<>>
      /\ UNCHANGED <<file, meta, phase, pool, next_txn_id, current_txn, failed, redo, held, writes,
                     budget, opens, settled, acked, ended>>
  BY DEF AllocLog
<1>3. /\ phase = "open" /\ next_page_id - 1 \in DOMAIN cache
      /\ cache[next_page_id - 1].data = writes /\ writes > 0
  BY <1>2 DEF SInv, PhaseInv
<1>4. next_page_id - 1 \in Page /\ writes \in Nat
  BY <1>1, <1>3 DEF PoolTypes, OtherTypes
<1>5. LogTypes' /\ PartsInv' /\ logFailed' \in BOOLEAN /\ wrote' \subseteq Page \X Version
  <2>1. LogPage(next_page_id - 1, writes) /\ UNCHANGED <<writes, ended>>
    BY <1>2, <1>3
  <2> QED BY <1>3, <1>4, <2>1, PageLogged
<1>6. PoolTypes' /\ PoolInv' /\ DiskInv'
  BY <1>2, PoolStays DEF pool
<1>7. todo' \in Seq(PlainSteps) /\ phase' = "open"
  BY <1>2, <1>3
<1>8. PhaseInv' /\ todo' \in Seq(Steps)
  BY <1>7, PlainPhase
<1>9. OtherTypes'
  BY <1>1, <1>2, <1>5, <1>8 DEF OtherTypes, pool
<1> QED BY <1>5, <1>6, <1>8, <1>9, TypesJoined DEF SInv

LEMMA UpdateSafe ==
  ASSUME SInv, NEW p \in Page, NEW logged \in BOOLEAN, Update(p, logged)
  PROVE  SInv'
<1>1. PoolTypes /\ LogTypes /\ OtherTypes
  BY TypesParted DEF SInv
<1>2. /\ phase = "open" /\ todo = <<>> /\ held[p] > 0 /\ writes' = writes + 1
      /\ Unpin(p, writes', TRUE) /\ held' = [held EXCEPT ![p] = @ - 1]
      /\ IF logged THEN LogPage(p, writes') ELSE UNCHANGED <<log, buffer, logFailed, wrote>>
      /\ UNCHANGED <<file, meta, phase, next_page_id, next_txn_id, current_txn, todo, failed, redo,
                     budget, opens, settled, acked, ended>>
  BY DEF Update, Idle
<1>3. writes \in Nat /\ writes' \in Nat /\ writes <= writes' /\ writes' > 0 /\ writes' <= writes'
  BY <1>1, <1>2 DEF OtherTypes
<1>4. PoolTypes' /\ PoolInv' /\ DiskInv' /\ held' \in [Page -> Nat]
  <2>1. p \in DOMAIN cache
    BY <1>2 DEF SInv, PoolInv
  <2>2. cache[p].data <= writes' /\ writes' \in Version
    BY <1>1, <1>3, <2>1 DEF SInv, DiskInv, PoolTypes, Frames, Version
  <2>3. TRUE \in BOOLEAN /\ (TRUE \/ writes' = cache[p].data)
    OBVIOUS
  <2>4. PICK d \in Version : d = writes'
    BY <2>2
  <2>5. UNCHANGED <<phase, settled, file, next_page_id>>
    BY <1>2
  <2>6. /\ Unpin(p, d, TRUE) /\ cache[p].data <= d /\ d <= writes' /\ (TRUE \/ d = cache[p].data)
        /\ held' = [held EXCEPT ![p] = @ - 1] /\ held[p] > 0
    BY <1>2, <1>3, <2>2, <2>4
  <2> HIDE <2>4
  <2> QED BY <1>3, <2>3, <2>5, <2>6, Unbrought
<1>5. LogTypes' /\ PartsInv' /\ logFailed' \in BOOLEAN /\ wrote' \subseteq Page \X Version
  <2>1. CASE logged
    <3>1. LogPage(p, writes') /\ UNCHANGED ended
      BY <1>2, <2>1
    <3> QED BY <1>3, <3>1, PageLogged
  <2>2. CASE ~logged
    <3>1. UNCHANGED <<log, buffer, logFailed, wrote>> /\ ended \subseteq ended'
      BY <1>2, <2>2
    <3>2. LogTypes' /\ PartsInv'
      BY <1>3, <3>1, LogStays
    <3> QED BY <1>1, <3>1, <3>2 DEF OtherTypes
  <2> QED BY <2>1, <2>2
<1>6. todo' \in Seq(PlainSteps) /\ phase' = "open"
  BY <1>2
<1>7. PhaseInv' /\ todo' \in Seq(Steps)
  BY <1>6, PlainPhase
<1>8. OtherTypes'
  BY <1>1, <1>2, <1>3, <1>4, <1>5, <1>7 DEF OtherTypes
<1> QED BY <1>4, <1>5, <1>7, <1>8, TypesJoined DEF SInv

-----------------------------------------------------------------------------
(* Transactions.                                                           *)

LEMMA BeginSafe ==
  ASSUME SInv, BeginTxn
  PROVE  SInv'
<1>1. PoolTypes /\ LogTypes /\ OtherTypes
  BY TypesParted DEF SInv
<1> DEFINE t == <<next_txn_id, opens>>
           r == <<Record("begin", t)>>
<1>2. /\ phase = "open" /\ todo = <<>> /\ next_txn_id' = next_txn_id + 1
      /\ current_txn' = next_txn_id /\ wrote' = {}
      /\ AppendOk(r) \/ AppendFails(r)
      /\ UNCHANGED <<file, meta, phase, pool, todo, failed, redo, held, writes, budget, opens,
                     settled, acked, ended>>
  BY DEF BeginTxn, Idle
<1>3. r \in Seq(Parts) /\ Len(r) <= BufferParts /\ \A x \in Elements(r) : PartOk(x)'
  <2>1. t \in Txns
    BY <1>1 DEF OtherTypes, Txns
  <2> HIDE DEF t
  <2>2. /\ r \in Seq(Parts) /\ Len(r) = 1 /\ 1 <= BufferParts
        /\ \A x \in Elements(r) : x.kind = "begin"
    BY <2>1, RecordTypes DEF SInv
  <2> QED BY <2>2 DEF PartOk
<1> HIDE DEF r
<1>4. LogTypes' /\ PartsInv' /\ logFailed' \in BOOLEAN
  <2>1. ended \subseteq ended' /\ writes' \in Nat /\ writes <= writes'
    BY <1>1, <1>2 DEF OtherTypes
  <2> QED BY <1>2, <1>3, <2>1, RecordAdded
<1>5. PoolTypes' /\ PoolInv' /\ DiskInv'
  BY <1>2, PoolStays DEF pool
<1>6. todo' \in Seq(PlainSteps) /\ phase' = "open"
  BY <1>2
<1>7. PhaseInv' /\ todo' \in Seq(Steps)
  BY <1>6, PlainPhase
<1>8. OtherTypes'
  BY <1>1, <1>2, <1>4, <1>7 DEF OtherTypes, pool
<1> QED BY <1>4, <1>5, <1>7, <1>8, TypesJoined DEF SInv

(* The transaction's name and images, once its commit has returned.        *)
LEMMA AckTypes ==
  ASSUME TypeOK
  PROVE  [txn |-> Txn, images |-> wrote] \in [txn : Txns, images : SUBSET (Page \X Version)]
<1>1. Txn \in Txns
  BY RecordTypes
<1> QED BY <1>1 DEF TypeOK

LEMMA CommitSafe ==
  ASSUME SInv, CommitTxn
  PROVE  SInv'
<1>1. PoolTypes /\ LogTypes /\ OtherTypes
  BY TypesParted DEF SInv
<1> DEFINE r == <<Record("commit", Txn)>>
<1>2. /\ phase = "open" /\ current_txn # 0 /\ ended' = ended \cup {Txn}
      /\ \/ /\ AppendOk(r) /\ todo' = <<"commit">> /\ UNCHANGED <<current_txn, acked, wrote>>
         \/ /\ AppendFails(r) /\ current_txn' = 0 /\ wrote' = {} /\ todo' = <<>>
            /\ acked' = acked \cup {[txn |-> Txn, images |-> wrote]}
      /\ UNCHANGED <<file, meta, phase, pool, next_txn_id, failed, redo, held, writes, budget,
                     opens, settled>>
  BY DEF CommitTxn, Idle
<1>3. Txn \in Txns /\ [txn |-> Txn, images |-> wrote] \in [txn : Txns, images : SUBSET (Page \X Version)]
  BY RecordTypes, AckTypes DEF SInv
<1>4. r \in Seq(Parts) /\ Len(r) <= BufferParts /\ \A x \in Elements(r) : PartOk(x)'
  <2>2. /\ r \in Seq(Parts) /\ Len(r) = 1 /\ 1 <= BufferParts
        /\ \A x \in Elements(r) : x.kind = "commit" /\ x.txn = Txn
    BY <1>3, RecordTypes DEF SInv
  <2>3. Txn \in ended' /\ Txn[1] # 0
    BY <1>2 DEF Txn
  <2> QED BY <2>2, <2>3 DEF PartOk
<1> HIDE DEF r
<1>5. LogTypes' /\ PartsInv' /\ logFailed' \in BOOLEAN
  <2>1. ended \subseteq ended' /\ writes' \in Nat /\ writes <= writes'
    BY <1>1, <1>2 DEF OtherTypes
  <2> QED BY <1>2, <1>4, <2>1, RecordAdded
<1>6. PoolTypes' /\ PoolInv' /\ DiskInv'
  BY <1>2, PoolStays DEF pool
<1>7. todo' \in Seq(Steps) /\ PhaseInv'
  <2>1. CASE todo' = <<"commit">> /\ current_txn' = current_txn
    <3>1. todo' \in Seq(Steps) /\ todo' # <<"image">> /\ phase' = "open"
      BY <1>2, <2>1 DEF Steps
    <3> QED BY <1>2, <2>1, <3>1 DEF PhaseInv
  <2>2. CASE todo' = <<>>
    <3>1. todo' \in Seq(PlainSteps) /\ phase' = "open"
      BY <1>2, <2>2
    <3> QED BY <3>1, PlainPhase
  <2> QED BY <1>2, <2>1, <2>2
<1>8. ended' \subseteq Txns /\ acked' \subseteq [txn : Txns, images : SUBSET (Page \X Version)]
  BY <1>1, <1>2, <1>3 DEF OtherTypes
<1>9. OtherTypes'
  BY <1>1, <1>2, <1>5, <1>7, <1>8 DEF OtherTypes, pool
<1> QED BY <1>5, <1>6, <1>7, <1>9, TypesJoined DEF SInv

LEMMA CommitFlushSafe ==
  ASSUME SInv, CommitFlush
  PROVE  SInv'
<1>1. PoolTypes /\ LogTypes /\ OtherTypes
  BY TypesParted DEF SInv
<1>2. /\ todo = <<"commit">> /\ WriteLog /\ current_txn' = 0 /\ wrote' = {} /\ todo' = <<>>
      /\ acked' = acked \cup {[txn |-> Txn, images |-> wrote]}
      /\ UNCHANGED <<file, meta, phase, pool, next_txn_id, failed, redo, held, writes, budget,
                     opens, settled, ended>>
  BY DEF CommitFlush
<1>3. phase = "open"
  BY <1>2 DEF SInv, PhaseInv
<1>4. LogTypes' /\ PartsInv' /\ logFailed' \in BOOLEAN
  BY <1>2, BufferWritten
<1>5. PoolTypes' /\ PoolInv' /\ DiskInv'
  BY <1>2, PoolStays DEF pool
<1>6. todo' \in Seq(PlainSteps) /\ phase' = "open"
  BY <1>2, <1>3
<1>7. PhaseInv' /\ todo' \in Seq(Steps)
  BY <1>6, PlainPhase
<1>8. acked' \subseteq [txn : Txns, images : SUBSET (Page \X Version)]
  BY <1>1, <1>2, AckTypes DEF OtherTypes, SInv
<1>9. OtherTypes'
  BY <1>1, <1>2, <1>4, <1>7, <1>8 DEF OtherTypes, pool
<1> QED BY <1>4, <1>5, <1>7, <1>9, TypesJoined DEF SInv

LEMMA AbortSafe ==
  ASSUME SInv, AbortTxn
  PROVE  SInv'
<1>1. PoolTypes /\ LogTypes /\ OtherTypes
  BY TypesParted DEF SInv
<1> DEFINE r == <<Record("abort", Txn)>>
<1>2. /\ phase = "open" /\ todo = <<>> /\ current_txn' = 0 /\ wrote' = {}
      /\ AppendOk(r) \/ AppendFails(r)
      /\ UNCHANGED <<file, meta, phase, pool, next_txn_id, todo, failed, redo, held, writes, budget,
                     opens, settled, acked, ended>>
  BY DEF AbortTxn, Idle
<1>3. r \in Seq(Parts) /\ Len(r) <= BufferParts /\ \A x \in Elements(r) : PartOk(x)'
  <2>1. Txn \in Txns
    BY RecordTypes DEF SInv
  <2>2. /\ r \in Seq(Parts) /\ Len(r) = 1 /\ 1 <= BufferParts
        /\ \A x \in Elements(r) : x.kind = "abort"
    BY <2>1, RecordTypes DEF SInv
  <2> QED BY <2>2 DEF PartOk
<1> HIDE DEF r
<1>4. LogTypes' /\ PartsInv' /\ logFailed' \in BOOLEAN
  <2>1. ended \subseteq ended' /\ writes' \in Nat /\ writes <= writes'
    BY <1>1, <1>2 DEF OtherTypes
  <2> QED BY <1>2, <1>3, <2>1, RecordAdded
<1>5. PoolTypes' /\ PoolInv' /\ DiskInv'
  BY <1>2, PoolStays DEF pool
<1>6. todo' \in Seq(PlainSteps) /\ phase' = "open"
  BY <1>2
<1>7. PhaseInv' /\ todo' \in Seq(Steps)
  BY <1>6, PlainPhase
<1>8. OtherTypes'
  BY <1>1, <1>2, <1>4, <1>7 DEF OtherTypes, pool
<1> QED BY <1>4, <1>5, <1>7, <1>8, TypesJoined DEF SInv

-----------------------------------------------------------------------------
(* Flushes, checkpoints and the end.                                       *)

LEMMA CallSafe ==
  ASSUME SInv, Flush \/ Checkpoint \/ Close
  PROVE  SInv'
<1>1. PoolTypes /\ LogTypes /\ OtherTypes
  BY TypesParted DEF SInv
<1>2. /\ phase = "open"
      /\ todo' \in {FlushSteps, CheckpointSteps, CloseSteps}
      /\ UNCHANGED <<disk, phase, pool, buffer, txn, failed, redo, held, writes, history>>
  BY DEF Flush, Checkpoint, Close, Call, Idle
<1>3. todo' \in Seq(PlainSteps) /\ phase' = "open"
  <2>1. /\ "log" \in PlainSteps /\ "pages" \in PlainSteps /\ "record" \in PlainSteps
        /\ "meta" \in PlainSteps /\ "close" \in PlainSteps
    BY DEF PlainSteps, Steps
  <2>2. /\ <<"log", "pages">> \in Seq(PlainSteps) /\ <<"record", "log", "meta">> \in Seq(PlainSteps)
        /\ <<"log", "pages", "meta", "close">> \in Seq(PlainSteps)
    BY <2>1
  <2>3. FlushSteps \in Seq(PlainSteps) /\ CheckpointSteps \in Seq(PlainSteps)
    BY <2>2, ElementsOfConcat DEF FlushSteps, CheckpointSteps
  <2>4. CloseSteps \in Seq(PlainSteps)
    BY <2>2, <2>3, ElementsOfConcat DEF CloseSteps
  <2> QED BY <1>2, <2>3, <2>4
<1>4. PhaseInv' /\ todo' \in Seq(Steps)
  BY <1>3, PlainPhase
<1>5. PoolTypes' /\ PoolInv' /\ DiskInv'
  BY <1>2, PoolStays DEF pool, disk, history
<1>6. LogTypes' /\ PartsInv'
  BY <1>1, <1>2, LogStays DEF disk, history, OtherTypes
<1>7. OtherTypes'
  BY <1>1, <1>2, <1>4 DEF OtherTypes, disk, pool, txn, history
<1> QED BY <1>4, <1>5, <1>6, <1>7, TypesJoined DEF SInv

LEMMA FlushLogSafe ==
  ASSUME SInv, FlushLog
  PROVE  SInv'
<1>1. PoolTypes /\ LogTypes /\ OtherTypes
  BY TypesParted DEF SInv
<1>2. /\ AtStep("log") /\ WriteLog /\ todo' = Tail(todo)
      /\ UNCHANGED <<file, meta, phase, pool, txn, failed, redo, held, writes, budget, opens,
                     settled, acked, ended>>
  BY DEF FlushLog
<1>3. todo' \in Seq(PlainSteps) /\ phase' = "open"
  <2>1. "log" \in PlainSteps
    BY DEF PlainSteps, Steps
  <2> QED BY <1>2, <2>1, StepTaken
<1>4. PhaseInv' /\ todo' \in Seq(Steps)
  BY <1>3, PlainPhase
<1>5. LogTypes' /\ PartsInv' /\ logFailed' \in BOOLEAN
  BY <1>2, BufferWritten
<1>6. PoolTypes' /\ PoolInv' /\ DiskInv'
  BY <1>2, PoolStays DEF pool
<1>7. OtherTypes'
  BY <1>1, <1>2, <1>4, <1>5 DEF OtherTypes, pool, txn
<1> QED BY <1>4, <1>5, <1>6, <1>7, TypesJoined DEF SInv

LEMMA FlushPageSafe ==
  ASSUME SInv, NEW p \in Page, FlushPage(p)
  PROVE  SInv'
<1>1. PoolTypes /\ LogTypes /\ OtherTypes
  BY TypesParted DEF SInv
<1>2. /\ AtStep("pages") /\ p \in DOMAIN cache
      /\ failed' \subseteq failed \cup {p}
      /\ \/ /\ file' = [file EXCEPT ![p] = cache[p].data]
            /\ cache' = [cache EXCEPT ![p].dirty = FALSE]
         \/ file' = file /\ cache' = cache
      /\ UNCHANGED <<log, meta, phase, lru, next_page_id, buffer, txn, todo, redo, held, writes,
                     history>>
  BY DEF FlushPage, Dirty
<1>3. todo' \in Seq(PlainSteps) /\ phase' = "open"
  <2>1. "pages" \in PlainSteps
    BY DEF PlainSteps, Steps
  <2> QED BY <1>2, <2>1, StepTaken
<1>4. PhaseInv' /\ todo' \in Seq(Steps)
  BY <1>3, PlainPhase
<1>5. \A q \in DOMAIN cache : /\ cache[q] \in Frames /\ cache[q].pins \in Nat /\ q \in Page
                              /\ cache[q].data \in Nat /\ cache[q].dirty \in BOOLEAN
  BY <1>1 DEF PoolTypes, Frames, Version
<1>6. CASE file' = file /\ cache' = cache
  <2>1. PoolTypes' /\ PoolInv' /\ DiskInv'
    BY <1>2, <1>3, <1>6, PoolStays DEF history
  <2>2. LogTypes' /\ PartsInv'
    BY <1>1, <1>2, LogStays DEF history, OtherTypes
  <2>3. OtherTypes'
    BY <1>1, <1>2, <1>4, <1>6 DEF OtherTypes, txn, history
  <2> QED BY <1>4, <2>1, <2>2, <2>3, TypesJoined DEF SInv
<1>7. CASE file' = [file EXCEPT ![p] = cache[p].data] /\ cache' = [cache EXCEPT ![p].dirty = FALSE]
  <2>1. /\ DOMAIN cache' = DOMAIN cache
        /\ cache'[p] = [cache[p] EXCEPT !.dirty = FALSE]
        /\ \A q \in DOMAIN cache \ {p} : cache'[q] = cache[q]
        /\ cache' \in [DOMAIN cache' -> Frames]
    <3>1. [cache[p] EXCEPT !.dirty = FALSE] \in Frames
      BY <1>2, <1>5 DEF Frames
    <3> QED BY <1>1, <1>2, <1>7, <3>1 DEF PoolTypes
  <2>2. /\ cache'[p].pins = cache[p].pins /\ cache'[p].data = cache[p].data
    BY <1>2, <1>5, <2>1 DEF Frames
  <2>3. \A q \in DOMAIN cache : cache'[q].pins = cache[q].pins /\ cache'[q].data = cache[q].data
    BY <2>1, <2>2
  <2>4. file' \in [Page -> Version] /\ \A q \in Page : file'[q] = IF q = p THEN cache[p].data ELSE file[q]
    BY <1>1, <1>2, <1>5, <1>7 DEF OtherTypes, Version
  <2>5. PoolTypes'
    BY <1>1, <1>2, <2>1, <2>3 DEF PoolTypes
  <2>6. PoolInv'
    <3>1. \A q \in Page : held'[q] = IF q \in DOMAIN cache' THEN cache'[q].pins ELSE 0
      BY <1>2, <2>1, <2>3 DEF SInv, PoolInv
    <3>2. \A q \in Page : file'[q] # 0 => q < next_page_id'
      BY <1>2, <1>3, <2>4 DEF SInv, PoolInv
    <3> QED BY <1>2, <2>1, <3>1, <3>2 DEF SInv, PoolInv
  <2>7. DiskInv'
    <3>1. \A q \in Page : settled[q] <= file[q] /\ file[q] <= writes
      BY DEF SInv, DiskInv
    <3>2. \A q \in DOMAIN cache : /\ file[q] <= cache[q].data /\ cache[q].data <= writes
                                  /\ ~cache[q].dirty => file[q] = cache[q].data
      BY DEF SInv, DiskInv
    <3>3. settled' = settled /\ writes' = writes
      BY <1>2 DEF history
    <3>4. file \in [Page -> Nat] /\ settled \in [Page -> Nat] /\ writes \in Nat
      BY <1>1 DEF OtherTypes, Version
    <3>5. \A q \in Page : settled'[q] <= file'[q] /\ file'[q] <= writes'
      BY <1>2, <1>5, <2>4, <3>1, <3>2, <3>3, <3>4
    <3>6. ASSUME NEW q \in DOMAIN cache'
          PROVE  /\ file'[q] <= cache'[q].data /\ cache'[q].data <= writes'
                 /\ ~cache'[q].dirty => file'[q] = cache'[q].data
      <4>1. q \in DOMAIN cache /\ q \in Page /\ cache'[q].data = cache[q].data
        BY <1>5, <2>1, <2>3
      <4>2. CASE q = p
        BY <1>5, <2>4, <3>2, <3>3, <4>1, <4>2
      <4>3. CASE q # p
        BY <2>1, <2>4, <3>2, <3>3, <4>1, <4>3
      <4> QED BY <4>2, <4>3
    <3> QED BY <3>5, <3>6 DEF DiskInv
  <2>8. LogTypes' /\ PartsInv'
    BY <1>1, <1>2, LogStays DEF history, OtherTypes
  <2>9. OtherTypes'
    BY <1>1, <1>2, <1>4, <2>4 DEF OtherTypes, txn, history
  <2> QED BY <1>4, <2>5, <2>6, <2>7, <2>8, <2>9, TypesJoined DEF SInv
<1> QED BY <1>2, <1>6, <1>7

(* What a flush of all pages settles is in the file.                       *)
LEMMA CleanContent ==
  ASSUME SInv
  PROVE  /\ Content \in [Page -> Version]
         /\ \A p \in Page : file[p] <= Content[p] /\ Content[p] <= writes
         /\ \A p \in Page \ Dirty : Content[p] = file[p]
<1>1. PoolTypes /\ OtherTypes
  BY TypesParted DEF SInv
<1>2. \A p \in DOMAIN cache : cache[p].data \in Version /\ cache[p].dirty \in BOOLEAN
  BY <1>1 DEF PoolTypes, Frames
<1>3. Content \in [Page -> Version]
  BY <1>1, <1>2 DEF Content, OtherTypes
<1>4. \A p \in Page : Content[p] = IF p \in DOMAIN cache THEN cache[p].data ELSE file[p]
  BY DEF Content
<1>5. \A p \in Page : file[p] \in Nat /\ file[p] <= writes
  BY <1>1 DEF SInv, DiskInv, OtherTypes, Version
<1>6. \A p \in DOMAIN cache : /\ file[p] <= cache[p].data /\ cache[p].data <= writes
                              /\ p \notin Dirty => file[p] = cache[p].data
  BY DEF SInv, DiskInv, Dirty
<1> QED BY <1>3, <1>4, <1>5, <1>6

LEMMA FlushDoneSafe ==
  ASSUME SInv, FlushDone
  PROVE  SInv'
<1>1. PoolTypes /\ LogTypes /\ OtherTypes
  BY TypesParted DEF SInv
<1>2. /\ AtStep("pages") /\ Dirty \subseteq failed
      /\ settled' = IF failed = {} THEN Content ELSE settled
      /\ todo' \in {SubSeq(todo, 5, Len(todo)), Tail(todo)}
      /\ failed' = {}
      /\ UNCHANGED <<disk, phase, pool, buffer, txn, redo, held, writes, budget, opens, acked,
                     ended, logFailed>>
  BY DEF FlushDone
<1>3. todo' \in Seq(PlainSteps) /\ phase' = "open" /\ phase = "open"
  <2>1. "pages" \in PlainSteps
    BY DEF PlainSteps, Steps
  <2> QED BY <1>2, <2>1, StepTaken
<1>4. PhaseInv' /\ todo' \in Seq(Steps)
  BY <1>3, PlainPhase
<1>5. settled' \in [Page -> Version] /\ \A p \in Page : settled'[p] <= file[p]
  <2>1. CASE failed = {}
    <3>1. Dirty = {} /\ settled' = Content
      BY <1>2, <2>1
    <3>2. \A p \in Page : file[p] <= file[p]
      BY <1>1 DEF OtherTypes, Version
    <3> QED BY <3>1, <3>2, CleanContent
  <2>2. CASE failed # {}
    BY <1>1, <1>2, <2>2 DEF OtherTypes, SInv, DiskInv
  <2> QED BY <2>1, <2>2
<1>6. PoolTypes' /\ PoolInv'
  BY <1>1, <1>2 DEF SInv, PoolTypes, PoolInv, pool, disk
<1>7. DiskInv'
  BY <1>2, <1>5 DEF SInv, DiskInv, pool, disk
<1>8. LogTypes' /\ PartsInv'
  BY <1>1, <1>2, LogStays DEF disk, OtherTypes
<1>9. OtherTypes'
  BY <1>1, <1>2, <1>4, <1>5 DEF OtherTypes, disk, pool, txn
<1> QED BY <1>4, <1>6, <1>7, <1>8, <1>9, TypesJoined DEF SInv

LEMMA CheckpointRecordSafe ==
  ASSUME SInv, CheckpointRecord
  PROVE  SInv'
<1>1. PoolTypes /\ LogTypes /\ OtherTypes
  BY TypesParted DEF SInv
<1> DEFINE t == <<0, opens>>
           r == <<Record("checkpoint", t)>>
<1>2. /\ AtStep("record")
      /\ AppendOk(r) \/ AppendFails(r)
      /\ todo' \in {Tail(todo), SubSeq(todo, 3, Len(todo))}
      /\ UNCHANGED <<file, meta, phase, pool, txn, failed, redo, held, writes, budget, opens,
                     settled, acked, ended>>
  BY DEF CheckpointRecord
<1>3. todo' \in Seq(PlainSteps) /\ phase' = "open"
  <2>1. "record" \in PlainSteps
    BY DEF PlainSteps, Steps
  <2> QED BY <1>2, <2>1, StepTaken
<1>4. PhaseInv' /\ todo' \in Seq(Steps)
  BY <1>3, PlainPhase
<1>5. r \in Seq(Parts) /\ Len(r) <= BufferParts /\ \A x \in Elements(r) : PartOk(x)'
  <2>1. t \in Txns
    BY <1>1 DEF OtherTypes, Txns
  <2> HIDE DEF t
  <2>2. /\ r \in Seq(Parts) /\ Len(r) = 1 /\ 1 <= BufferParts
        /\ \A x \in Elements(r) : x.kind = "checkpoint"
    BY <2>1, RecordTypes DEF SInv
  <2> QED BY <2>2 DEF PartOk
<1> HIDE DEF r
<1>6. LogTypes' /\ PartsInv' /\ logFailed' \in BOOLEAN
  <2>1. ended \subseteq ended' /\ writes' \in Nat /\ writes <= writes'
    BY <1>1, <1>2 DEF OtherTypes
  <2> QED BY <1>2, <1>5, <2>1, RecordAdded
<1>7. PoolTypes' /\ PoolInv' /\ DiskInv'
  BY <1>2, PoolStays DEF pool
<1>8. OtherTypes'
  BY <1>1, <1>2, <1>4, <1>6 DEF OtherTypes, pool, txn
<1> QED BY <1>4, <1>6, <1>7, <1>8, TypesJoined DEF SInv

LEMMA WriteMetaSafe ==
  ASSUME SInv, WriteMeta
  PROVE  SInv'
<1>1. PoolTypes /\ LogTypes /\ OtherTypes
  BY TypesParted DEF SInv
<1>2. /\ AtStep("meta") /\ meta' = next_txn_id /\ todo' = Tail(todo)
      /\ UNCHANGED <<file, log, phase, pool, buffer, txn, failed, redo, held, writes, history>>
  BY DEF WriteMeta
<1>3. todo' \in Seq(PlainSteps) /\ phase' = "open"
  <2>1. "meta" \in PlainSteps
    BY DEF PlainSteps, Steps
  <2> QED BY <1>2, <2>1, StepTaken
<1>4. PhaseInv' /\ todo' \in Seq(Steps)
  BY <1>3, PlainPhase
<1>5. PoolTypes' /\ PoolInv' /\ DiskInv'
  BY <1>2, PoolStays DEF pool, history
<1>6. LogTypes' /\ PartsInv'
  BY <1>1, <1>2, LogStays DEF history, OtherTypes
<1>7. OtherTypes'
  BY <1>1, <1>2, <1>4 DEF OtherTypes, pool, txn, history
<1> QED BY <1>4, <1>5, <1>6, <1>7, TypesJoined DEF SInv

-----------------------------------------------------------------------------
(* The invariant without the log, and what follows from it.                *)

LEMMA InitSafe == Init => SInv
<1> SUFFICES ASSUME Init PROVE SInv
  OBVIOUS
<1>1. NumFrames \in Nat /\ BufferParts \in Nat /\ MaxPages \in Nat
  BY SizesAssumption DEF SizesAssumption
<1>2. PoolTypes
  <2>1. Cardinality({}) = 0
    BY FS_EmptySet
  <2> QED BY <1>1, <2>1 DEF Init, PoolTypes, Distinct, Elements, Frames
<1>3. LogTypes
  BY <1>1 DEF Init, LogTypes
<1>4. OtherTypes
  <2>1. /\ file \in [Page -> Version] /\ settled \in [Page -> Version] /\ held \in [Page -> Nat]
        /\ meta \in Nat \cup {-1} /\ next_page_id \in 0 .. MaxPages
    BY <1>1 DEF Init, Version
  <2>2. todo \in Seq(Steps) /\ failed \subseteq Page
    BY DEF Init
  <2>3. logFailed \in BOOLEAN
    BY DEF Init
  <2> QED BY <2>1, <2>2, <2>3 DEF Init, OtherTypes
<1>5. PoolInv /\ DiskInv /\ PhaseInv
  BY DEF Init, PoolInv, DiskInv, PhaseInv
<1>6. PartsInv
  BY DEF Init, PartsInv, Elements
<1> QED BY <1>2, <1>3, <1>4, <1>5, <1>6, TypesParted DEF SInv

LEMMA StepSafe ==
  ASSUME SInv, [Next]_vars
  PROVE  SInv'
<1>1. CASE OpenNew \/ Open
  BY <1>1, OpenSafe
<1>2. CASE RedoPage
  BY <1>2, RedoPageSafe
<1>3. CASE RedoEnd
  BY <1>3, RedoEndSafe
<1>4. CASE Crash
  BY <1>4, CrashSafe
<1>5. ASSUME NEW p \in Page, FetchHit(p) \/ FetchMiss(p) \/ Release(p)
      PROVE  SInv'
  BY <1>5, FetchHitSafe, FetchMissSafe, ReleaseSafe
<1>6. ASSUME NEW logged \in BOOLEAN, Alloc(logged)
      PROVE  SInv'
  BY <1>6, AllocSafe
<1>7. ASSUME NEW logged \in BOOLEAN, NEW p \in Page, Update(p, logged)
      PROVE  SInv'
  BY <1>7, UpdateSafe
<1>8. CASE AllocFails
  BY <1>8, AllocFailsSafe
<1>9. CASE AllocLog
  BY <1>9, AllocLogSafe
<1>10. CASE BeginTxn
  BY <1>10, BeginSafe
<1>11. CASE CommitTxn
  BY <1>11, CommitSafe
<1>12. CASE CommitFlush
  BY <1>12, CommitFlushSafe
<1>13. CASE AbortTxn
  BY <1>13, AbortSafe
<1>14. CASE Flush \/ Checkpoint \/ Close
  BY <1>14, CallSafe
<1>15. CASE FlushLog
  BY <1>15, FlushLogSafe
<1>16. ASSUME NEW p \in Page, FlushPage(p)
       PROVE  SInv'
  BY <1>16, FlushPageSafe
<1>17. CASE FlushDone
  BY <1>17, FlushDoneSafe
<1>18. CASE CheckpointRecord
  BY <1>18, CheckpointRecordSafe
<1>19. CASE WriteMeta
  BY <1>19, WriteMetaSafe
<1>20. CASE Closed
  BY <1>20, ClosedSafe
<1>21. CASE UNCHANGED vars
  <2>1. PoolTypes' /\ PoolInv' /\ DiskInv'
    BY <1>21, PoolStays DEF vars, disk, pool, history
  <2>2. LogTypes' /\ PartsInv'
    BY <1>21, LogStays, TypesParted DEF vars, disk, history, OtherTypes, SInv
  <2>3. OtherTypes'
    BY <1>21, TypesParted DEF OtherTypes, SInv, vars, disk, pool, txn, history
  <2>4. PhaseInv'
    BY <1>21 DEF PhaseInv, SInv, vars, pool, txn
  <2> QED BY <2>1, <2>2, <2>3, <2>4, TypesJoined DEF SInv
<1> QED
  BY <1>1, <1>2, <1>3, <1>4, <1>5, <1>6, <1>7, <1>8, <1>9, <1>10, <1>11, <1>12, <1>13, <1>14,
     <1>15, <1>16, <1>17, <1>18, <1>19, <1>20, <1>21 DEF Next

(* Types, for any pool, buffer, table and budgets: the LRU list has every  *)
(* cached page that nobody has pinned, once, and no buffer overflows.      *)
THEOREM StorageTypeCorrect == Spec => []TypeOK
<1>1. SInv => TypeOK
  BY DEF SInv
<1> QED BY <1>1, InitSafe, StepSafe, PTL DEF Spec

(* A frame that a client has pinned is never given to another page, by     *)
(* fetches, allocations, evictions and flushes in any order.               *)
THEOREM PinnedPagesStay == Spec => []PinnedStay
<1>1. SInv => PinnedStay
  <2> SUFFICES ASSUME SInv, NEW p \in Page, held[p] > 0
               PROVE  p \in DOMAIN cache /\ cache[p].pins = held[p]
    BY DEF PinnedStay
  <2> QED BY DEF SInv, PoolInv
<1> QED BY <1>1, InitSafe, StepSafe, PTL DEF Spec

(* Recovery redoes images of no transaction that was not told to commit,   *)
(* wherever a crash or a failed write has cut the log, if no id was given  *)
(* twice.                                                                  *)
THEOREM OnlyCommittedAreRedone == Spec => []OnlyCommittedRedone
<1>1. SInv => OnlyCommittedRedone
  <2> SUFFICES ASSUME SInv, IdsOnce, NEW i \in Redoable
               PROVE  log[i].txn \in ended
    BY DEF OnlyCommittedRedone
  <2>1. log \in Seq(Parts) /\ Readable \in 0 .. Len(log)
    BY ReadableBound DEF SInv, TypeOK
  <2>2. i \in DOMAIN log /\ Committed(Readable, log[i].txn[1])
    BY <2>1 DEF Redoable
  <2>3. PICK c \in 1 .. Readable : /\ IsOf(log[c], {"commit"}, log[i].txn[1])
                                   /\ Tracked(c, log[i].txn[1])
    BY <2>2 DEF Committed
  <2>4. c \in DOMAIN log /\ log[c].kind = "commit" /\ log[c].txn[1] = log[i].txn[1]
    BY <2>1, <2>3 DEF IsOf
  <2>5. log[c].txn \in ended /\ log[c].txn[1] # 0
    BY <2>4 DEF SInv, PartsInv, PartOk, Elements
  <2> QED BY <2>2, <2>4, <2>5 DEF IdsOnce
<1> QED BY <1>1, InitSafe, StepSafe, PTL DEF Spec

-----------------------------------------------------------------------------
(* Refinement.                                                             *)

EvictionsWork == \A b \in Budgets : "evict" \notin b.faults

(* A page whose frame is given away is read from the file from then on,    *)
(* with the same bytes.                                                    *)
LEMMA EvictedContent ==
  ASSUME SInv, EvictionsWork, NEW p \in Page, p \notin DOMAIN cache,
         NEW v \in Page \cup {NoPage}, Victim(v), WriteBack(v), NEW frame \in Frames,
         Load(p, frame, v)
  PROVE  Content' = [Content EXCEPT ![p] = frame.data]
<1>1. PoolTypes /\ OtherTypes
  BY TypesParted DEF SInv
<1>2. /\ v \in Page => v \in DOMAIN cache /\ cache[v].pins = 0
      /\ v \notin Page => v \notin DOMAIN cache
  BY <1>1, VictimUnpinned
<1>3. file' = IF v # NoPage /\ cache[v].dirty THEN [file EXCEPT ![v] = cache[v].data] ELSE file
  <2>1. "evict" \notin budget.faults
    BY <1>1 DEF EvictionsWork, OtherTypes
  <2> QED BY <2>1 DEF WriteBack
<1>4. DOMAIN cache' = (DOMAIN cache \ {v}) \cup {p} /\ cache'[p] = frame
      /\ \A q \in DOMAIN cache \ {v} : q # p /\ cache'[q] = cache[q]
  BY DEF Load
<1>5. NoPage \notin Page
  BY DEF NoPage, Page
<1>6. file \in [Page -> Version] /\ DOMAIN cache \subseteq Page
  BY <1>1 DEF OtherTypes, PoolTypes
<1>7. \A q \in Page : Content[q] = IF q \in DOMAIN cache THEN cache[q].data ELSE file[q]
  BY DEF Content
<1>8. \A q \in Page : Content'[q] = IF q \in DOMAIN cache' THEN cache'[q].data ELSE file'[q]
  BY DEF Content
<1>9. \A q \in DOMAIN cache : ~cache[q].dirty => file[q] = cache[q].data
  BY DEF SInv, DiskInv
<1>10. ASSUME NEW q \in Page, q # p
       PROVE  Content'[q] = Content[q]
  <2>1. CASE q = v
    <3>1. q \in DOMAIN cache /\ q \notin DOMAIN cache' /\ v # NoPage
      BY <1>2, <1>4, <1>5, <1>10, <2>1
    <3>2. file'[q] = cache[q].data
      <4>1. CASE cache[q].dirty
        BY <1>3, <1>6, <2>1, <3>1, <4>1
      <4>2. CASE ~cache[q].dirty
        BY <1>3, <1>9, <2>1, <3>1, <4>2
      <4> QED BY <4>1, <4>2
    <3> QED BY <1>7, <1>8, <3>1, <3>2
  <2>2. CASE q # v
    <3>1. file'[q] = file[q]
      BY <1>3, <1>6, <2>2
    <3>2. q \in DOMAIN cache' <=> q \in DOMAIN cache
      BY <1>4, <1>10, <2>2
    <3>3. q \in DOMAIN cache => cache'[q] = cache[q]
      BY <1>4, <2>2
    <3> QED BY <1>7, <1>8, <3>1, <3>2, <3>3
  <2> QED BY <2>1, <2>2
<1>11. Content'[p] = frame.data
  BY <1>4, <1>8
<1> QED BY <1>10, <1>11 DEF Content

(* A write of one page in the engine is one of the abstract store.         *)
LEMMA StoreWrites ==
  ASSUME SInv, NEW p \in Page, NEW d \in Version, Content[p] < d,
         Content' = [Content EXCEPT ![p] = d], UNCHANGED settled
  PROVE  Store!Next
<1>1. Content \in [Page -> Version]
  BY CleanContent
<1>2. Content' \in [Page -> Version] /\ Content'[p] = d /\ \A q \in Page \ {p} : Content'[q] = Content[q]
  BY <1>1
<1>3. Content'[p] > Content[p]
  BY <1>1, <1>2 DEF Version
<1>4. Store!Write(p)
  BY <1>2, <1>3 DEF Store!Write
<1> QED BY <1>4 DEF Store!Next

(* What is left when the memory is lost.                                   *)
LEMMA StoreCrashes ==
  ASSUME SInv, Forget, UNCHANGED <<file, settled>>
  PROVE  Store!Next
<1>1. /\ Content \in [Page -> Version]
      /\ \A p \in Page : file[p] <= Content[p] /\ Content[p] <= writes
  BY CleanContent
<1>2. DOMAIN cache' = {}
  BY DEF Forget
<1>3. file \in [Page -> Version] /\ \A p \in Page : settled[p] <= file[p]
  BY DEF SInv, TypeOK, DiskInv
<1>4. Content' = [p \in Page |-> file[p]]
  BY <1>2 DEF Content
<1>5. Content' \in [Page -> Version] /\ \A p \in Page : Content'[p] = file[p]
  BY <1>3, <1>4
<1>6. Store!Crash
  BY <1>1, <1>3, <1>5 DEF Store!Crash
<1> QED BY <1>6 DEF Store!Next

LEMMA StoreStays ==
  ASSUME UNCHANGED <<cache, file, settled>>
  PROVE  UNCHANGED Store!vars
BY DEF Store!vars, Content

(* Frames whose bytes stay what they are.                                  *)
LEMMA StoreKeeps ==
  ASSUME UNCHANGED settled, DOMAIN cache' = DOMAIN cache,
         \A q \in DOMAIN cache : cache'[q].data = cache[q].data,
         \A q \in Page \ DOMAIN cache : file'[q] = file[q]
  PROVE  UNCHANGED Store!vars
<1>1. Content' = Content
  BY DEF Content
<1> QED BY <1>1 DEF Store!vars

LEMMA StoreSteps ==
  ASSUME SInv, EvictionsWork, [Next]_vars
  PROVE  [Store!Next]_(Store!vars)
<1>1. PoolTypes /\ OtherTypes
  BY TypesParted DEF SInv
<1>2. \A q \in DOMAIN cache : cache[q] \in Frames /\ cache[q].data \in Nat
  BY <1>1 DEF PoolTypes, Frames, Version
<1>3. /\ Content \in [Page -> Version] /\ writes \in Nat
      /\ \A p \in Page : Content[p] <= writes
  BY <1>1, CleanContent DEF OtherTypes
<1>4. CASE Crash \/ Closed
  BY <1>4, StoreCrashes DEF Crash, Closed, disk, history
<1>5. CASE RedoPage
  <2>1. /\ phase = "redo" /\ next_page_id < MaxPages /\ UNCHANGED settled
    BY <1>5 DEF RedoPage, history
  <2>2. PICK i \in Redoable, v \in Page \cup {NoPage} :
          /\ Victim(v) /\ WriteBack(v)
          /\ Load(next_page_id, Frame(log[i].data, 0, TRUE), v)
    BY <1>5 DEF RedoPage
  <2>3. log[i].data \in 1 .. writes
    BY RedoneWritten
  <2>4. Frame(log[i].data, 0, TRUE) \in Frames /\ Frame(log[i].data, 0, TRUE).data = log[i].data
    BY <1>3, <2>3 DEF Frame, Frames, Version
  <2>5. /\ next_page_id \in Page /\ next_page_id \notin DOMAIN cache
        /\ file[next_page_id] = 0
    BY <2>1, NextPageNew
  <2>6. Content' = [Content EXCEPT ![next_page_id] = log[i].data]
    BY <2>2, <2>4, <2>5, EvictedContent
  <2>7. Content[next_page_id] < log[i].data /\ log[i].data \in Version
    <3>1. Content[next_page_id] = 0
      BY <2>5 DEF Content
    <3> QED BY <1>3, <2>3, <3>1 DEF Version
  <2> QED BY <2>1, <2>5, <2>6, <2>7, StoreWrites
<1>6. ASSUME NEW p \in Page, FetchMiss(p)
      PROVE  UNCHANGED Store!vars
  <2>1. p \notin DOMAIN cache /\ UNCHANGED settled
    BY <1>6 DEF FetchMiss, history
  <2>2. PICK v \in Page \cup {NoPage} :
          Victim(v) /\ WriteBack(v) /\ Load(p, Frame(file[p], 1, FALSE), v)
    BY <1>6 DEF FetchMiss
  <2>3. Frame(file[p], 1, FALSE) \in Frames /\ Frame(file[p], 1, FALSE).data = file[p]
    BY <1>1 DEF Frame, Frames, OtherTypes
  <2>4. Content' = [Content EXCEPT ![p] = file[p]]
    BY <2>1, <2>2, <2>3, EvictedContent
  <2>5. Content[p] = file[p]
    BY <2>1 DEF Content
  <2>6. Content' = Content
    BY <1>3, <2>4, <2>5
  <2> QED BY <2>1, <2>6 DEF Store!vars
<1>7. ASSUME NEW p \in Page, FetchHit(p)
      PROVE  UNCHANGED Store!vars
  <2>1. /\ p \in DOMAIN cache /\ cache' = [cache EXCEPT ![p].pins = @ + 1]
        /\ UNCHANGED <<file, settled>>
    BY <1>7 DEF FetchHit, disk, history
  <2>2. /\ DOMAIN cache' = DOMAIN cache
        /\ \A q \in DOMAIN cache : cache'[q].data = cache[q].data
    BY <1>1, <1>2, <2>1 DEF PoolTypes, Frames
  <2> QED BY <2>1, <2>2, StoreKeeps
<1>8. ASSUME NEW p \in Page, NEW d \in Version, NEW b \in BOOLEAN, held[p] > 0, Unpin(p, d, b),
             UNCHANGED file
      PROVE  p \in DOMAIN cache /\ Content' = [Content EXCEPT ![p] = d]
  <2>1. p \in DOMAIN cache /\ cache[p].pins > 0
    BY <1>8 DEF SInv, PoolInv
  <2>2. /\ DOMAIN cache' = DOMAIN cache
        /\ cache'[p] = Frame(d, cache[p].pins - 1, cache[p].dirty \/ b)
        /\ \A q \in DOMAIN cache \ {p} : cache'[q] = cache[q]
    BY <1>1, <1>8, <2>1, Unpinned
  <2>3. cache'[p].data = d
    BY <2>2 DEF Frame
  <2> QED BY <1>8, <2>1, <2>2, <2>3 DEF Content
<1>9. ASSUME NEW p \in Page, Release(p)
      PROVE  UNCHANGED Store!vars
  <2>1. /\ held[p] > 0 /\ Unpin(p, cache[p].data, FALSE)
        /\ UNCHANGED <<file, settled>>
    BY <1>9 DEF Release, disk, history
  <2>2. p \in DOMAIN cache
    BY <2>1 DEF SInv, PoolInv
  <2>3. cache[p].data \in Version /\ FALSE \in BOOLEAN
    BY <1>2, <2>2 DEF Version
  <2>4. Content' = [Content EXCEPT ![p] = cache[p].data] /\ Content[p] = cache[p].data
    BY <1>8, <2>1, <2>2, <2>3 DEF Content
  <2>5. Content' = Content
    BY <1>3, <2>4
  <2> QED BY <2>1, <2>5 DEF Store!vars
<1>10. ASSUME NEW p \in Page, NEW logged \in BOOLEAN, Update(p, logged)
       PROVE  Store!Next
  <2>1. /\ held[p] > 0 /\ writes' = writes + 1 /\ Unpin(p, writes', TRUE)
        /\ UNCHANGED <<file, settled>>
    BY <1>10 DEF Update
  <2>2. PICK d \in Version : d = writes' /\ d > writes
    BY <1>3, <2>1 DEF Version
  <2>3. TRUE \in BOOLEAN /\ Unpin(p, d, TRUE)
    BY <2>1, <2>2
  <2>4. Content' = [Content EXCEPT ![p] = d]
    BY <1>8, <2>1, <2>3
  <2>5. Content[p] < d
    BY <1>3, <2>2 DEF Version
  <2> HIDE <2>2
  <2> QED BY <2>1, <2>4, <2>5, StoreWrites
<1>11. ASSUME NEW logged \in BOOLEAN, Alloc(logged)
       PROVE  Store!Next
  <2>1. /\ phase = "open" /\ next_page_id < MaxPages /\ writes' = writes + 1 /\ UNCHANGED settled
    BY <1>11 DEF Alloc, Idle, history
  <2>2. PICK v \in Page \cup {NoPage} :
          Victim(v) /\ WriteBack(v) /\ Load(next_page_id, Frame(writes', 1, TRUE), v)
    BY <1>11 DEF Alloc
  <2>3. Frame(writes', 1, TRUE) \in Frames /\ Frame(writes', 1, TRUE).data = writes'
    BY <1>3, <2>1 DEF Frame, Frames, Version
  <2>4. next_page_id \in Page /\ next_page_id \notin DOMAIN cache
    BY <2>1, NextPageNew
  <2>5. Content' = [Content EXCEPT ![next_page_id] = writes']
    BY <2>2, <2>3, <2>4, EvictedContent
  <2>6. PICK d \in Version : d = writes' /\ d > writes
    BY <1>3, <2>1 DEF Version
  <2>7. Content' = [Content EXCEPT ![next_page_id] = d] /\ Content[next_page_id] < d
    BY <1>3, <2>4, <2>5, <2>6 DEF Version
  <2> HIDE <2>6
  <2> QED BY <2>1, <2>4, <2>7, StoreWrites
<1>12. ASSUME NEW p \in Page, FlushPage(p)
       PROVE  UNCHANGED Store!vars
  <2>1. /\ p \in DOMAIN cache /\ UNCHANGED settled
        /\ \/ /\ file' = [file EXCEPT ![p] = cache[p].data]
              /\ cache' = [cache EXCEPT ![p].dirty = FALSE]
           \/ UNCHANGED <<file, cache>>
    BY <1>12 DEF FlushPage, Dirty, history
  <2>2. CASE UNCHANGED <<file, cache>>
    BY <2>1, <2>2, StoreStays
  <2>3. CASE file' = [file EXCEPT ![p] = cache[p].data] /\ cache' = [cache EXCEPT ![p].dirty = FALSE]
    <3>1. /\ DOMAIN cache' = DOMAIN cache
          /\ \A q \in DOMAIN cache : cache'[q].data = cache[q].data
      BY <1>1, <1>2, <2>1, <2>3 DEF PoolTypes, Frames
    <3>2. \A q \in Page \ DOMAIN cache : file'[q] = file[q]
      BY <1>1, <2>1, <2>3 DEF OtherTypes
    <3> QED BY <2>1, <3>1, <3>2, StoreKeeps
  <2> QED BY <2>1, <2>2, <2>3
<1>13. CASE FlushDone
  <2>1. UNCHANGED <<cache, file>> /\ settled' = IF failed = {} THEN Content ELSE settled
    BY <1>13 DEF FlushDone, disk, pool
  <2>2. CASE failed = {}
    <3>1. settled' = Content /\ Content' = Content
      BY <2>1, <2>2 DEF Content
    <3> QED BY <3>1 DEF Store!Next, Store!Flush
  <2>3. CASE failed # {}
    BY <2>1, <2>3, StoreStays
  <2> QED BY <2>2, <2>3
<1>14. CASE OpenNew \/ Open \/ RedoEnd \/ AllocFails \/ AllocLog
  <2>1. UNCHANGED <<cache, file, settled>>
    BY <1>14 DEF OpenNew, Open, RedoEnd, AllocFails, AllocLog, disk, pool, history
  <2> QED BY <2>1, StoreStays
<1>15. CASE BeginTxn \/ CommitTxn \/ CommitFlush \/ AbortTxn
  <2>1. UNCHANGED <<cache, file, settled>>
    BY <1>15 DEF BeginTxn, CommitTxn, CommitFlush, AbortTxn, pool
  <2> QED BY <2>1, StoreStays
<1>16. CASE Flush \/ Checkpoint \/ Close \/ FlushLog \/ CheckpointRecord \/ WriteMeta
  <2>1. UNCHANGED <<cache, file, settled>>
    BY <1>16 DEF Flush, Checkpoint, Close, Call, FlushLog, CheckpointRecord, WriteMeta, disk, pool,
                 history
  <2> QED BY <2>1, StoreStays
<1>17. CASE UNCHANGED vars
  <2>1. UNCHANGED <<cache, file, settled>>
    BY <1>17 DEF vars, disk, pool, history
  <2> QED BY <2>1, StoreStays
<1> QED
  BY <1>4, <1>5, <1>6, <1>7, <1>9, <1>10, <1>11, <1>12, <1>13, <1>14, <1>15, <1>16, <1>17 DEF Next

(* The pages behave as PageStore says, whatever is evicted and read again, *)
(* through flushes that fail and processes that die between any two steps, *)
(* for any number of pages and frames, if evictions can write: a page      *)
(* whose eviction could not be written is lost.                            *)
THEOREM StorageImplementsPageStore ==
  ASSUME EvictionsWork
  PROVE  Spec => ImplementsPageStore
<1>1. Init => Store!Init
  <2> SUFFICES ASSUME Init
               PROVE  Store!Init
    OBVIOUS
  <2>1. DOMAIN cache = {} /\ file = [p \in Page |-> 0] /\ settled = [p \in Page |-> 0]
    BY DEF Init
  <2>2. Content = [p \in Page |-> 0]
    BY <2>1 DEF Content
  <2> QED BY <2>1, <2>2 DEF Store!Init
<1>2. SInv /\ [Next]_vars => [Store!Next]_(Store!vars)
  BY StoreSteps
<1> QED BY <1>1, <1>2, InitSafe, StepSafe, PTL DEF Spec, ImplementsPageStore, Store!Spec

-----------------------------------------------------------------------------
(* What the log has of a transaction, when the log grows or is cut.        *)

(* No part of a finished transaction is taken away or added.               *)
LEMMA FinishedKept ==
  ASSUME NEW F \in Seq(Parts), NEW G \in Seq(Parts), NEW t, NEW images,
         NEW n \in Nat, NEW m \in Nat, n <= Len(F), n <= m, m <= Len(G),
         \A i \in 1 .. n : G[i] = F[i],
         \A i \in DOMAIN G : i > n /\ G[i].txn = t => i \in DOMAIN F /\ F[i] = G[i],
         Finished(F, t, images, n)
  PROVE  Finished(G, t, images, m)
<1>1. PICK b \in 1 .. n, k \in 1 .. n :
        /\ b < k
        /\ F[b].kind = "begin" /\ F[b].txn = t
        /\ F[k].kind = "commit" /\ F[k].txn = t
        /\ \A i \in DOMAIN F : F[i].txn = t =>
             b <= i /\ i <= k /\ (i = b \/ i = k \/ F[i].kind \in {"page", "image"})
  BY DEF Finished
<1>2. DOMAIN F = 1 .. Len(F) /\ DOMAIN G = 1 .. Len(G) /\ Len(F) \in Nat /\ Len(G) \in Nat
  OBVIOUS
<1>3. \A i \in DOMAIN G : G[i].txn = t => i <= n /\ i \in DOMAIN F /\ F[i] = G[i]
  BY <1>1, <1>2
<1>4. \A i \in DOMAIN F : F[i].txn = t => i \in DOMAIN G /\ F[i] = G[i]
  BY <1>1, <1>2
<1>5. Written(G, t) = Written(F, t)
  BY <1>3, <1>4 DEF Written
<1>6. /\ b \in 1 .. m /\ k \in 1 .. m
      /\ G[b].kind = "begin" /\ G[b].txn = t /\ G[k].kind = "commit" /\ G[k].txn = t
  BY <1>1
<1>7. \A i \in DOMAIN G : G[i].txn = t =>
        b <= i /\ i <= k /\ (i = b \/ i = k \/ G[i].kind \in {"page", "image"})
  BY <1>1, <1>3
<1>8. \E x, y \in 1 .. m :
        /\ x < y
        /\ G[x].kind = "begin" /\ G[x].txn = t
        /\ G[y].kind = "commit" /\ G[y].txn = t
        /\ \A i \in DOMAIN G : G[i].txn = t =>
             x <= i /\ i <= y /\ (i = x \/ i = y \/ G[i].kind \in {"page", "image"})
  BY <1>1, <1>6, <1>7
<1>9. Written(F, t) = images
  BY DEF Finished
<1> QED BY <1>5, <1>8, <1>9 DEF Finished

(* The parts of a sequence with others behind it.                          *)
LEMMA Extended ==
  ASSUME NEW F \in Seq(Parts), NEW parts \in Seq(Parts)
  PROVE  /\ F \o parts \in Seq(Parts) /\ Len(F \o parts) = Len(F) + Len(parts)
         /\ DOMAIN (F \o parts) = 1 .. Len(F) + Len(parts) /\ DOMAIN F = 1 .. Len(F)
         /\ Len(F) \in Nat /\ Len(parts) \in Nat
         /\ \A i \in DOMAIN F : i \in DOMAIN (F \o parts) /\ (F \o parts)[i] = F[i]
         /\ \A i \in DOMAIN (F \o parts) :
              i \in DOMAIN F \/ (i - Len(F) \in DOMAIN parts /\ (F \o parts)[i] = parts[i - Len(F)])
OBVIOUS

(* Parts of other transactions change nothing for one.                     *)
LEMMA OthersAdded ==
  ASSUME NEW F \in Seq(Parts), NEW parts \in Seq(Parts), NEW t, NEW images,
         \A i \in DOMAIN parts : parts[i].txn # t
  PROVE  /\ Running(F, t, images) => Running(F \o parts, t, images)
         /\ \A n, m \in Nat : n <= Len(F) /\ n <= m /\ m <= Len(F \o parts)
                                /\ Finished(F, t, images, n)
              => Finished(F \o parts, t, images, m)
<1> DEFINE G == F \o parts
<1>1. /\ G \in Seq(Parts) /\ DOMAIN F = 1 .. Len(F) /\ Len(F) \in Nat
      /\ \A i \in DOMAIN F : i \in DOMAIN G /\ G[i] = F[i]
      /\ \A i \in DOMAIN G : i \in DOMAIN F \/ (i - Len(F) \in DOMAIN parts /\ G[i] = parts[i - Len(F)])
  BY Extended
<1> HIDE DEF G
<1>2. \A i \in DOMAIN G : G[i].txn = t => i \in DOMAIN F /\ F[i] = G[i]
  BY <1>1
<1>3. Written(G, t) = Written(F, t)
  BY <1>1, <1>2 DEF Written
<1>4. ASSUME Running(F, t, images)
      PROVE  Running(G, t, images)
  <2>1. PICK m \in DOMAIN F :
          /\ F[m].kind = "begin" /\ F[m].txn = t
          /\ \A i \in DOMAIN F : F[i].txn = t => m <= i /\ (i = m \/ F[i].kind \in {"page", "image"})
    BY <1>4 DEF Running
  <2>2. m \in DOMAIN G /\ G[m].kind = "begin" /\ G[m].txn = t
    BY <1>1, <2>1
  <2>3. \A i \in DOMAIN G : G[i].txn = t => m <= i /\ (i = m \/ G[i].kind \in {"page", "image"})
    BY <1>2, <2>1
  <2>4. Written(F, t) = images
    BY <1>4 DEF Running
  <2> QED BY <1>3, <2>2, <2>3, <2>4 DEF Running
<1>5. ASSUME NEW n \in Nat, NEW m \in Nat, n <= Len(F), n <= m, m <= Len(G),
             Finished(F, t, images, n)
      PROVE  Finished(G, t, images, m)
  <2>1. \A i \in 1 .. n : G[i] = F[i]
    BY <1>1, <1>5
  <2> QED BY <1>1, <1>2, <1>5, <2>1, FinishedKept
<1> QED BY <1>4, <1>5 DEF G

(* A transaction that has just begun.                                      *)
LEMMA BegunRuns ==
  ASSUME NEW F \in Seq(Parts), NEW r \in Parts, NEW t, r.kind = "begin", r.txn = t,
         \A i \in DOMAIN F : F[i].txn # t
  PROVE  Running(F \o <<r>>, t, {})
<1> DEFINE G == F \o <<r>>
           m == Len(F) + 1
<1>1. /\ G \in Seq(Parts) /\ Len(F) \in Nat /\ DOMAIN G = 1 .. m /\ DOMAIN F = 1 .. Len(F)
      /\ G[m] = r /\ \A i \in DOMAIN F : G[i] = F[i]
  OBVIOUS
<1> HIDE DEF G
<1>2. \A i \in DOMAIN G : i = m \/ G[i].txn # t
  BY <1>1
<1>3. m \in DOMAIN G /\ m \in Nat
  BY <1>1
<1> HIDE DEF m
<1>4. Written(G, t) = {}
  BY <1>1, <1>2, <1>3 DEF Written
<1>5. \A i \in DOMAIN G : G[i].txn = t => m <= i /\ (i = m \/ G[i].kind \in {"page", "image"})
  BY <1>2, <1>3
<1>6. G[m].kind = "begin" /\ G[m].txn = t
  BY <1>1
<1> QED BY <1>3, <1>4, <1>5, <1>6 DEF Running, G

(* One that logs a page.                                                   *)
LEMMA PageRuns ==
  ASSUME NEW F \in Seq(Parts), NEW h \in Parts, NEW r \in Parts, NEW t, NEW images,
         h.kind = "page", h.txn = t, r.kind = "image", r.txn = t, Running(F, t, images)
  PROVE  Running(F \o <<h, r>>, t, images \cup {<<r.page, r.data>>})
<1> DEFINE G == F \o <<h, r>>
           p == Len(F) + 1
           q == Len(F) + 2
<1>1. /\ G \in Seq(Parts) /\ Len(F) \in Nat /\ DOMAIN G = 1 .. q /\ DOMAIN F = 1 .. Len(F)
      /\ G[p] = h /\ G[q] = r /\ \A i \in DOMAIN F : G[i] = F[i]
  OBVIOUS
<1> HIDE DEF G
<1>2. \A i \in DOMAIN G : i = p \/ i = q \/ (i \in DOMAIN F /\ G[i] = F[i])
  BY <1>1
<1>3. /\ p \in DOMAIN G /\ q \in DOMAIN G
      /\ \A i \in DOMAIN F : i \in DOMAIN G /\ i <= p /\ i <= q
  BY <1>1
<1> HIDE DEF p, q
<1>4. PICK m \in DOMAIN F :
        /\ F[m].kind = "begin" /\ F[m].txn = t
        /\ \A i \in DOMAIN F : F[i].txn = t => m <= i /\ (i = m \/ F[i].kind \in {"page", "image"})
  BY DEF Running
<1>5. m \in DOMAIN G /\ G[m].kind = "begin" /\ G[m].txn = t
  BY <1>1, <1>3, <1>4
<1>6. \A i \in DOMAIN G : G[i].txn = t => m <= i /\ (i = m \/ G[i].kind \in {"page", "image"})
  BY <1>1, <1>2, <1>3, <1>4
<1>7. Written(G, t) = Written(F, t) \cup {<<r.page, r.data>>}
  <2>1. {j \in DOMAIN G : G[j].kind = "image" /\ G[j].txn = t}
          = {j \in DOMAIN F : F[j].kind = "image" /\ F[j].txn = t} \cup {q}
    BY <1>1, <1>2, <1>3
  <2> QED BY <1>1, <2>1 DEF Written
<1>8. Written(F, t) = images
  BY DEF Running
<1> QED BY <1>5, <1>6, <1>7, <1>8 DEF Running, G

(* One that is told to commit.                                             *)
LEMMA CommitFinishes ==
  ASSUME NEW F \in Seq(Parts), NEW r \in Parts, NEW t, NEW images,
         r.kind = "commit", r.txn = t, Running(F, t, images)
  PROVE  Finished(F \o <<r>>, t, images, Len(F \o <<r>>))
<1> DEFINE G == F \o <<r>>
           k == Len(F) + 1
<1>1. /\ G \in Seq(Parts) /\ Len(F) \in Nat /\ DOMAIN G = 1 .. k /\ DOMAIN F = 1 .. Len(F)
      /\ Len(G) = k /\ G[k] = r /\ \A i \in DOMAIN F : G[i] = F[i]
  OBVIOUS
<1> HIDE DEF G
<1>2. \A i \in DOMAIN G : i = k \/ (i \in DOMAIN F /\ G[i] = F[i])
  BY <1>1
<1>3. k \in DOMAIN G /\ k \in 1 .. k /\ \A i \in DOMAIN F : i \in 1 .. k /\ i \in DOMAIN G /\ i < k /\ i <= k
  BY <1>1
<1>4. \A i \in DOMAIN G : i <= k /\ k <= k
  BY <1>1
<1> HIDE DEF k
<1>5. PICK m \in DOMAIN F :
        /\ F[m].kind = "begin" /\ F[m].txn = t
        /\ \A i \in DOMAIN F : F[i].txn = t => m <= i /\ (i = m \/ F[i].kind \in {"page", "image"})
  BY DEF Running
<1>6. \A i \in DOMAIN G : G[i].txn = t =>
        m <= i /\ i <= k /\ (i = m \/ i = k \/ G[i].kind \in {"page", "image"})
  BY <1>1, <1>2, <1>3, <1>4, <1>5
<1>7. Written(G, t) = Written(F, t)
  <2>1. {j \in DOMAIN G : G[j].kind = "image" /\ G[j].txn = t}
          = {j \in DOMAIN F : F[j].kind = "image" /\ F[j].txn = t}
    BY <1>1, <1>2, <1>3
  <2> QED BY <1>1, <2>1 DEF Written
<1>8. Written(F, t) = images
  BY DEF Running
<1>9. m \in 1 .. k /\ k \in 1 .. k /\ m < k /\ G[m].kind = "begin" /\ G[m].txn = t
      /\ G[k].kind = "commit" /\ G[k].txn = t
  BY <1>1, <1>3, <1>5
<1>10. Finished(G, t, images, k)
  BY <1>6, <1>7, <1>8, <1>9 DEF Finished
<1> QED BY <1>1, <1>10 DEF G

(* Images keep their order when only later ones come.                      *)
LEMMA OrderKept ==
  ASSUME NEW F \in Seq(Parts), NEW parts \in Seq(Parts), Ordered(F),
         \A i, j \in DOMAIN parts : parts[i].kind = "image" /\ parts[j].kind = "image" => i = j,
         \A i \in DOMAIN F, j \in DOMAIN parts :
           F[i].kind = "image" /\ parts[j].kind = "image" => F[i].data < parts[j].data
  PROVE  Ordered(F \o parts)
<1> DEFINE G == F \o parts
<1>1. /\ G \in Seq(Parts) /\ DOMAIN F = 1 .. Len(F) /\ Len(F) \in Nat
      /\ DOMAIN G = 1 .. Len(F) + Len(parts) /\ Len(parts) \in Nat
      /\ \A i \in DOMAIN F : i \in DOMAIN G /\ G[i] = F[i]
      /\ \A i \in DOMAIN G : i \in DOMAIN F \/ (i - Len(F) \in DOMAIN parts /\ G[i] = parts[i - Len(F)])
  BY Extended
<1> HIDE DEF G
<1>2. ASSUME NEW i \in DOMAIN G, NEW j \in DOMAIN G, i < j, G[i].kind = "image", G[j].kind = "image"
      PROVE  G[i].data < G[j].data
  <2>1. CASE j \in DOMAIN F
    <3>1. i \in DOMAIN F
      BY <1>1, <1>2, <2>1
    <3> QED BY <1>1, <1>2, <2>1, <3>1 DEF Ordered
  <2>2. CASE j \notin DOMAIN F /\ i \in DOMAIN F
    <3>1. j - Len(F) \in DOMAIN parts /\ G[j] = parts[j - Len(F)] /\ G[i] = F[i]
      BY <1>1, <2>2
    <3> QED BY <1>2, <2>2, <3>1
  <2>3. CASE j \notin DOMAIN F /\ i \notin DOMAIN F
    <3>1. /\ j - Len(F) \in DOMAIN parts /\ G[j] = parts[j - Len(F)]
          /\ i - Len(F) \in DOMAIN parts /\ G[i] = parts[i - Len(F)]
      BY <1>1, <2>3
    <3>2. i - Len(F) = j - Len(F)
      BY <1>2, <3>1
    <3> QED BY <1>1, <1>2, <3>2
  <2> QED BY <2>1, <2>2, <2>3
<1> QED BY <1>2 DEF Ordered, G

-----------------------------------------------------------------------------
(* The log's part of the invariant, action by action.                      *)

LEMMA FullTypes ==
  ASSUME SInv
  PROVE  /\ Full \in Seq(Parts) /\ Len(Full) = Len(log) + Len(buffer)
         /\ Len(log) \in Nat /\ Len(buffer) \in Nat
         /\ log \in Seq(Parts) /\ buffer \in Seq(Parts)
         /\ \A i \in DOMAIN log : i \in DOMAIN Full /\ Full[i] = log[i]
         /\ \A i \in DOMAIN Full : PartOk(Full[i])
         /\ \A i \in DOMAIN Full : Full[i].kind = "image" => Full[i].data \in 1 .. writes
<1>1. log \in Seq(Parts) /\ buffer \in Seq(Parts)
  BY DEF SInv, TypeOK
<1>2. /\ Full \in Seq(Parts) /\ Len(Full) = Len(log) + Len(buffer)
      /\ Len(log) \in Nat /\ Len(buffer) \in Nat
      /\ \A i \in DOMAIN log : i \in DOMAIN Full /\ Full[i] = log[i]
  BY <1>1, Extended DEF Full
<1>3. Elements(Full) = Elements(log) \cup Elements(buffer)
  BY <1>1, ElementsOfConcat DEF Full
<1>4. \A i \in DOMAIN Full : PartOk(Full[i])
  BY <1>3 DEF SInv, PartsInv, Elements
<1>5. \A i \in DOMAIN Full : Full[i].kind = "image" => Full[i].data \in 1 .. writes
  BY <1>4 DEF PartOk
<1> QED BY <1>1, <1>2, <1>4, <1>5

(* Steps that have nothing to do with the log.                             *)
LEMMA LogKept ==
  ASSUME SInv, LogInv, UNCHANGED <<log, buffer, acked, wrote, current_txn, next_txn_id, opens>>,
         phase # "down", phase' # "down", todo # <<"commit">>, todo' # <<"commit">>,
         todo' = <<"image">> => writes < writes', writes' \in Nat
  PROVE  LogInv'
<1>1. Full' = Full
  BY DEF Full
<1>2. UsedInv' /\ (phase' # "down" => next_txn_id' > 0)
  BY <1>1 DEF LogInv, UsedInv, Used, Process
<1>3. CurrentInv'
  BY <1>1 DEF LogInv, CurrentInv, Txn
<1>4. AckedInv'
  BY <1>1 DEF LogInv, AckedInv, Txn, Used, Process
<1>5. ImageInv'
  <2> SUFFICES ASSUME todo' = <<"image">>, NEW i \in DOMAIN Full, Full[i].kind = "image"
               PROVE  Full[i].data < writes'
    BY <1>1 DEF ImageInv
  <2>1. Full[i].data \in 1 .. writes /\ writes \in Nat
    BY FullTypes DEF SInv, TypeOK
  <2> QED BY <2>1
<1> QED BY <1>1, <1>2, <1>3, <1>4, <1>5 DEF LogInv

LEMMA OpenLog ==
  ASSUME SInv, LogInv, OpenNew \/ Open
  PROVE  LogInv'
<1>1. /\ phase = "down" /\ opens' = opens + 1 /\ next_txn_id' > 0
      /\ UNCHANGED <<log, buffer, acked, wrote, current_txn>>
      /\ todo' \in {<<"meta">>, todo}
  BY DEF OpenNew, Open, disk
<1>2. current_txn = 0 /\ todo = <<>> /\ opens \in Nat /\ acked \subseteq [txn : Txns, images : SUBSET (Page \X Version)]
  BY <1>1 DEF SInv, PhaseInv, TypeOK
<1>3. Full' = Full
  BY <1>1 DEF Full
<1>4. \A t : Used(t, Process, next_txn_id) => Used(t, Process', next_txn_id')
  <2>1. next_txn_id = 0
    BY <1>1 DEF SInv, PhaseInv
  <2> QED BY <1>1, <1>2, <2>1 DEF Used, Process, Txns
<1>5. UsedInv'
  BY <1>3, <1>4 DEF LogInv, UsedInv
<1>6. CurrentInv' /\ ImageInv'
  BY <1>1, <1>2 DEF CurrentInv, ImageInv
<1>7. AckedInv'
  BY <1>1, <1>2, <1>3, <1>4 DEF LogInv, AckedInv
<1> QED BY <1>1, <1>3, <1>5, <1>6, <1>7 DEF LogInv

(* A process that ends takes the log's buffer with it, which has nothing   *)
(* of what was committed.                                                  *)
LEMMA ForgetLog ==
  ASSUME SInv, LogInv, phase # "down", Forget, UNCHANGED <<disk, writes, history>>
  PROVE  LogInv'
<1>1. /\ phase' = "down" /\ buffer' = <<>> /\ current_txn' = 0 /\ todo' = <<>>
      /\ UNCHANGED <<log, acked, opens>>
  BY DEF Forget, disk, history
<1>2. /\ Full \in Seq(Parts) /\ Len(Full) = Len(log) + Len(buffer)
      /\ Len(log) \in Nat /\ Len(buffer) \in Nat /\ log \in Seq(Parts)
      /\ \A i \in DOMAIN log : i \in DOMAIN Full /\ Full[i] = log[i]
  BY FullTypes
<1>3. Full' = log
  BY <1>1, <1>2 DEF Full
<1>4. \A t : Used(t, Process, next_txn_id) => Used(t, Process', next_txn_id')
  <2>1. opens \in Nat
    BY DEF SInv, TypeOK
  <2> QED BY <1>1, <2>1 DEF Used, Process, Txns
<1>5. UsedInv'
  BY <1>2, <1>3, <1>4 DEF LogInv, UsedInv
<1>6. CurrentInv' /\ ImageInv'
  BY <1>1 DEF CurrentInv, ImageInv
<1>7. AckedInv'
  <2> SUFFICES ASSUME NEW a \in acked
               PROVE  Used(a.txn, Process', next_txn_id') /\ a.txn[1] > 0 /\ Finished(log, a.txn, a.images, Len(log))
    BY <1>1, <1>3 DEF AckedInv
  <2>1. Used(a.txn, Process, next_txn_id) /\ a.txn[1] > 0 /\ Finished(Full, a.txn, a.images, Len(log))
    BY DEF LogInv, AckedInv
  <2>2. \A i \in 1 .. Len(log) : log[i] = Full[i]
    BY <1>2
  <2>3. /\ Len(log) <= Len(Full) /\ Len(log) <= Len(log)
        /\ \A i \in DOMAIN log : ~(i > Len(log))
    BY <1>2
  <2>4. Finished(log, a.txn, a.images, Len(log))
    BY <1>2, <2>1, <2>2, <2>3, FinishedKept
  <2> QED BY <1>4, <2>1, <2>4
<1>8. Ordered(log)
  <2>1. DOMAIN log \subseteq DOMAIN Full /\ \A i \in DOMAIN log : Full[i] = log[i]
    BY <1>2
  <2>2. Ordered(Full)
    BY DEF LogInv
  <2> QED BY <2>1, <2>2 DEF Ordered
<1> QED BY <1>1, <1>3, <1>5, <1>6, <1>7, <1>8 DEF LogInv

(* The buffer goes to the file.                                            *)
LEMMA WrittenLog ==
  ASSUME SInv, LogInv, WriteLog, ~logFailed', UNCHANGED <<acked, opens, phase, next_txn_id>>
  PROVE  /\ Full' = Full /\ Len(log') = Len(Full)
         /\ \A a \in acked : /\ Used(a.txn, Process', next_txn_id') /\ a.txn[1] > 0
                             /\ Finished(Full, a.txn, a.images, Len(log'))
<1>1. Full' = Full /\ log' = Full /\ Len(log) <= Len(log')
  BY LogFlushed DEF SInv, TypeOK, LogTypes
<1>2. /\ Full \in Seq(Parts) /\ Len(Full) = Len(log) + Len(buffer)
      /\ Len(log) \in Nat /\ Len(buffer) \in Nat
  BY FullTypes
<1>3. ASSUME NEW a \in acked
      PROVE  /\ Used(a.txn, Process', next_txn_id') /\ a.txn[1] > 0
             /\ Finished(Full, a.txn, a.images, Len(log'))
  <2>1. Used(a.txn, Process, next_txn_id) /\ a.txn[1] > 0 /\ Finished(Full, a.txn, a.images, Len(log))
    BY DEF LogInv, AckedInv
  <2>2. Used(a.txn, Process', next_txn_id')
    BY <2>1 DEF Used, Process
  <2>3. /\ \A i \in 1 .. Len(log) : Full[i] = Full[i]
        /\ \A i \in DOMAIN Full : i \in DOMAIN Full /\ Full[i] = Full[i]
        /\ Len(log) <= Len(Full) /\ Len(log) <= Len(log') /\ Len(log') <= Len(Full) /\ Len(log') \in Nat
    BY <1>1, <1>2
  <2>4. Finished(Full, a.txn, a.images, Len(log'))
    BY <1>2, <2>1, <2>3, FinishedKept
  <2> QED BY <2>1, <2>2, <2>4
<1> QED BY <1>1, <1>3

LEMMA FlushLogLog ==
  ASSUME SInv, LogInv, FlushLog, ~logFailed'
  PROVE  LogInv'
<1>1. /\ AtStep("log") /\ WriteLog /\ todo' = Tail(todo)
      /\ UNCHANGED <<phase, next_txn_id, current_txn, wrote, opens, acked, writes>>
  BY DEF FlushLog, txn
<1>2. todo \in Seq(PlainSteps) /\ todo' \in Seq(PlainSteps) /\ phase = "open"
  <2>1. "log" \in PlainSteps
    BY DEF PlainSteps, Steps
  <2> QED BY <1>1, <2>1, StepTaken
<1>3. /\ todo # <<"commit">> /\ todo' # <<"commit">> /\ todo' # <<"image">>
  BY <1>2 DEF PlainSteps
<1>4. /\ Full' = Full
      /\ \A a \in acked : Used(a.txn, Process', next_txn_id') /\ a.txn[1] > 0 /\ Finished(Full, a.txn, a.images, Len(log'))
  BY <1>1, WrittenLog
<1>5. UsedInv' /\ (phase' # "down" => next_txn_id' > 0)
  BY <1>1, <1>4 DEF LogInv, UsedInv, Used, Process
<1>6. CurrentInv' /\ ImageInv'
  BY <1>1, <1>3, <1>4 DEF LogInv, CurrentInv, ImageInv, Txn
<1>7. AckedInv'
  BY <1>1, <1>4 DEF LogInv, AckedInv, Txn
<1> QED BY <1>4, <1>5, <1>6, <1>7 DEF LogInv

LEMMA CommitFlushLog ==
  ASSUME SInv, LogInv, CommitFlush, ~logFailed'
  PROVE  LogInv'
<1>1. /\ todo = <<"commit">> /\ WriteLog /\ current_txn' = 0 /\ wrote' = {} /\ todo' = <<>>
      /\ acked' = acked \cup {[txn |-> Txn, images |-> wrote]}
      /\ UNCHANGED <<phase, next_txn_id, opens>>
  BY DEF CommitFlush
<1>2. phase = "open" /\ current_txn # 0 /\ current_txn \in Nat /\ opens \in Nat
  BY <1>1 DEF SInv, PhaseInv, TypeOK
<1>3. Full' = Full /\ Len(log') = Len(Full)
  <2>1. Full' = Full /\ log' = Full
    BY <1>1, LogFlushed DEF SInv, TypeOK, LogTypes
  <2> QED BY <2>1
<1>4. Len(log) \in Nat /\ Len(log) <= Len(Full) /\ Len(Full) \in Nat /\ Full \in Seq(Parts)
  BY FullTypes
<1>5. UsedInv' /\ (phase' # "down" => next_txn_id' > 0)
  BY <1>1, <1>3 DEF LogInv, UsedInv, Used, Process
<1>6. CurrentInv' /\ ImageInv'
  BY <1>1 DEF CurrentInv, ImageInv
<1>7. AckedInv'
  <2> SUFFICES ASSUME NEW a \in acked'
               PROVE  Used(a.txn, Process', next_txn_id') /\ a.txn[1] > 0 /\ Finished(Full, a.txn, a.images, Len(Full))
    BY <1>1, <1>3 DEF AckedInv
  <2>1. CASE a \in acked
    <3>1. Used(a.txn, Process, next_txn_id) /\ a.txn[1] > 0 /\ Finished(Full, a.txn, a.images, Len(log))
      BY <2>1 DEF LogInv, AckedInv
    <3>2. Used(a.txn, Process', next_txn_id')
      BY <1>1, <3>1 DEF Used, Process
    <3>3. /\ \A i \in 1 .. Len(log) : Full[i] = Full[i]
          /\ \A i \in DOMAIN Full : i \in DOMAIN Full /\ Full[i] = Full[i]
          /\ Len(Full) <= Len(Full)
      BY <1>4
    <3>4. Finished(Full, a.txn, a.images, Len(Full))
      BY <1>4, <3>1, <3>3, FinishedKept
    <3> QED BY <3>1, <3>2, <3>4
  <2>2. CASE a = [txn |-> Txn, images |-> wrote]
    <3>1. current_txn < next_txn_id /\ Finished(Full, Txn, wrote, Len(Full))
      BY <1>1, <1>2 DEF LogInv, CurrentInv
    <3>2. a.txn = Txn /\ a.images = wrote /\ Txn[1] = current_txn /\ Txn[2] = opens
      BY <2>2 DEF Txn
    <3>3. a.txn[1] > 0 /\ Finished(Full, a.txn, a.images, Len(Full))
      BY <1>2, <3>1, <3>2
    <3>4. Used(a.txn, Process', next_txn_id')
      <4>1. Txn \in Txns
        BY RecordTypes DEF SInv
      <4> QED BY <1>1, <1>2, <3>1, <3>2, <4>1 DEF Used, Process
    <3> QED BY <3>3, <3>4
  <2> QED BY <1>1, <2>1, <2>2
<1> QED BY <1>3, <1>5, <1>6, <1>7 DEF LogInv

(* A record that is appended, not one of a transaction that is acked.      *)
LEMMA AppendedLog ==
  ASSUME SInv, LogInv, NEW parts \in Seq(Parts), Len(parts) <= BufferParts,
         AppendOk(parts) \/ AppendFails(parts), ~logFailed',
         phase = "open", phase' = "open", opens' = opens, next_txn_id <= next_txn_id',
         next_txn_id' \in Nat,
         \A i \in DOMAIN parts : Used(parts[i].txn, Process', next_txn_id'),
         \A i \in DOMAIN parts : \A a \in acked : parts[i].txn # a.txn,
         Ordered(Full \o parts)
  PROVE  /\ AppendOk(parts) /\ Full' = Full \o parts /\ next_txn_id' > 0 /\ UsedInv' /\ Ordered(Full')
         /\ \A a \in acked : /\ Used(a.txn, Process', next_txn_id') /\ a.txn[1] > 0
                             /\ Finished(Full', a.txn, a.images, Len(log'))
<1>1. AppendOk(parts)
  BY DEF AppendFails
<1>2. LogTypes' /\ Full' = Full \o parts /\ Len(log) <= Len(log')
  BY <1>1, Appended DEF SInv, TypeOK, LogTypes
<1>3. /\ Full \in Seq(Parts) /\ Len(Full) = Len(log) + Len(buffer)
      /\ Len(log) \in Nat /\ Len(buffer) \in Nat
  BY FullTypes
<1>4. opens \in Nat /\ next_txn_id \in Nat /\ next_txn_id > 0
  BY DEF SInv, TypeOK, LogInv
<1>5. \A t : Used(t, Process, next_txn_id) => Used(t, Process', next_txn_id')
  BY <1>4 DEF Used, Process, Txns
<1>6. UsedInv'
  <2> DEFINE G == Full \o parts
  <2>1. /\ DOMAIN Full = 1 .. Len(Full) /\ \A i \in DOMAIN Full : G[i] = Full[i]
        /\ \A i \in DOMAIN G :
             i \in DOMAIN Full \/ (i - Len(Full) \in DOMAIN parts /\ G[i] = parts[i - Len(Full)])
    BY <1>3, Extended
  <2> HIDE DEF G
  <2>2. \A i \in DOMAIN Full : Used(Full[i].txn, Process', next_txn_id')
    BY <1>5 DEF LogInv, UsedInv
  <2>3. \A i \in DOMAIN G : Used(G[i].txn, Process', next_txn_id')
    BY <2>1, <2>2
  <2> QED BY <1>2, <2>3 DEF UsedInv, G
<1>7. Len(log') \in Nat /\ Len(log') <= Len(Full \o parts)
  <2>1. log' \in Seq(Parts) /\ buffer' \in Seq(Parts)
    BY <1>2 DEF LogTypes
  <2>2. Len(log' \o buffer') = Len(log') + Len(buffer') /\ Len(log') \in Nat /\ Len(buffer') \in Nat
    BY <2>1
  <2>3. Full' = log' \o buffer'
    BY DEF Full
  <2> HIDE DEF Full
  <2> QED BY <1>2, <2>2, <2>3
<1>8. ASSUME NEW a \in acked
      PROVE  /\ Used(a.txn, Process', next_txn_id') /\ a.txn[1] > 0
             /\ Finished(Full \o parts, a.txn, a.images, Len(log'))
  <2>1. Used(a.txn, Process, next_txn_id) /\ a.txn[1] > 0 /\ Finished(Full, a.txn, a.images, Len(log))
    BY DEF LogInv, AckedInv
  <2>3. \A i \in DOMAIN parts : parts[i].txn # a.txn
    OBVIOUS
  <2>4. Finished(Full \o parts, a.txn, a.images, Len(log'))
    <3>1. Len(log) <= Len(Full) /\ Len(log) <= Len(log')
      BY <1>2, <1>3
    <3> QED BY <1>3, <1>7, <2>1, <2>3, <3>1, OthersAdded
  <2> QED BY <1>5, <2>1, <2>4
<1> QED BY <1>1, <1>2, <1>4, <1>6, <1>8

(* Records without an image.                                               *)
LEMMA OrderStays ==
  ASSUME SInv, LogInv, NEW r \in Parts, r.kind # "image"
  PROVE  Ordered(Full \o <<r>>)
<1>1. Full \in Seq(Parts) /\ <<r>> \in Seq(Parts)
  BY FullTypes
<1>2. DOMAIN <<r>> = {1} /\ <<r>>[1] = r
  OBVIOUS
<1>3. Ordered(Full)
  BY DEF LogInv
<1> QED BY <1>1, <1>2, <1>3, OrderKept

LEMMA BeginLog ==
  ASSUME SInv, LogInv, BeginTxn, ~logFailed'
  PROVE  LogInv'
<1> DEFINE t == <<next_txn_id, opens>>
           r == Record("begin", t)
<1>1. /\ phase = "open" /\ todo = <<>> /\ next_txn_id' = next_txn_id + 1
      /\ current_txn' = next_txn_id /\ wrote' = {}
      /\ AppendOk(<<r>>) \/ AppendFails(<<r>>)
      /\ UNCHANGED <<phase, todo, opens, acked>>
  BY DEF BeginTxn, Idle
<1>2. next_txn_id \in Nat /\ opens \in Nat /\ t \in Txns
  BY DEF SInv, TypeOK, Txns
<1>3. /\ r \in Parts /\ <<r>> \in Seq(Parts) /\ Len(<<r>>) <= BufferParts
      /\ r.kind = "begin" /\ r.txn = t
  BY <1>2, RecordTypes DEF SInv
<1>4. Txn' = t
  BY <1>1 DEF Txn
<1>5. ~Used(t, Process, next_txn_id) /\ Used(t, Process', next_txn_id')
  BY <1>1, <1>2 DEF Used, Process, Txns
<1>6. \A a \in acked : a.txn # t
  BY <1>5 DEF LogInv, AckedInv
<1>7. \A i \in DOMAIN Full : Full[i].txn # t
  BY <1>5 DEF LogInv, UsedInv
<1> HIDE DEF t, r
<1>8. DOMAIN <<r>> = {1} /\ <<r>>[1] = r
  OBVIOUS
<1>9. Ordered(Full \o <<r>>)
  BY <1>3, OrderStays
<1>10. /\ Full' = Full \o <<r>> /\ next_txn_id' > 0 /\ UsedInv' /\ Ordered(Full')
       /\ \A a \in acked : /\ Used(a.txn, Process', next_txn_id') /\ a.txn[1] > 0
                           /\ Finished(Full', a.txn, a.images, Len(log'))
  <2>1. /\ \A i \in DOMAIN <<r>> : Used(<<r>>[i].txn, Process', next_txn_id')
        /\ \A i \in DOMAIN <<r>> : \A a \in acked : <<r>>[i].txn # a.txn
    BY <1>3, <1>5, <1>6, <1>8
  <2>2. next_txn_id <= next_txn_id' /\ next_txn_id' \in Nat
    BY <1>1, <1>2
  <2> QED BY <1>1, <1>3, <1>9, <2>1, <2>2, AppendedLog
<1>11. CurrentInv'
  <2>1. Full \in Seq(Parts)
    BY FullTypes
  <2>2. Running(Full \o <<r>>, t, {})
    BY <1>3, <1>7, <2>1, BegunRuns
  <2>3. todo' # <<"commit">>
    BY <1>1
  <2>4. Running(Full', Txn', wrote')
    BY <1>1, <1>4, <1>10, <2>2
  <2> QED BY <1>1, <1>2, <2>3, <2>4 DEF CurrentInv
<1>12. AckedInv'
  BY <1>1, <1>4, <1>6, <1>10 DEF AckedInv
<1>13. ImageInv'
  BY <1>1 DEF ImageInv
<1> QED BY <1>10, <1>11, <1>12, <1>13 DEF LogInv

(* The transaction in progress is none that has been acked.                *)
LEMMA CurrentTxn ==
  ASSUME SInv, LogInv, current_txn # 0
  PROVE  /\ Txn \in Txns /\ Used(Txn, Process, next_txn_id) /\ Txn[1] # 0 /\ Txn[1] = current_txn
         /\ \A a \in acked : a.txn # Txn
<1>1. Txn \in Txns
  BY RecordTypes DEF SInv
<1>2. current_txn < next_txn_id
  BY DEF LogInv, CurrentInv
<1>3. opens \in Nat /\ current_txn \in Nat
  BY DEF SInv, TypeOK
<1>4. Used(Txn, Process, next_txn_id)
  BY <1>2, <1>3 DEF Used, Process, Txns, Txn
<1> QED BY <1>1, <1>4 DEF LogInv, AckedInv, Txn

LEMMA CommitLog ==
  ASSUME SInv, LogInv, CommitTxn, ~logFailed'
  PROVE  LogInv'
<1> DEFINE r == Record("commit", Txn)
<1>1. /\ phase = "open" /\ todo = <<>> /\ current_txn # 0 /\ AppendOk(<<r>>) /\ todo' = <<"commit">>
      /\ UNCHANGED <<current_txn, acked, wrote, phase, next_txn_id, opens>>
  BY DEF CommitTxn, AppendFails, Idle
<1>2. /\ Txn \in Txns /\ Used(Txn, Process, next_txn_id) /\ \A a \in acked : a.txn # Txn
  BY <1>1, CurrentTxn
<1>3. /\ r \in Parts /\ <<r>> \in Seq(Parts) /\ Len(<<r>>) <= BufferParts
      /\ r.kind = "commit" /\ r.txn = Txn
  BY <1>2, RecordTypes DEF SInv
<1>4. Txn' = Txn
  BY <1>1 DEF Txn
<1>5. Used(Txn, Process', next_txn_id')
  BY <1>1, <1>2 DEF Used, Process, Txns, Txn
<1> HIDE DEF r
<1>6. DOMAIN <<r>> = {1} /\ <<r>>[1] = r
  OBVIOUS
<1>7. Ordered(Full \o <<r>>)
  BY <1>3, OrderStays
<1>8. /\ Full' = Full \o <<r>> /\ next_txn_id' > 0 /\ UsedInv' /\ Ordered(Full')
      /\ \A a \in acked : /\ Used(a.txn, Process', next_txn_id') /\ a.txn[1] > 0
                          /\ Finished(Full', a.txn, a.images, Len(log'))
  <2>1. /\ \A i \in DOMAIN <<r>> : Used(<<r>>[i].txn, Process', next_txn_id')
        /\ \A i \in DOMAIN <<r>> : \A a \in acked : <<r>>[i].txn # a.txn
    BY <1>2, <1>3, <1>4, <1>5, <1>6
  <2>2. next_txn_id <= next_txn_id' /\ next_txn_id' \in Nat
    BY <1>1 DEF SInv, TypeOK
  <2> QED BY <1>1, <1>3, <1>7, <2>1, <2>2, AppendedLog
<1>9. CurrentInv'
  <2>1. current_txn < next_txn_id /\ Running(Full, Txn, wrote)
    BY <1>1 DEF LogInv, CurrentInv
  <2>2. Full \in Seq(Parts)
    BY FullTypes
  <2>3. Finished(Full \o <<r>>, Txn, wrote, Len(Full \o <<r>>))
    BY <1>3, <2>1, <2>2, CommitFinishes
  <2>4. Finished(Full', Txn', wrote', Len(Full'))
    BY <1>1, <1>4, <1>8, <2>3
  <2> QED BY <1>1, <2>1, <2>4 DEF CurrentInv
<1>10. AckedInv'
  BY <1>1, <1>2, <1>4, <1>8 DEF AckedInv
<1>11. ImageInv'
  BY <1>1 DEF ImageInv
<1> QED BY <1>8, <1>9, <1>10, <1>11 DEF LogInv

LEMMA AbortLog ==
  ASSUME SInv, LogInv, AbortTxn, ~logFailed'
  PROVE  LogInv'
<1> DEFINE r == Record("abort", Txn)
<1>1. /\ phase = "open" /\ todo = <<>> /\ current_txn # 0 /\ current_txn' = 0
      /\ AppendOk(<<r>>) \/ AppendFails(<<r>>)
      /\ UNCHANGED <<todo, acked, phase, next_txn_id, opens>>
  BY DEF AbortTxn, Idle
<1>2. Txn \in Txns /\ Used(Txn, Process, next_txn_id) /\ \A a \in acked : a.txn # Txn
  BY <1>1, CurrentTxn
<1>3. /\ r \in Parts /\ <<r>> \in Seq(Parts) /\ Len(<<r>>) <= BufferParts
      /\ r.kind = "abort" /\ r.txn = Txn
  BY <1>2, RecordTypes DEF SInv
<1>4. \A t : Used(t, Process, next_txn_id) => Used(t, Process', next_txn_id')
  BY <1>1 DEF Used, Process, Txns
<1> HIDE DEF r
<1>5. DOMAIN <<r>> = {1} /\ <<r>>[1] = r
  OBVIOUS
<1>6. Ordered(Full \o <<r>>)
  BY <1>3, OrderStays
<1>7. /\ Full' = Full \o <<r>> /\ next_txn_id' > 0 /\ UsedInv' /\ Ordered(Full')
      /\ \A a \in acked : /\ Used(a.txn, Process', next_txn_id') /\ a.txn[1] > 0
                          /\ Finished(Full', a.txn, a.images, Len(log'))
  <2>1. Used(r.txn, Process', next_txn_id')
    BY <1>2, <1>3, <1>4
  <2>2. /\ \A i \in DOMAIN <<r>> : Used(<<r>>[i].txn, Process', next_txn_id')
        /\ \A i \in DOMAIN <<r>> : \A a \in acked : <<r>>[i].txn # a.txn
    BY <1>2, <1>3, <1>5, <2>1
  <2>3. next_txn_id <= next_txn_id' /\ next_txn_id' \in Nat
    BY <1>1 DEF SInv, TypeOK
  <2> QED BY <1>1, <1>3, <1>6, <2>2, <2>3, AppendedLog
<1>8. CurrentInv' /\ ImageInv' /\ AckedInv'
  BY <1>1, <1>7 DEF CurrentInv, ImageInv, AckedInv
<1> QED BY <1>7, <1>8 DEF LogInv

LEMMA CheckpointRecordLog ==
  ASSUME SInv, LogInv, CheckpointRecord, ~logFailed'
  PROVE  LogInv'
<1> DEFINE t == <<0, opens>>
           r == Record("checkpoint", t)
<1>1. /\ AtStep("record")
      /\ AppendOk(<<r>>) \/ AppendFails(<<r>>)
      /\ todo' \in {Tail(todo), SubSeq(todo, 3, Len(todo))}
      /\ UNCHANGED <<phase, next_txn_id, current_txn, wrote, opens, acked>>
  BY DEF CheckpointRecord, txn
<1>2. todo \in Seq(PlainSteps) /\ todo' \in Seq(PlainSteps) /\ phase = "open"
  <2>1. "record" \in PlainSteps
    BY DEF PlainSteps, Steps
  <2> QED BY <1>1, <2>1, StepTaken
<1>3. /\ todo # <<"commit">> /\ todo' # <<"commit">> /\ todo' # <<"image">>
  BY <1>2 DEF PlainSteps
<1>4. t \in Txns /\ opens \in Nat /\ next_txn_id \in Nat /\ next_txn_id > 0
  BY <1>2 DEF SInv, TypeOK, Txns, LogInv
<1>5. Used(t, Process', next_txn_id') /\ t[1] = 0
  BY <1>1, <1>4 DEF Used, Process, Txns
<1>6. /\ r \in Parts /\ <<r>> \in Seq(Parts) /\ Len(<<r>>) <= BufferParts
      /\ r.kind = "checkpoint" /\ r.txn = t
  BY <1>4, RecordTypes DEF SInv
<1>7. \A a \in acked : a.txn # t
  BY <1>5 DEF LogInv, AckedInv
<1>8. current_txn # 0 => t # Txn
  BY DEF Txn
<1> HIDE DEF t, r
<1>9. DOMAIN <<r>> = {1} /\ <<r>>[1] = r
  OBVIOUS
<1>10. Ordered(Full \o <<r>>)
  BY <1>6, OrderStays
<1>11. /\ Full' = Full \o <<r>> /\ next_txn_id' > 0 /\ UsedInv' /\ Ordered(Full')
       /\ \A a \in acked : /\ Used(a.txn, Process', next_txn_id') /\ a.txn[1] > 0
                           /\ Finished(Full', a.txn, a.images, Len(log'))
  <2>1. /\ \A i \in DOMAIN <<r>> : Used(<<r>>[i].txn, Process', next_txn_id')
        /\ \A i \in DOMAIN <<r>> : \A a \in acked : <<r>>[i].txn # a.txn
    BY <1>5, <1>6, <1>7, <1>9
  <2>2. next_txn_id <= next_txn_id' /\ next_txn_id' \in Nat
    BY <1>1, <1>4
  <2> QED BY <1>1, <1>2, <1>6, <1>10, <2>1, <2>2, AppendedLog
<1>12. CurrentInv'
  <2> SUFFICES ASSUME current_txn # 0
               PROVE  current_txn < next_txn_id /\ Running(Full', Txn, wrote)
    BY <1>1, <1>3 DEF CurrentInv, Txn
  <2>1. current_txn < next_txn_id /\ Running(Full, Txn, wrote)
    BY <1>3 DEF LogInv, CurrentInv
  <2>2. Full \in Seq(Parts)
    BY FullTypes
  <2>3. \A i \in DOMAIN <<r>> : <<r>>[i].txn # Txn
    BY <1>6, <1>8, <1>9
  <2>4. Running(Full \o <<r>>, Txn, wrote)
    BY <1>6, <2>1, <2>2, <2>3, OthersAdded
  <2> QED BY <1>11, <2>1, <2>4
<1>13. AckedInv'
  BY <1>1, <1>11 DEF LogInv, AckedInv, Txn
<1>14. ImageInv'
  BY <1>3 DEF ImageInv
<1> QED BY <1>11, <1>12, <1>13, <1>14 DEF LogInv

(* The image of a page, newer than all that are in the log.                *)
LEMMA PageLog ==
  ASSUME SInv, LogInv, NEW p \in Page, NEW n \in Nat, LogPage(p, n), ~logFailed',
         current_txn # 0, phase = "open", todo # <<"commit">>, todo' = <<>>,
         UNCHANGED <<phase, next_txn_id, current_txn, opens, acked>>,
         \A i \in DOMAIN Full : Full[i].kind = "image" => Full[i].data < n
  PROVE  LogInv'
<1> DEFINE parts == PageRecord(p, n)
           h == parts[1]
           r == parts[2]
<1>1. AppendOk(parts) /\ wrote' = wrote \cup {<<p, n>>}
  BY DEF LogPage, AppendFails
<1>2. /\ Txn \in Txns /\ Used(Txn, Process, next_txn_id) /\ \A a \in acked : a.txn # Txn
  BY CurrentTxn
<1>3. /\ parts \in Seq(Parts) /\ Len(parts) = 2
      /\ h = Record("page", Txn) /\ r.kind = "image" /\ r.txn = Txn
      /\ r.page = p /\ r.data = n /\ h \in Parts /\ r \in Parts /\ parts = <<h, r>>
  BY PageRecordTypes DEF SInv
<1>4. h.kind = "page" /\ h.txn = Txn
  BY <1>3 DEF Record
<1>5. \A t : Used(t, Process, next_txn_id) => Used(t, Process', next_txn_id')
  BY DEF Used, Process, Txns
<1> HIDE DEF parts
<1>6. DOMAIN parts = {1, 2} /\ h \in Parts /\ r \in Parts /\ parts = <<h, r>>
  BY <1>3
<1>7. \A i \in DOMAIN parts : parts[i].txn = Txn /\ (parts[i].kind = "image" => i = 2 /\ parts[i].data = n)
  BY <1>3, <1>4, <1>6
<1>8. Full \in Seq(Parts)
  BY FullTypes
<1>9. Ordered(Full \o parts)
  <2>1. /\ \A i, j \in DOMAIN parts : parts[i].kind = "image" /\ parts[j].kind = "image" => i = j
        /\ \A i \in DOMAIN Full, j \in DOMAIN parts :
             Full[i].kind = "image" /\ parts[j].kind = "image" => Full[i].data < parts[j].data
    BY <1>7
  <2>2. Ordered(Full)
    BY DEF LogInv
  <2> QED BY <1>3, <1>8, <2>1, <2>2, OrderKept
<1>10. /\ Full' = Full \o parts /\ next_txn_id' > 0 /\ UsedInv' /\ Ordered(Full')
       /\ \A a \in acked : /\ Used(a.txn, Process', next_txn_id') /\ a.txn[1] > 0
                           /\ Finished(Full', a.txn, a.images, Len(log'))
  <2>1. /\ \A i \in DOMAIN parts : Used(parts[i].txn, Process', next_txn_id')
        /\ \A i \in DOMAIN parts : \A a \in acked : parts[i].txn # a.txn
    BY <1>2, <1>5, <1>7
  <2>2. next_txn_id <= next_txn_id' /\ next_txn_id' \in Nat
    BY DEF SInv, TypeOK
  <2>3. Len(parts) <= BufferParts
    BY <1>3, SizesAssumption DEF SizesAssumption
  <2> QED BY <1>1, <1>3, <1>9, <2>1, <2>2, <2>3, AppendedLog
<1>11. CurrentInv'
  <2>1. current_txn < next_txn_id /\ Running(Full, Txn, wrote)
    BY DEF LogInv, CurrentInv
  <2> HIDE DEF h, r
  <2>2. Running(Full \o <<h, r>>, Txn, wrote \cup {<<r.page, r.data>>})
    BY <1>3, <1>4, <1>6, <1>8, <2>1, PageRuns DEF h, r
  <2>3. Running(Full', Txn, wrote')
    BY <1>1, <1>3, <1>6, <1>10, <2>2 DEF h, r
  <2>4. Txn' = Txn
    BY DEF Txn
  <2> QED BY <2>1, <2>3, <2>4 DEF CurrentInv
<1>12. AckedInv'
  BY <1>2, <1>10 DEF AckedInv, Txn
<1>13. ImageInv'
  BY DEF ImageInv
<1> QED BY <1>10, <1>11, <1>12, <1>13 DEF LogInv

LEMMA AllocLogLog ==
  ASSUME SInv, LogInv, AllocLog, ~logFailed'
  PROVE  LogInv'
<1>1. /\ todo = <<"image">> /\ LogPage(next_page_id - 1, cache[next_page_id - 1].data)
      /\ todo' = <<>>
      /\ UNCHANGED <<phase, next_txn_id, current_txn, opens, acked>>
  BY DEF AllocLog
<1>2. /\ phase = "open" /\ next_page_id - 1 \in DOMAIN cache /\ current_txn # 0
      /\ cache[next_page_id - 1].data = writes
  BY <1>1 DEF SInv, PhaseInv
<1>3. next_page_id - 1 \in Page /\ writes \in Nat
  BY <1>2 DEF SInv, TypeOK
<1>4. \A i \in DOMAIN Full : Full[i].kind = "image" => Full[i].data < writes
  BY <1>1 DEF LogInv, ImageInv
<1>5. LogPage(next_page_id - 1, writes) /\ todo # <<"commit">>
  BY <1>1, <1>2
<1> QED BY <1>1, <1>2, <1>3, <1>4, <1>5, PageLog

LEMMA UpdateLog ==
  ASSUME SInv, LogInv, NEW p \in Page, NEW logged \in BOOLEAN, Update(p, logged), ~logFailed'
  PROVE  LogInv'
<1>1. /\ phase = "open" /\ todo = <<>> /\ writes' = writes + 1 /\ todo' = <<>>
      /\ UNCHANGED <<phase, next_txn_id, current_txn, opens, acked>>
  BY DEF Update, Idle
<1>2. writes \in Nat
  BY DEF SInv, TypeOK
<1>3. CASE logged
  <2>1. LogPage(p, writes') /\ current_txn # 0
    BY <1>3 DEF Update
  <2>2. PICK n \in Nat : n = writes'
    BY <1>1, <1>2
  <2>3. \A i \in DOMAIN Full : Full[i].kind = "image" => Full[i].data < n
    BY <1>1, <1>2, <2>2, FullTypes
  <2>4. LogPage(p, n) /\ todo # <<"commit">>
    BY <1>1, <2>1, <2>2
  <2> HIDE <2>2
  <2> QED BY <1>1, <2>1, <2>3, <2>4, PageLog
<1>4. CASE ~logged
  <2>1. UNCHANGED <<log, buffer, wrote>>
    BY <1>4 DEF Update
  <2> QED BY <1>1, <1>2, <2>1, LogKept
<1> QED BY <1>3, <1>4

(* Whether a write to the log has failed is never forgotten.               *)
LEMMA FailureStays ==
  ASSUME SInv, [Next]_vars, logFailed
  PROVE  logFailed'
<1>1. CASE \/ OpenNew \/ Open \/ RedoPage \/ RedoEnd \/ Crash \/ AllocFails
           \/ \E p \in Page : FetchHit(p) \/ FetchMiss(p) \/ Release(p)
           \/ \E logged \in BOOLEAN : Alloc(logged)
           \/ Flush \/ Checkpoint \/ Close
           \/ (\E p \in Page : FlushPage(p)) \/ FlushDone \/ WriteMeta \/ Closed
           \/ UNCHANGED vars
  <2>1. UNCHANGED logFailed
    BY <1>1 DEF OpenNew, Open, RedoPage, RedoEnd, Crash, AllocFails, FetchHit, FetchMiss, Release,
                Alloc, Flush, Checkpoint, Close, Call, FlushPage, FlushDone, WriteMeta, Closed,
                history, vars
  <2> QED BY <2>1
<1>2. ASSUME NEW parts, AppendOk(parts) \/ AppendFails(parts)
      PROVE  logFailed'
  BY <1>2 DEF AppendOk, AppendFails
<1>3. ASSUME WriteLog
      PROVE  logFailed'
  BY <1>3 DEF WriteLog
<1>4. CASE AllocLog
  BY <1>2, <1>4 DEF AllocLog, LogPage
<1>5. ASSUME NEW p \in Page, NEW logged \in BOOLEAN, Update(p, logged)
      PROVE  logFailed'
  BY <1>2, <1>5 DEF Update, LogPage
<1>6. CASE BeginTxn
  BY <1>2, <1>6 DEF BeginTxn
<1>7. CASE CommitTxn
  BY <1>2, <1>7 DEF CommitTxn
<1>8. CASE AbortTxn
  BY <1>2, <1>8 DEF AbortTxn
<1>9. CASE CheckpointRecord
  BY <1>2, <1>9 DEF CheckpointRecord
<1>10. CASE CommitFlush \/ FlushLog
  BY <1>3, <1>10 DEF CommitFlush, FlushLog
<1> QED BY <1>1, <1>4, <1>5, <1>6, <1>7, <1>8, <1>9, <1>10 DEF Next

LEMMA StepLog ==
  ASSUME SInv, LogInv, [Next]_vars, ~logFailed'
  PROVE  LogInv'
<1>1. CASE OpenNew \/ Open
  BY <1>1, OpenLog
<1>2. CASE Crash \/ Closed
  <2>1. phase # "down"
    BY <1>2 DEF Crash, Closed, AtStep, SInv, PhaseInv
  <2>2. Forget /\ UNCHANGED <<disk, writes, history>>
    BY <1>2 DEF Crash, Closed
  <2> QED BY <2>1, <2>2, ForgetLog
<1>3. CASE RedoPage \/ RedoEnd
  <2>1. /\ phase = "redo" /\ phase' # "down" /\ UNCHANGED <<todo, writes>>
        /\ UNCHANGED <<log, buffer, acked, wrote, current_txn, next_txn_id, opens>>
    BY <1>3 DEF RedoPage, RedoEnd, txn, history
  <2>2. todo = <<>> /\ writes \in Nat
    BY <2>1 DEF SInv, PhaseInv, TypeOK
  <2> QED BY <2>1, <2>2, LogKept
<1>4. ASSUME NEW p \in Page, FetchHit(p) \/ FetchMiss(p) \/ Release(p)
      PROVE  LogInv'
  <2>1. /\ phase = "open" /\ todo = <<>> /\ UNCHANGED <<phase, todo, writes>>
        /\ UNCHANGED <<log, buffer, acked, wrote, current_txn, next_txn_id, opens>>
    BY <1>4 DEF FetchHit, FetchMiss, Release, Idle, disk, txn, history
  <2>2. writes \in Nat
    BY DEF SInv, TypeOK
  <2> QED BY <2>1, <2>2, LogKept
<1>5. ASSUME NEW logged \in BOOLEAN, Alloc(logged)
      PROVE  LogInv'
  <2>1. /\ phase = "open" /\ todo = <<>> /\ UNCHANGED phase /\ writes' = writes + 1
        /\ todo' \in {<<"image">>, <<>>}
        /\ UNCHANGED <<log, buffer, acked, wrote, current_txn, next_txn_id, opens>>
    BY <1>5 DEF Alloc, Idle, txn, history
  <2>2. writes \in Nat
    BY DEF SInv, TypeOK
  <2>3. todo' # <<"commit">> /\ writes < writes' /\ writes' \in Nat
    BY <2>1, <2>2
  <2> QED BY <2>1, <2>3, LogKept
<1>6. CASE AllocFails
  <2>1. /\ phase = "open" /\ todo = <<>> /\ UNCHANGED <<phase, todo, writes>>
        /\ UNCHANGED <<log, buffer, acked, wrote, current_txn, next_txn_id, opens>>
    BY <1>6 DEF AllocFails, Idle, disk, txn, history
  <2>2. writes \in Nat
    BY DEF SInv, TypeOK
  <2> QED BY <2>1, <2>2, LogKept
<1>7. CASE Flush \/ Checkpoint \/ Close
  <2>1. /\ phase = "open" /\ todo = <<>> /\ UNCHANGED <<phase, writes>>
        /\ todo' \in {FlushSteps, CheckpointSteps, CloseSteps}
        /\ UNCHANGED <<log, buffer, acked, wrote, current_txn, next_txn_id, opens>>
    BY <1>7 DEF Flush, Checkpoint, Close, Call, Idle, disk, txn, history
  <2>2. writes \in Nat
    BY DEF SInv, TypeOK
  <2>3. todo' # <<"commit">> /\ todo' # <<"image">>
    BY <2>1 DEF FlushSteps, CheckpointSteps, CloseSteps
  <2> QED BY <2>1, <2>2, <2>3, LogKept
<1>8. ASSUME NEW step \in {"pages", "meta"}, AtStep(step),
             todo' \in {todo, Tail(todo), SubSeq(todo, 5, Len(todo))}, UNCHANGED <<phase, writes>>,
             UNCHANGED <<log, buffer, acked, wrote, current_txn, next_txn_id, opens>>
      PROVE  LogInv'
  <2>1. step \in PlainSteps
    BY <1>8 DEF PlainSteps, Steps
  <2>2. phase = "open" /\ todo \in Seq(PlainSteps) /\ todo' \in Seq(PlainSteps)
    BY <1>8, <2>1, StepTaken
  <2>3. todo # <<"commit">> /\ todo' # <<"commit">> /\ todo' # <<"image">>
    BY <2>2 DEF PlainSteps
  <2>4. writes \in Nat
    BY DEF SInv, TypeOK
  <2> QED BY <1>8, <2>2, <2>3, <2>4, LogKept
<1>9. CASE WriteMeta \/ FlushDone \/ \E p \in Page : FlushPage(p)
  <2>1. /\ AtStep("meta") \/ AtStep("pages")
        /\ todo' \in {todo, Tail(todo), SubSeq(todo, 5, Len(todo))} /\ UNCHANGED <<phase, writes>>
        /\ UNCHANGED <<log, buffer, acked, wrote, current_txn, next_txn_id, opens>>
    BY <1>9 DEF WriteMeta, FlushDone, FlushPage, disk, txn, history
  <2> QED BY <1>8, <2>1
<1>10. CASE AllocLog
  BY <1>10, AllocLogLog
<1>11. ASSUME NEW p \in Page, NEW logged \in BOOLEAN, Update(p, logged)
       PROVE  LogInv'
  BY <1>11, UpdateLog
<1>12. CASE BeginTxn
  BY <1>12, BeginLog
<1>13. CASE CommitTxn
  BY <1>13, CommitLog
<1>14. CASE CommitFlush
  BY <1>14, CommitFlushLog
<1>15. CASE AbortTxn
  BY <1>15, AbortLog
<1>16. CASE FlushLog
  BY <1>16, FlushLogLog
<1>17. CASE CheckpointRecord
  BY <1>17, CheckpointRecordLog
<1>18. CASE UNCHANGED vars
  BY <1>18 DEF vars, disk, pool, txn, history, LogInv, UsedInv, CurrentInv, AckedInv, ImageInv,
               Full, Txn, Process
<1> QED
  BY <1>1, <1>2, <1>3, <1>4, <1>5, <1>6, <1>7, <1>9, <1>10, <1>11, <1>12, <1>13, <1>14, <1>15,
     <1>16, <1>17, <1>18 DEF Next

LEMMA InitLog == Init => LogInv
<1> SUFFICES ASSUME Init PROVE LogInv
  OBVIOUS
<1>1. Full = <<>>
  BY DEF Init, Full
<1> QED BY <1>1 DEF Init, LogInv, UsedInv, CurrentInv, AckedInv, ImageInv, Ordered

LEMMA IInvInductive == IInv /\ [Next]_vars => IInv'
<1> SUFFICES ASSUME IInv, [Next]_vars
             PROVE  IInv'
  OBVIOUS
<1>1. SInv /\ (~logFailed => LogInv)
  BY DEF IInv, SInv
<1>2. SInv'
  BY <1>1, StepSafe
<1>3. ~logFailed' => LogInv'
  BY <1>1, FailureStays, StepLog
<1> QED BY <1>2, <1>3 DEF IInv, SInv

(* The analysis finds what is finished committed: its begin comes first,   *)
(* its commit last, and there is a place for it in the table.              *)
LEMMA FinishedIsCommitted ==
  ASSUME SInv, IdsOnce, TableHasRoom, NEW t \in Txns, t[1] > 0, NEW images,
         Finished(Full, t, images, Len(log))
  PROVE  Committed(Len(log), t[1])
<1> DEFINE n == Len(log)
           id == t[1]
<1>1. /\ log \in Seq(Parts) /\ n \in Nat /\ DOMAIN log = 1 .. n
      /\ \A i \in DOMAIN log : i \in DOMAIN Full /\ Full[i] = log[i]
  BY FullTypes
<1>2. PICK b \in 1 .. n, k \in 1 .. n :
        /\ b < k
        /\ Full[b].kind = "begin" /\ Full[b].txn = t
        /\ Full[k].kind = "commit" /\ Full[k].txn = t
        /\ \A i \in DOMAIN Full : Full[i].txn = t =>
             b <= i /\ i <= k /\ (i = b \/ i = k \/ Full[i].kind \in {"page", "image"})
  BY DEF Finished
<1>3. /\ log[b].kind = "begin" /\ log[b].txn = t /\ log[k].kind = "commit" /\ log[k].txn = t
      /\ \A i \in DOMAIN log : log[i].txn = t => b <= i /\ i <= k
  BY <1>1, <1>2
<1>4. \A i \in DOMAIN log : log[i].txn[1] = id => log[i].txn = t
  <2>1. id # 0
    BY DEF Txns
  <2> QED BY <1>1, <1>3, <2>1 DEF IdsOnce
<1>5. id \notin Begun(b - 1) /\ id \in Begun(n) /\ Begun(b - 1) \subseteq Begun(n)
  <2>1. id \notin Begun(b - 1)
    <3> SUFFICES ASSUME NEW i \in 1 .. b - 1, log[i].kind = "begin", log[i].txn[1] = id
                 PROVE  FALSE
      BY DEF Begun
    <3>1. i \in DOMAIN log
      BY <1>1
    <3> QED BY <1>3, <1>4, <3>1
  <2>2. id \in Begun(n)
    BY <1>3 DEF Begun
  <2>3. 1 .. b - 1 \subseteq 1 .. n
    BY <1>1
  <2> QED BY <2>1, <2>2, <2>3 DEF Begun
<1>6. Cardinality(Begun(b - 1)) < TableSize
  <2>1. IsFiniteSet(Begun(n))
    <3> DEFINE I == {j \in 1 .. n : log[j].kind = "begin"}
    <3>1. IsFiniteSet(1 .. n)
      <4>1. 1 \in Int /\ n \in Int
        BY <1>1
      <4> HIDE DEF n
      <4> QED BY <4>1, FS_Interval
    <3>2. IsFiniteSet(I)
      BY <3>1, FS_Subset
    <3> DEFINE id_of == [j \in I |-> log[j].txn[1]]
    <3>3. Begun(n) = {log[j].txn[1] : j \in I}
      BY DEF Begun
    <3>4. id_of \in Surjection(I, Begun(n))
      BY <3>3 DEF Surjection
    <3> QED BY <3>2, <3>4, FS_Surjection
  <2>2. Cardinality(Begun(b - 1)) < Cardinality(Begun(n))
    <3>1. Begun(b - 1) # Begun(n)
      BY <1>5
    <3>2. /\ Cardinality(Begun(b - 1)) <= Cardinality(Begun(n))
          /\ Cardinality(Begun(n)) # Cardinality(Begun(b - 1))
      BY <1>5, <2>1, <3>1, FS_Subset
    <3>3. Cardinality(Begun(b - 1)) \in Nat /\ Cardinality(Begun(n)) \in Nat
      BY <1>5, <2>1, FS_Subset, FS_CardinalityType
    <3> QED BY <3>2, <3>3
  <2>3. Cardinality(Begun(n)) <= TableSize
    BY DEF TableHasRoom
  <2>4. Cardinality(Begun(b - 1)) \in Nat /\ Cardinality(Begun(n)) \in Nat
    <3>1. IsFiniteSet(Begun(b - 1))
      BY <1>5, <2>1, FS_Subset
    <3> QED BY <2>1, <3>1, FS_CardinalityType
  <2>5. TableSize \in Nat
    BY SizesAssumption DEF SizesAssumption
  <2> QED BY <2>2, <2>3, <2>4, <2>5
<1>7. Tracked(k, id)
  <2>1. b \in 1 .. k /\ IsOf(log[b], {"begin"}, id)
    BY <1>3 DEF IsOf
  <2> QED BY <2>1, <1>5, <1>6 DEF Tracked
<1>8. IsOf(log[k], {"commit"}, id)
  BY <1>3 DEF IsOf
<1>9. ASSUME NEW j \in k + 1 .. n
      PROVE  ~IsOf(log[j], {"begin", "commit", "abort"}, id)
  <2>1. j \in DOMAIN log /\ ~(j <= k)
    BY <1>1
  <2>2. log[j].txn[1] # id
    BY <1>3, <1>4, <2>1
  <2> QED BY <2>2 DEF IsOf
<1> QED BY <1>7, <1>8, <1>9 DEF Committed

(* Once a commit has returned, recovery redoes exactly the images that the *)
(* transaction logged, in the order of the writes, whatever crashes and    *)
(* other processes did in between, if no id was given twice, no write of   *)
(* the log failed, no record is torn and the analysis has a place for all. *)
THEOREM CommittedAreRedone == Spec => []AckedAreRedone
<1>1. IInv => AckedAreRedone
  <2> SUFFICES ASSUME SInv, LogInv, IdsOnce, ~Torn, TableHasRoom
               PROVE  /\ \A a \in acked : Images(a.txn) = a.images
                      /\ \A i, j \in Redoable : i < j => log[i].data < log[j].data
    BY DEF IInv, SInv, AckedAreRedone
  <2>1. /\ log \in Seq(Parts) /\ Len(log) \in Nat /\ DOMAIN log = 1 .. Len(log)
        /\ \A i \in DOMAIN log : i \in DOMAIN Full /\ Full[i] = log[i]
    BY FullTypes
  <2>2. Readable = Len(log)
    BY DEF Readable
  <2>3. Redoable = {i \in DOMAIN log : log[i].kind = "image" /\ Committed(Len(log), log[i].txn[1])}
    BY <2>1, <2>2 DEF Redoable
  <2>4. ASSUME NEW a \in acked
        PROVE  Images(a.txn) = a.images
    <3>1. a.txn \in Txns /\ a.txn[1] > 0 /\ Finished(Full, a.txn, a.images, Len(log))
      BY DEF SInv, TypeOK, LogInv, AckedInv
    <3>2. Committed(Len(log), a.txn[1])
      BY <3>1, FinishedIsCommitted
    <3>3. \A i \in DOMAIN Full : Full[i].txn = a.txn => i \in DOMAIN log
      BY <2>1, <3>1, FullTypes DEF Finished
    <3>4. {j \in Redoable : log[j].txn = a.txn}
            = {j \in DOMAIN Full : Full[j].kind = "image" /\ Full[j].txn = a.txn}
      BY <2>1, <2>3, <3>2, <3>3
    <3>5. Images(a.txn) = Written(Full, a.txn)
      BY <2>1, <2>3, <3>4 DEF Images, Written
    <3>6. Written(Full, a.txn) = a.images
      BY <3>1 DEF Finished
    <3> QED BY <3>5, <3>6
  <2>5. ASSUME NEW i \in Redoable, NEW j \in Redoable, i < j
        PROVE  log[i].data < log[j].data
    BY <2>1, <2>3, <2>5 DEF LogInv, Ordered
  <2> QED BY <2>4, <2>5
<1>2. Init => IInv
  BY InitSafe, InitLog DEF IInv, SInv
<1> QED BY <1>1, <1>2, IInvInductive, PTL DEF Spec

=============================================================================
