-------------------------- MODULE TaskServerProofs --------------------------
(***************************************************************************)
(* Theorems about TaskServer for every number of slots, queue entries,     *)
(* descriptors and connections: type correctness, that no task waits for   *)
(* nothing, that active_count counts the connections, that the TLS state   *)
(* of a slot lives as long as its connection, and, without the modes in    *)
(* which the code gets them wrong, that no slot is recycled under an       *)
(* operation, that buffers and descriptors are their connection's own, and *)
(* that the server goes on accepting.                                      *)
(***************************************************************************)
EXTENDS TaskServer, FiniteSetTheorems, TLAPS

-----------------------------------------------------------------------------
(* The inductive invariant.                                                *)

(* Neither mode that leaves an operation behind: a SEND_ZC has two         *)
(* completions, a TLS connection ends with a send nobody waits for.        *)
Clean == ~UseSendZc /\ ~Tls

(* No task has had the idle timer's number for its id.                     *)
Early == next_id <= TimeoutUd

Tidy == Clean /\ Early

(* The operations that are under way at most once: a task's while all is   *)
(* tidy, and an accept that is not multishot.                              *)
Single(ud) == IF ud = 0 THEN ~Multishot ELSE Tidy

Waiting(ud) == \E t \in Task : tasks[t].id = ud /\ tasks[t].state = "WAITING"

(* Only accepts have no task; descriptors and connections are where they   *)
(* belong.                                                                 *)
WellFormed ==
  /\ \A i \in 1 .. Len(sq) :
       /\ sq[i].op = "accept" <=> sq[i].ud = 0
       /\ sq[i].op = "send_zc" => UseSendZc
       /\ sq[i].on \in Fd \cup {0}
  /\ \A o \in inflight :
       /\ o.op = "accept" <=> o.ud = 0
       /\ o.op = "send_zc" => UseSendZc
       /\ o.on \in Conn
  /\ \A i \in 1 .. Len(cq) : cq[i].ud = 0 /\ cq[i].res > 0 => cq[i].res \in Fd

(* The ids that operations carry have been given out.                      *)
Numbered ==
  /\ \A i \in 1 .. Len(sq) : sq[i].ud \in 0 .. next_id - 1
  /\ \A o \in inflight : o.ud \in 0 .. next_id - 1
  /\ \A i \in 1 .. Len(cq) : cq[i].ud \in 0 .. next_id - 1

(* Live tasks have ids of their own, given out before, and a descriptor.   *)
Ids ==
  /\ \A t \in Task : tasks[t].state # "IDLE" =>
       tasks[t].id # 0 /\ tasks[t].id < next_id /\ tasks[t].fd \in Fd
  /\ \A t, u \in Task :
       /\ tasks[t].state # "IDLE" /\ tasks[u].state # "IDLE"
       /\ tasks[t].id = tasks[u].id
       => t = u

(* Operations belong to waiting tasks.                                     *)
Owned ==
  Tidy =>
    /\ \A i \in 1 .. Len(sq) : sq[i].ud # 0 => Waiting(sq[i].ud)
    /\ \A o \in inflight : o.ud # 0 => Waiting(o.ud)
    /\ \A i \in 1 .. Len(cq) : cq[i].ud # 0 => Waiting(cq[i].ud)

(* An operation is in one place, once.                                     *)
Once ==
  /\ \A i, j \in 1 .. Len(sq) : Single(sq[i].ud) /\ sq[i].ud = sq[j].ud => i = j
  /\ \A o, p \in inflight : Single(o.ud) /\ o.ud = p.ud => o = p
  /\ \A i, j \in 1 .. Len(cq) : Single(cq[i].ud) /\ cq[i].ud = cq[j].ud => i = j
  /\ \A i \in 1 .. Len(sq), o \in inflight : Single(o.ud) => sq[i].ud # o.ud
  /\ \A i \in 1 .. Len(sq), j \in 1 .. Len(cq) : Single(cq[j].ud) => sq[i].ud # cq[j].ud
  /\ \A o \in inflight, j \in 1 .. Len(cq) : Single(cq[j].ud) => o.ud # cq[j].ud

(* While completions are reaped only accepts are queued, so that there is  *)
(* room for one.                                                           *)
Reaping == phase = "reap" => \A i \in 1 .. Len(sq) : sq[i].ud = 0

Under(ud) ==
  \/ \E i \in 1 .. Len(sq) : sq[i].ud = ud
  \/ \E o \in inflight : o.ud = ud
  \/ \E i \in 1 .. Len(cq) : cq[i].ud = ud

(* What waits has an operation under way, and so has the accept.           *)
Awake ==
  /\ Early => \A t \in Task : tasks[t].state = "WAITING" => Under(tasks[t].id)
  /\ ~Multishot => Under(0)

(* With TypeOK, the inductive invariant.                                   *)
Rest == WellFormed /\ Numbered /\ Ids /\ Owned /\ Once /\ Reaping /\ Awake

-----------------------------------------------------------------------------
(* Sequences.                                                              *)

LEMMA Appended ==
  ASSUME NEW S, NEW s \in Seq(S), NEW e \in S
  PROVE  /\ Append(s, e) \in Seq(S)
         /\ Len(Append(s, e)) = Len(s) + 1
         /\ \A i \in 1 .. Len(s) : Append(s, e)[i] = s[i]
         /\ Append(s, e)[Len(s) + 1] = e
  OBVIOUS

LEMMA Tailed ==
  ASSUME NEW S, NEW s \in Seq(S), s # <<>>
  PROVE  /\ Head(s) = s[1] /\ Head(s) \in S
         /\ Len(s) \in Nat \ {0} /\ 1 \in 1 .. Len(s)
         /\ Tail(s) \in Seq(S)
         /\ Len(Tail(s)) = Len(s) - 1
         /\ \A i \in 1 .. Len(s) - 1 : Tail(s)[i] = s[i + 1] /\ i + 1 \in 1 .. Len(s)
  OBVIOUS

-----------------------------------------------------------------------------
(* The types of parts of the state.                                        *)

LEMMA Types ==
  /\ TypeOK => \A t \in Task :
       /\ tasks[t] \in TaskRecord /\ tasks[t].id \in Nat /\ tasks[t].io_result \in Int
       /\ tasks[t].keep \in BOOLEAN
       /\ big[t] \in BigBuf /\ big[t].left \in Nat
  /\ 0 \in Conn /\ 0 \in Task
  /\ NoBig \in BigBuf
  /\ AcceptOp \in Op
  /\ Conn \subseteq Nat /\ Fd \subseteq Nat \ {0}
<1>1. 0 \in Conn /\ 0 \in Task /\ Conn \subseteq Nat /\ Fd \subseteq Nat \ {0}
  BY SizesAssumption DEF Conn, Task, Fd
<1>2. NoBig \in BigBuf
  BY <1>1 DEF NoBig, BigBuf
<1>3. AcceptOp \in Op
  BY <1>1 DEF AcceptOp, Op
<1>4. TypeOK => \A t \in Task :
        /\ tasks[t] \in TaskRecord /\ tasks[t].id \in Nat /\ tasks[t].io_result \in Int
        /\ tasks[t].keep \in BOOLEAN
        /\ big[t] \in BigBuf /\ big[t].left \in Nat
  <2>1. SUFFICES ASSUME TypeOK, NEW t \in Task
                 PROVE  /\ tasks[t] \in TaskRecord /\ tasks[t].id \in Nat
                        /\ tasks[t].io_result \in Int /\ tasks[t].keep \in BOOLEAN
                        /\ big[t] \in BigBuf /\ big[t].left \in Nat
    OBVIOUS
  <2>2. tasks[t] \in TaskRecord /\ big[t] \in BigBuf
    BY <2>1 DEF TypeOK
  <2> QED BY <2>2 DEF TaskRecord, BigBuf
<1> QED BY <1>1, <1>2, <1>3, <1>4

-----------------------------------------------------------------------------
(* What a handler's step amounts to.                                       *)

TaskOps == {"recv", "recv_buf", "send", "send_buf", "send_zc", "nop"}

(* An operation is armed...                                                *)
Armed(t) ==
  \E hs \in HandlerStates, keep \in BOOLEAN, op \in TaskOps, len \in Nat :
    (op = "send_zc" => UseSendZc) /\ Pend(t, hs, keep, op, len)

(* ...or the slot freed, in TLS mode with an alert queued.                 *)
Freed(t) ==
  /\ Complete(t)
  /\ sq' = sq \/ (Tls /\ Queue(t, "send", Full))

LEMMA PendIsArmed ==
  ASSUME NEW t \in Task, NEW hs \in HandlerStates, NEW keep \in BOOLEAN,
         NEW op \in TaskOps, NEW len \in Nat,
         op = "send_zc" => UseSendZc, Pend(t, hs, keep, op, len)
  PROVE  Armed(t)
  BY DEF Armed

LEMMA HandlerStep ==
  ASSUME TypeOK, WellFormed, Ids, NEW t \in Task, HttpHandler(t) \/ TlsHandler(t)
  PROVE  /\ phase = "poll" /\ tasks[t].state = "READY"
         /\ UNCHANGED <<next_id, phase, inflight, cq, accepted, read_buf>>
         /\ Armed(t) \/ Freed(t)
<1> USE DEF Handled, Plain, Polled
<1>k. tasks[t].keep \in BOOLEAN
  BY Types
<1>1. ASSUME NEW hs \in HandlerStates, NEW keep \in BOOLEAN, NEW op \in TaskOps,
             NEW len \in Nat, op = "send_zc" => UseSendZc,
             PendOrDone(t, hs, keep, op, len)
      PROVE  Armed(t) \/ Freed(t)
  BY <1>1, PendIsArmed DEF PendOrDone, Done, Freed
<1>2. ASSUME NEW hs \in HandlerStates, NEW keep \in BOOLEAN, NEW op \in TaskOps,
             NEW len \in Nat, op = "send_zc" => UseSendZc,
             TlsPend(t, hs, keep, op, len)
      PROVE  Armed(t) \/ Freed(t)
  BY <1>2, PendIsArmed DEF TlsPend, TlsEnd, Done, Freed
<1>3. ASSUME NEW keep \in BOOLEAN, Reply(t, keep) PROVE Armed(t) \/ Freed(t)
  BY <1>1, <1>3 DEF Reply, SendOp, Full, HandlerStates, TaskOps
<1>4. ASSUME NEW keep \in BOOLEAN, NextRequest(t, keep) PROVE Armed(t) \/ Freed(t)
  BY <1>1, <1>4 DEF NextRequest, Done, Freed, HandlerStates, TaskOps
<1>5. CASE RecvFresh(t)
  BY <1>1, <1>5 DEF RecvFresh, HandlerStates, TaskOps
<1>6. CASE RecvEnd(t) \/ SendEnd(t)
  BY <1>6 DEF RecvEnd, SendEnd, Done, Freed
<1>7. CASE RecvBody(t)
  <2>1. big[t].left \in Nat /\ Result(t) \in Nat
    BY <1>7, Types DEF RecvBody, Full
  <2> DEFINE left == IF big[t].mode = "RECV" THEN big[t].left - Result(t) ELSE Full
  <2>2. left > 0 /\ left \in Int
    BY <1>7, <2>1, SMT DEF RecvBody, Full
  <2>3. Pend(t, "RECV", tasks[t].keep, "recv_buf", left) \/ Done(t)
    BY <1>7 DEF RecvBody
  <2> HIDE DEF left
  <2>4. left \in Nat
    BY <2>2
  <2> QED BY <1>7, <1>k, <2>3, <2>4, PendIsArmed DEF RecvBody, Done, Freed, HandlerStates, TaskOps
<1>8. CASE ParseReply(t)
  BY <1>3, <1>8 DEF ParseReply, Parsed
<1>9. CASE ParseServed(t)
  BY <1>4, <1>9 DEF ParseServed, Parsed
<1>10. CASE ParseProxied(t)
  BY <1>1, <1>10 DEF ParseProxied, Parsed, HandlerStates, TaskOps
<1>11. CASE ProxyMiss(t)
  BY <1>1, <1>11, <1>k DEF ProxyMiss, HandlerStates, TaskOps
<1>12. CASE ProxyReply(t)
  BY <1>3, <1>12, <1>k DEF ProxyReply
<1>13. CASE ProxyReplyBig(t)
  BY <1>13, <1>k, PendIsArmed DEF ProxyReplyBig, Done, Freed, Full, HandlerStates, TaskOps
<1>14. CASE SendMore(t)
  <2>1. big[t].left \in Nat /\ Result(t) \in Int
    BY Types DEF Result
  <2> DEFINE left == big[t].left - Result(t)
  <2>2. left \in Nat
    BY <1>14, <2>1, SMT DEF SendMore
  <2>3. Pend(t, "SEND", tasks[t].keep, "send_buf", left) \/ Done(t)
    BY <1>14 DEF SendMore
  <2> HIDE DEF left
  <2> QED BY <1>14, <1>k, <2>2, <2>3, PendIsArmed DEF SendMore, Done, Freed, HandlerStates, TaskOps
<1>15. CASE SendDone(t)
  BY <1>4, <1>15, <1>k DEF SendDone
<1>16. CASE TlsInit(t)
  BY <1>2, <1>16 DEF TlsInit, TlsEnd, Done, Freed, HandlerStates, TaskOps
<1>17. CASE TlsRecvEnd(t)
  BY <1>17 DEF TlsRecvEnd, TlsEnd, Done, Freed
<1>18. CASE TlsFlight(t)
  BY <1>2, <1>18 DEF TlsFlight, Full, HandlerStates, TaskOps
<1>19. CASE TlsNeedInput(t)
  BY <1>2, <1>19 DEF TlsNeedInput, HandlerStates, TaskOps
<1>20. CASE TlsFlightSent(t)
  BY <1>2, <1>20 DEF TlsFlightSent, TlsEnd, Done, Freed, HandlerStates, TaskOps
<1>21. CASE TlsReply(t)
  BY <1>2, <1>21 DEF TlsReply, Full, HandlerStates, TaskOps
<1>22. CASE TlsSendDone(t)
  BY <1>2, <1>22 DEF TlsSendDone, TlsEnd, Done, Freed, HandlerStates, TaskOps
<1> QED
  BY <1>5, <1>6, <1>7, <1>8, <1>9, <1>10, <1>11, <1>12, <1>13, <1>14, <1>15,
     <1>16, <1>17, <1>18, <1>19, <1>20, <1>21, <1>22
  DEF HttpHandler, TlsHandler

-----------------------------------------------------------------------------
(* The invariant's parts, but for the types, under a handler's step.       *)

(* A READY task's operations have all been reaped.                         *)
LEMMA ReadyHasNoOp ==
  ASSUME TypeOK, Ids, Owned, Tidy,
         NEW t \in Task, tasks[t].state = "READY"
  PROVE  ~Under(tasks[t].id)
  BY DEF Ids, Owned, Under, Waiting

LEMMA ArmedRest ==
  ASSUME TypeOK, Rest, NEW t \in Task, tasks[t].state = "READY", phase = "poll", Armed(t),
         UNCHANGED <<next_id, phase, inflight, cq>>
  PROVE  Rest'
<1>1. PICK hs \in HandlerStates, keep \in BOOLEAN, op \in TaskOps, len \in Nat :
        (op = "send_zc" => UseSendZc) /\ Pend(t, hs, keep, op, len)
  BY DEF Armed
<1> DEFINE e == [ud |-> tasks[t].id, op |-> op, slot |-> t, on |-> tasks[t].fd, len |-> len]
           n == Len(sq)
<1>2. tasks[t].id # 0 /\ tasks[t].id \in Nat /\ tasks[t].fd \in Fd
  BY Types DEF Rest, Ids
<1>3. sq \in Seq(Op) /\ e \in Op /\ n \in Nat /\ sq' = Append(sq, e)
  BY <1>1, <1>2 DEF TypeOK, Op, TaskOps, Pend, Queue, Fd
<1>4. /\ Len(sq') = n + 1 /\ sq'[n + 1] = e
      /\ \A i \in 1 .. n : sq'[i] = sq[i]
  BY <1>3, Appended
<1>5. /\ e.ud = tasks[t].id /\ e.op = op /\ e.on = tasks[t].fd /\ op # "accept"
  BY DEF TaskOps
<1>6. tasks' = [tasks EXCEPT ![t] =
         [@ EXCEPT !.state = "WAITING", !.handler_state = hs, !.keep = keep]]
  BY <1>1 DEF Pend
<1>7. /\ tasks'[t].state = "WAITING" /\ tasks'[t].id = tasks[t].id
      /\ tasks'[t].fd = tasks[t].fd
      /\ \A u \in Task \ {t} : tasks'[u] = tasks[u]
  BY <1>6 DEF TypeOK
<1>8. \A i \in 1 .. n + 1 : i = n + 1 \/ i \in 1 .. n
  BY <1>3
<1>9. Tidy => /\ \A i \in 1 .. n : sq[i].ud # e.ud
              /\ \A o \in inflight : o.ud # e.ud
              /\ \A i \in 1 .. Len(cq) : cq[i].ud # e.ud
  BY <1>5, ReadyHasNoOp DEF Rest, Under
<1> HIDE DEF e, n
<1>10. WellFormed'
  BY <1>1, <1>2, <1>4, <1>5, <1>8 DEF Rest, WellFormed, n
<1>n. Numbered'
  <2>1. e.ud \in 0 .. next_id - 1
    BY <1>2, <1>5, SMT DEF Rest, Ids, TypeOK
  <2> QED BY <1>4, <1>8, <2>1 DEF Rest, Numbered, n
<1>11. Ids'
  <2>1. \A u \in Task : tasks'[u].state # "IDLE" =>
          tasks[u].state # "IDLE" /\ tasks'[u].id = tasks[u].id /\ tasks'[u].fd = tasks[u].fd
    BY <1>7
  <2> QED BY <2>1 DEF Rest, Ids
<1>12. Owned'
  <2>1. \A ud : Waiting(ud) => Waiting(ud)'
    BY <1>7 DEF Waiting
  <2>2. PICK id : id = tasks[t].id
    OBVIOUS
  <2>3. Waiting(id)'
    BY <1>7, <2>2 DEF Waiting
  <2>4. Tidy' <=> Tidy
    BY DEF Tidy, Clean, Early
  <2> QED BY <1>4, <1>5, <1>8, <2>1, <2>2, <2>3, <2>4 DEF Rest, Owned, n
<1>13. Once'
  <2>1. \A ud : Single(ud)' <=> Single(ud)
    BY DEF Single, Tidy, Clean, Early
  <2>2. Single(e.ud) => Tidy
    BY <1>2, <1>5 DEF Single
  <2>3. \A ud : ud = e.ud /\ Single(ud) => Single(e.ud)
    OBVIOUS
  <2>4. \A i, j \in 1 .. Len(sq') :
          Single(sq'[i].ud) /\ sq'[i].ud = sq'[j].ud => i = j
    BY <1>3, <1>4, <1>8, <1>9, <2>2, <2>3 DEF Rest, Once, n
  <2>5. \A i \in 1 .. Len(sq'), o \in inflight : Single(o.ud) => sq'[i].ud # o.ud
    <3>1. ASSUME NEW o \in inflight, Single(o.ud), o.ud = e.ud PROVE FALSE
      <4>1. Tidy
        BY <2>2, <2>3, <3>1
      <4> QED BY <1>9, <3>1, <4>1
    <3> QED BY <1>3, <1>4, <1>8, <3>1 DEF Rest, Once, n
  <2>6. \A i \in 1 .. Len(sq'), j \in 1 .. Len(cq) :
          Single(cq[j].ud) => sq'[i].ud # cq[j].ud
    <3>1. ASSUME NEW j \in 1 .. Len(cq), Single(cq[j].ud), cq[j].ud = e.ud PROVE FALSE
      <4>1. Tidy
        BY <2>2, <2>3, <3>1
      <4> QED BY <1>9, <3>1, <4>1
    <3> QED BY <1>3, <1>4, <1>8, <3>1 DEF Rest, Once, n
  <2> QED BY <2>1, <2>4, <2>5, <2>6 DEF Rest, Once
<1>14. Reaping'
  BY DEF Reaping
<1>15. Awake'
  <2>1. \A ud : Under(ud) => Under(ud)'
    BY <1>3, <1>4 DEF Under, n
  <2>2. PICK id : id = tasks[t].id
    OBVIOUS
  <2>3. Under(id)'
    BY <1>3, <1>4, <1>5, <2>2 DEF Under
  <2> QED BY <1>7, <2>1, <2>2, <2>3 DEF Rest, Awake, Early
<1> QED BY <1>10, <1>n, <1>11, <1>12, <1>13, <1>14, <1>15 DEF Rest

LEMMA FreedRest ==
  ASSUME TypeOK, Rest, NEW t \in Task, tasks[t].state = "READY", phase = "poll", Freed(t),
         UNCHANGED <<next_id, phase, inflight, cq>>
  PROVE  Rest'
<1> DEFINE e == [ud |-> tasks[t].id, op |-> "send", slot |-> t, on |-> tasks[t].fd, len |-> Full]
           n == Len(sq)
<1>1. tasks[t].id # 0 /\ tasks[t].id \in Nat /\ tasks[t].fd \in Fd
  BY Types DEF Rest, Ids
<1>2. sq' = sq \/ (~Tidy /\ sq' = Append(sq, e))
  BY DEF Freed, Queue, Tidy, Clean
<1>3. sq \in Seq(Op) /\ e \in Op /\ n \in Nat
  BY <1>1 DEF TypeOK, Op, Fd, Full
<1>4. /\ Len(sq') \in {n, n + 1}
      /\ Len(sq') = n + 1 => ~Tidy /\ sq'[n + 1] = e
      /\ \A i \in 1 .. n : sq'[i] = sq[i]
  BY <1>2, <1>3, Appended
<1>5. e.ud = tasks[t].id /\ e.op = "send" /\ e.on = tasks[t].fd
  OBVIOUS
<1>6. tasks' = [tasks EXCEPT ![t] = [@ EXCEPT !.id = 0, !.state = "IDLE", !.fd = 0]]
  BY DEF Freed, Complete
<1>7. /\ tasks'[t].state = "IDLE"
      /\ \A u \in Task \ {t} : tasks'[u] = tasks[u]
  BY <1>6 DEF TypeOK
<1>8. \A i \in 1 .. Len(sq') : i \in 1 .. n \/ (i = n + 1 /\ Len(sq') = n + 1)
  BY <1>3, <1>4
<1> HIDE DEF e, n
<1>9. WellFormed'
  BY <1>1, <1>4, <1>5, <1>8 DEF Rest, WellFormed, n
<1>n. Numbered'
  <2>1. e.ud \in 0 .. next_id - 1
    BY <1>1, <1>5, SMT DEF Rest, Ids, TypeOK
  <2> QED BY <1>4, <1>8, <2>1 DEF Rest, Numbered, n
<1>10. Ids'
  BY <1>7 DEF Rest, Ids
<1>11. Owned'
  <2>1. Tidy => \A ud : Waiting(ud) => Waiting(ud)'
    BY <1>7 DEF Waiting
  <2>2. Tidy' <=> Tidy
    BY DEF Tidy, Clean, Early
  <2> QED BY <1>4, <1>8, <2>1, <2>2 DEF Rest, Owned, n
<1>12. Once'
  <2>1. \A ud : Single(ud)' <=> Single(ud)
    BY DEF Single, Tidy, Clean, Early
  <2>2. Single(e.ud) => Tidy
    BY <1>1, <1>5 DEF Single
  <2>3. \A ud : ud = e.ud /\ Single(ud) => Single(e.ud)
    OBVIOUS
  <2>4. CASE Len(sq') = n
    <3>1. \A i \in 1 .. Len(sq') : i \in 1 .. Len(sq) /\ sq'[i] = sq[i]
      BY <1>3, <1>4, <2>4 DEF n
    <3>2. \A i, j \in 1 .. Len(sq') :
            Single(sq'[i].ud) /\ sq'[i].ud = sq'[j].ud => i = j
      BY <3>1 DEF Rest, Once
    <3>3. \A i \in 1 .. Len(sq'), o \in inflight : Single(o.ud) => sq'[i].ud # o.ud
      BY <3>1 DEF Rest, Once
    <3>4. \A i \in 1 .. Len(sq'), j \in 1 .. Len(cq) :
            Single(cq[j].ud) => sq'[i].ud # cq[j].ud
      BY <3>1 DEF Rest, Once
    <3> QED BY <2>1, <3>2, <3>3, <3>4 DEF Rest, Once
  <2>5. CASE Len(sq') = n + 1
    <3>1. ~Single(e.ud) /\ sq'[n + 1] = e
      BY <1>3, <1>4, <2>2, <2>5
    <3>2. \A i \in 1 .. Len(sq') : Single(sq'[i].ud) =>
            i \in 1 .. Len(sq) /\ sq'[i] = sq[i]
      BY <1>3, <1>4, <1>8, <2>5, <3>1 DEF n
    <3>3. \A i, j \in 1 .. Len(sq') :
            Single(sq'[i].ud) /\ sq'[i].ud = sq'[j].ud => i = j
      <4>1. SUFFICES ASSUME NEW i \in 1 .. Len(sq'), NEW j \in 1 .. Len(sq'),
                            Single(sq'[i].ud), sq'[i].ud = sq'[j].ud
                     PROVE  i = j
        OBVIOUS
      <4> QED BY <4>1, <3>2 DEF Rest, Once
    <3>4. \A i \in 1 .. Len(sq'), o \in inflight : Single(o.ud) => sq'[i].ud # o.ud
      BY <3>2 DEF Rest, Once
    <3>5. \A i \in 1 .. Len(sq'), j \in 1 .. Len(cq) :
            Single(cq[j].ud) => sq'[i].ud # cq[j].ud
      BY <3>2 DEF Rest, Once
    <3> QED BY <2>1, <3>3, <3>4, <3>5 DEF Rest, Once
  <2> QED BY <1>4, <2>4, <2>5
<1>13. Reaping'
  BY DEF Reaping
<1>14. Awake'
  <2>1. \A ud : Under(ud) => Under(ud)'
    BY <1>3, <1>4 DEF Under, n
  <2> QED BY <1>7, <2>1 DEF Rest, Awake, Early
<1> QED BY <1>9, <1>n, <1>10, <1>11, <1>12, <1>13, <1>14 DEF Rest

-----------------------------------------------------------------------------
(* The kernel takes an SQE.                                                *)

LEMMA SubmitRest ==
  ASSUME TypeOK, Rest, Submit
  PROVE  Rest'
<1> DEFINE h == sq[1]
           n == Len(sq) - 1
           on == IF h.on = 0 THEN 0 ELSE sock[h.on]
           o == [h EXCEPT !.on = on]
           c == [ud |-> h.ud, res |-> -1, more |-> FALSE]
<1>1. /\ h = Head(sq) /\ h \in Op /\ sq' = Tail(sq) /\ Len(sq') = n
      /\ n \in Nat /\ Len(sq) = n + 1 /\ 1 \in 1 .. n + 1
      /\ \A i \in 1 .. n : sq'[i] = sq[i + 1] /\ i + 1 \in 1 .. n + 1
  BY Tailed DEF Submit, TypeOK
<1>2. phase = "enter" /\ UNCHANGED <<tasks, next_id, phase>>
  BY DEF Submit
<1>3. /\ h.op = "accept" <=> h.ud = 0
      /\ h.op = "send_zc" => UseSendZc
      /\ h.on \in Fd \cup {0}
  BY <1>1 DEF Rest, WellFormed
<1>4. on \in Conn
  BY <1>3, SizesAssumption DEF TypeOK, Conn
<1>5. o.ud = h.ud /\ o.op = h.op /\ o.on = on
  BY <1>1 DEF Op
<1>6. \/ /\ h.op \notin {"accept", "nop"} /\ cq' = Append(cq, c) /\ inflight' = inflight
      \/ /\ cq' = cq /\ inflight' = inflight \cup {o}
  BY <1>1 DEF Submit
<1>7. c.ud = h.ud /\ c.res = -1
  OBVIOUS
<1>8. CASE /\ h.op \notin {"accept", "nop"} /\ cq' = Append(cq, c) /\ inflight' = inflight
  <2> DEFINE m == Len(cq)
  <2>1. /\ m \in Nat /\ Len(cq') = m + 1 /\ cq'[m + 1] = c
        /\ \A i \in 1 .. m : cq'[i] = cq[i]
    <3>1. cq \in Seq(Completion) /\ c \in Completion
      BY <1>1 DEF TypeOK, Op, Completion
    <3> QED BY <1>8, <3>1, Appended
  <2>2. \A i \in 1 .. m + 1 : i = m + 1 \/ i \in 1 .. m
    BY <2>1
  <2> HIDE DEF h, n, on, o, c, m
  <2>3. WellFormed'
    BY <1>1, <1>2, <1>3, <1>7, <1>8, <2>1, <2>2 DEF Rest, WellFormed, m
  <2>n. Numbered'
    <3>1. h.ud \in 0 .. next_id - 1
      BY <1>1 DEF Rest, Numbered, h
    <3> QED BY <1>1, <1>2, <1>7, <1>8, <2>1, <2>2, <3>1 DEF Rest, Numbered, m
  <2>4. Owned'
    <3>1. \A ud : Waiting(ud)' <=> Waiting(ud)
      BY <1>2 DEF Waiting
    <3>2. Tidy => (h.ud # 0 => Waiting(h.ud))
      BY <1>1 DEF Rest, Owned, h
    <3>3. Tidy' <=> Tidy
      BY <1>2 DEF Tidy, Clean, Early
    <3> QED BY <1>1, <1>7, <1>8, <2>1, <2>2, <3>1, <3>2, <3>3 DEF Rest, Owned, m
  <2>5. Once'
    <3>1. \A ud : Single(ud)' <=> Single(ud)
      BY <1>2 DEF Single, Tidy, Clean, Early
    <3>2. Single(h.ud) => /\ \A i \in 1 .. n : sq'[i].ud # h.ud
                          /\ \A p \in inflight : p.ud # h.ud
                          /\ \A i \in 1 .. m : cq[i].ud # h.ud
      BY <1>1 DEF Rest, Once, h, m
    <3>3. \A ud : ud = h.ud /\ Single(ud) => Single(h.ud)
      OBVIOUS
    <3>4. \A i, j \in 1 .. Len(sq') :
            Single(sq'[i].ud) /\ sq'[i].ud = sq'[j].ud => i = j
      BY <1>1 DEF Rest, Once
    <3>5. \A i, j \in 1 .. Len(cq') :
            Single(cq'[i].ud) /\ cq'[i].ud = cq'[j].ud => i = j
      BY <1>7, <2>1, <2>2, <3>2, <3>3 DEF Rest, Once, m
    <3>6. \A i \in 1 .. Len(sq'), p \in inflight' : Single(p.ud) => sq'[i].ud # p.ud
      BY <1>1, <1>8 DEF Rest, Once
    <3>7. \A i \in 1 .. Len(sq'), j \in 1 .. Len(cq') :
            Single(cq'[j].ud) => sq'[i].ud # cq'[j].ud
      BY <1>1, <1>7, <2>1, <2>2, <3>2 DEF Rest, Once, m
    <3>8. \A p \in inflight', j \in 1 .. Len(cq') :
            Single(cq'[j].ud) => p.ud # cq'[j].ud
      BY <1>7, <1>8, <2>1, <2>2, <3>2 DEF Rest, Once, m
    <3> QED BY <1>8, <3>1, <3>4, <3>5, <3>6, <3>7, <3>8 DEF Rest, Once
  <2>6. Awake'
    <3>1. ASSUME NEW ud, Under(ud) PROVE Under(ud)'
      <4>1. CASE \E i \in 1 .. Len(sq) : sq[i].ud = ud
        <5>1. PICK i \in 1 .. Len(sq) : sq[i].ud = ud
          BY <4>1
        <5>2. CASE i = 1
          BY <1>7, <2>1, <5>1, <5>2 DEF Under, h
        <5>3. CASE i # 1
          <6>1. i - 1 \in 1 .. n /\ (i - 1) + 1 = i
            BY <1>1, <5>3
          <6>2. sq'[i - 1].ud = ud
            BY <1>1, <5>1, <6>1
          <6> QED BY <1>1, <6>1, <6>2 DEF Under
        <5> QED BY <5>2, <5>3
      <4> QED BY <1>8, <2>1, <3>1, <4>1 DEF Under, m
    <3> QED BY <1>2, <3>1 DEF Rest, Awake, Early
  <2> QED BY <1>2, <2>3, <2>n, <2>4, <2>5, <2>6 DEF Rest, Ids, Reaping
<1>9. CASE cq' = cq /\ inflight' = inflight \cup {o}
  <2> HIDE DEF h, n, on, o, c
  <2>1. WellFormed'
    BY <1>1, <1>3, <1>4, <1>5, <1>9 DEF Rest, WellFormed
  <2>n. Numbered'
    <3>1. h.ud \in 0 .. next_id - 1
      BY <1>1 DEF Rest, Numbered, h
    <3> QED BY <1>1, <1>2, <1>5, <1>9, <3>1 DEF Rest, Numbered
  <2>2. Owned'
    <3>1. \A ud : Waiting(ud)' <=> Waiting(ud)
      BY <1>2 DEF Waiting
    <3>2. Tidy => (h.ud # 0 => Waiting(h.ud))
      BY <1>1 DEF Rest, Owned, h
    <3>3. Tidy' <=> Tidy
      BY <1>2 DEF Tidy, Clean, Early
    <3> QED BY <1>1, <1>5, <1>9, <3>1, <3>2, <3>3 DEF Rest, Owned
  <2>3. Once'
    <3>1. \A ud : Single(ud)' <=> Single(ud)
      BY <1>2 DEF Single, Tidy, Clean, Early
    <3>2. Single(h.ud) => /\ \A i \in 1 .. n : sq'[i].ud # h.ud
                          /\ \A p \in inflight : p.ud # h.ud
                          /\ \A i \in 1 .. Len(cq) : cq[i].ud # h.ud
      BY <1>1 DEF Rest, Once, h
    <3>4. \A i, j \in 1 .. Len(sq') :
            Single(sq'[i].ud) /\ sq'[i].ud = sq'[j].ud => i = j
      BY <1>1 DEF Rest, Once
    <3>5. \A p, q \in inflight' : Single(p.ud) /\ p.ud = q.ud => p = q
      BY <1>5, <1>9, <3>2 DEF Rest, Once
    <3>6. \A i \in 1 .. Len(sq'), p \in inflight' : Single(p.ud) => sq'[i].ud # p.ud
      BY <1>1, <1>5, <1>9, <3>2 DEF Rest, Once
    <3>7. \A i \in 1 .. Len(sq'), j \in 1 .. Len(cq) :
            Single(cq[j].ud) => sq'[i].ud # cq[j].ud
      BY <1>1 DEF Rest, Once
    <3>8. \A p \in inflight', j \in 1 .. Len(cq) : Single(cq[j].ud) => p.ud # cq[j].ud
      BY <1>5, <1>9, <3>2 DEF Rest, Once
    <3> QED BY <1>9, <3>1, <3>4, <3>5, <3>6, <3>7, <3>8 DEF Rest, Once
  <2>4. Awake'
    <3>1. ASSUME NEW ud, Under(ud) PROVE Under(ud)'
      <4>1. CASE \E i \in 1 .. Len(sq) : sq[i].ud = ud
        <5>1. PICK i \in 1 .. Len(sq) : sq[i].ud = ud
          BY <4>1
        <5>2. CASE i = 1
          BY <1>5, <1>9, <5>1, <5>2 DEF Under, h
        <5>3. CASE i # 1
          <6>1. i - 1 \in 1 .. n /\ (i - 1) + 1 = i
            BY <1>1, <5>3
          <6>2. sq'[i - 1].ud = ud
            BY <1>1, <5>1, <6>1
          <6> QED BY <1>1, <6>1, <6>2 DEF Under
        <5> QED BY <5>2, <5>3
      <4> QED BY <1>9, <3>1, <4>1 DEF Under
    <3> QED BY <1>2, <3>1 DEF Rest, Awake, Early
  <2> QED BY <1>2, <2>1, <2>n, <2>2, <2>3, <2>4 DEF Rest, Ids, Reaping
<1> QED BY <1>6, <1>8, <1>9

-----------------------------------------------------------------------------
(* The kernel completes an operation o: it is through with o, or o goes on *)
(* under another name, which only a multishot accept and a SEND_ZC do.     *)

LEMMA CompletesRest ==
  ASSUME TypeOK, Rest, NEW o \in inflight, NEW c \in Completion,
         c.ud = o.ud, c.ud = 0 /\ c.res > 0 => c.res \in Fd,
         cq' = Append(cq, c),
         NEW left, left \subseteq Op, Single(o.ud) => left = {},
         \A p \in left : /\ p.ud = o.ud /\ p.on = o.on
                         /\ p.op = "accept" <=> o.op = "accept"
                         /\ p.op # "send_zc",
         inflight' = (inflight \ {o}) \cup left,
         UNCHANGED <<tasks, next_id, phase, sq>>
  PROVE  Rest'
<1> DEFINE m == Len(cq)
<1>1. /\ m \in Nat /\ Len(cq') = m + 1 /\ cq'[m + 1] = c
      /\ \A i \in 1 .. m : cq'[i] = cq[i]
  <2>1. cq \in Seq(Completion)
    BY DEF TypeOK, Completion
  <2> QED BY <2>1, Appended
<1>2. \A i \in 1 .. m + 1 : i = m + 1 \/ i \in 1 .. m
  BY <1>1
<1> HIDE DEF m
<1>4. WellFormed'
  <2>1. /\ o.op = "accept" <=> o.ud = 0
        /\ o.on \in Conn
    BY DEF Rest, WellFormed
  <2> QED BY <1>1, <1>2, <2>1 DEF Rest, WellFormed, m
<1>n. Numbered'
  BY <1>1, <1>2 DEF Rest, Numbered, m
<1>5. Owned'
  <2>1. \A ud : Waiting(ud)' <=> Waiting(ud)
    BY DEF Waiting
  <2>2. Tidy => (o.ud # 0 => Waiting(o.ud))
    BY DEF Rest, Owned
  <2>3. Tidy' <=> Tidy
    BY DEF Tidy, Clean, Early
  <2> QED BY <1>1, <1>2, <2>1, <2>2, <2>3 DEF Rest, Owned, m
<1>6. Once'
  <2>1. \A ud : Single(ud)' <=> Single(ud)
    BY DEF Single, Tidy, Clean, Early
  <2>2. \A ud : ud = o.ud /\ Single(ud) => Single(o.ud)
    OBVIOUS
  <2>3. \A p \in inflight' : Single(p.ud) => p \in inflight /\ p # o
    BY <2>2
  <2>4. Single(o.ud) => /\ \A i \in 1 .. Len(sq) : sq[i].ud # o.ud
                        /\ \A p \in inflight' : p.ud # o.ud
                        /\ \A i \in 1 .. m : cq[i].ud # o.ud
    <3>1. SUFFICES ASSUME Single(o.ud)
                   PROVE  /\ \A i \in 1 .. Len(sq) : sq[i].ud # o.ud
                          /\ \A p \in inflight' : p.ud # o.ud
                          /\ \A i \in 1 .. m : cq[i].ud # o.ud
      OBVIOUS
    <3>2. inflight' = inflight \ {o}
      BY <3>1
    <3>3. \A p \in inflight : p.ud = o.ud => p = o
      BY <3>1 DEF Rest, Once
    <3>4. \A i \in 1 .. m : cq[i].ud = o.ud => Single(cq[i].ud)
      BY <3>1
    <3> QED BY <3>1, <3>2, <3>3, <3>4 DEF Rest, Once, m
  <2>5. \A p, q \in inflight' : Single(p.ud) /\ p.ud = q.ud => p = q
    <3>1. SUFFICES ASSUME NEW p \in inflight', NEW q \in inflight',
                          Single(p.ud), p.ud = q.ud
                   PROVE  p = q
      OBVIOUS
    <3>2. p \in inflight /\ q \in inflight
      BY <2>3, <3>1
    <3> QED BY <3>1, <3>2 DEF Rest, Once
  <2>6. \A i, j \in 1 .. Len(cq') :
          Single(cq'[i].ud) /\ cq'[i].ud = cq'[j].ud => i = j
    BY <1>1, <1>2, <2>2, <2>4 DEF Rest, Once, m
  <2>7. \A i \in 1 .. Len(sq), p \in inflight' : Single(p.ud) => sq[i].ud # p.ud
    BY <2>3 DEF Rest, Once
  <2>8. \A i \in 1 .. Len(sq), j \in 1 .. Len(cq') :
          Single(cq'[j].ud) => sq[i].ud # cq'[j].ud
    BY <1>1, <1>2, <2>4 DEF Rest, Once, m
  <2>9. \A p \in inflight', j \in 1 .. Len(cq') :
          Single(cq'[j].ud) => p.ud # cq'[j].ud
    <3>1. SUFFICES ASSUME NEW p \in inflight', NEW j \in 1 .. Len(cq'),
                          Single(cq'[j].ud), p.ud = cq'[j].ud
                   PROVE  FALSE
      OBVIOUS
    <3>2. p \in inflight
      BY <2>3, <3>1
    <3>3. CASE j = m + 1
      BY <1>1, <2>4, <3>1, <3>3
    <3>4. CASE j \in 1 .. m
      BY <1>1, <3>1, <3>2, <3>4 DEF Rest, Once, m
    <3> QED BY <1>1, <1>2, <3>3, <3>4
  <2> QED BY <2>1, <2>5, <2>6, <2>7, <2>8, <2>9 DEF Rest, Once
<1>7. Awake'
  <2>1. ASSUME NEW ud, Under(ud) PROVE Under(ud)'
    <3>1. CASE ud = o.ud
      BY <1>1, <3>1 DEF Under
    <3>2. CASE ud # o.ud
      BY <1>1, <2>1, <3>2 DEF Under, m
    <3> QED BY <3>1, <3>2
  <2> QED BY <2>1 DEF Rest, Awake, Early
<1> QED BY <1>4, <1>n, <1>5, <1>6, <1>7 DEF Rest, Ids, Reaping

LEMMA KernelRest ==
  ASSUME TypeOK, Rest, Kernel
  PROVE  Rest'
<1>1. PICK o \in inflight :
        RecvCompletes(o) \/ SendCompletes(o) \/ Completes(o)
          \/ AcceptCompletes(o) \/ AcceptFails(o)
  BY DEF Kernel
<1>2. /\ o.op = "accept" <=> o.ud = 0
      /\ o.op = "send_zc" => UseSendZc
      /\ o \in Op
  BY DEF Rest, WellFormed, TypeOK
<1>3. UNCHANGED <<tasks, next_id, phase, sq>>
  BY <1>1 DEF Unchanging, RecvCompletes, SendCompletes, Completes, AcceptCompletes, AcceptFails
<1>4. ASSUME NEW res \in Int, NEW more \in BOOLEAN, Post(o, res, more),
             NEW left, left \subseteq Op, Single(o.ud) => left = {},
             \A p \in left : /\ p.ud = o.ud /\ p.on = o.on
                             /\ p.op = "accept" <=> o.op = "accept"
                             /\ p.op # "send_zc",
             inflight' = (inflight \ {o}) \cup left,
             o.ud = 0 /\ res > 0 => res \in Fd
      PROVE  Rest'
  <2>1. PICK c : c = [ud |-> o.ud, res |-> res, more |-> more]
    OBVIOUS
  <2>2. /\ c \in Completion /\ c.ud = o.ud /\ c.res = res
        /\ cq' = Append(cq, c)
    BY <1>2, <1>4, <2>1 DEF Op, Post, Completion
  <2>3. c.ud = 0 /\ c.res > 0 => c.res \in Fd
    BY <1>4, <2>2
  <2> QED BY <1>3, <1>4, <2>2, <2>3, CompletesRest
<1>5. ASSUME NEW res \in Int, Post(o, res, FALSE), inflight' = inflight \ {o},
             o.ud = 0 /\ res > 0 => res \in Fd
      PROVE  Rest'
  <2>1. PICK c, left : c = [ud |-> o.ud, res |-> res, more |-> FALSE] /\ left = {}
    OBVIOUS
  <2>2. /\ c \in Completion /\ c.ud = o.ud /\ c.res = res
        /\ cq' = Append(cq, c)
    BY <1>2, <1>5, <2>1 DEF Op, Post, Completion
  <2>3. c.ud = 0 /\ c.res > 0 => c.res \in Fd
    BY <1>5, <2>2
  <2>4. /\ left \subseteq Op
        /\ Single(o.ud) => left = {}
        /\ inflight' = (inflight \ {o}) \cup left
        /\ \A p \in left : /\ p.ud = o.ud /\ p.on = o.on
                           /\ p.op = "accept" <=> o.op = "accept"
                           /\ p.op # "send_zc"
    BY <1>5, <2>1
  <2> QED BY <1>3, <2>2, <2>3, <2>4, CompletesRest
<1>6. CASE RecvCompletes(o)
  <2>1. PICK n \in -1 .. o.len : Post(o, n, FALSE)
    BY <1>6 DEF RecvCompletes
  <2>2. n \in Int /\ o.ud # 0 /\ inflight' = inflight \ {o}
    BY <1>2, <1>6 DEF RecvCompletes, Op
  <2> QED BY <1>5, <2>1, <2>2 DEF Post
<1>7. CASE SendCompletes(o)
  <2>1. PICK n \in (-1 .. o.len) \ {0} :
          /\ Post(o, n, o.op = "send_zc" /\ n > 0)
          /\ inflight' = (inflight \ {o}) \cup
               (IF o.op = "send_zc" /\ n > 0 THEN {[o EXCEPT !.op = "notif"]} ELSE {})
    BY <1>7 DEF SendCompletes
  <2>2. n \in Int /\ o.ud # 0
    BY <1>2, <1>7 DEF SendCompletes, Op
  <2>3. CASE o.op = "send_zc" /\ n > 0
    <3>1. PICK p : p = [o EXCEPT !.op = "notif"]
      OBVIOUS
    <3>2. p \in Op /\ p.ud = o.ud /\ p.on = o.on /\ p.op = "notif"
      BY <1>2, <3>1 DEF Op
    <3>3. ~Single(o.ud)
      BY <1>2, <2>2, <2>3 DEF Single, Tidy, Clean
    <3>4. PICK left, more : left = {p} /\ more = TRUE
      OBVIOUS
    <3>5. Post(o, n, more) /\ inflight' = (inflight \ {o}) \cup left
      BY <2>1, <2>3, <3>1, <3>4 DEF Post
    <3>6. /\ left \subseteq Op /\ more \in BOOLEAN
          /\ \A q \in left : /\ q.ud = o.ud /\ q.on = o.on
                             /\ q.op = "accept" <=> o.op = "accept"
                             /\ q.op # "send_zc"
      BY <2>3, <3>2, <3>4
    <3> QED BY <1>4, <2>2, <3>3, <3>5, <3>6, Zenon
  <2>4. CASE ~(o.op = "send_zc" /\ n > 0)
    BY <1>5, <2>1, <2>2, <2>4 DEF Post
  <2> QED BY <2>3, <2>4
<1>8. CASE Completes(o)
  <2>1. PICK res : res = 0
    OBVIOUS
  <2> QED BY <1>2, <1>5, <1>8, <2>1 DEF Completes, Post
<1>9. CASE AcceptCompletes(o)
  <2>1. PICK more \in BOOLEAN, fd \in Fd :
          /\ more => Multishot
          /\ Post(o, fd, more)
          /\ inflight' = IF more THEN inflight ELSE inflight \ {o}
    BY <1>9 DEF AcceptCompletes
  <2>2. fd \in Int /\ o.ud = 0
    BY <1>2, <1>9, SizesAssumption DEF AcceptCompletes, Fd
  <2>3. CASE more
    <3>1. ~Single(o.ud)
      BY <2>1, <2>2, <2>3 DEF Single
    <3>2. PICK left : left = {o}
      OBVIOUS
    <3>3. /\ inflight' = (inflight \ {o}) \cup left /\ left \subseteq Op
          /\ \A q \in left : /\ q.ud = o.ud /\ q.on = o.on
                             /\ q.op = "accept" <=> o.op = "accept"
                             /\ q.op # "send_zc"
      BY <1>2, <1>9, <2>1, <2>3, <3>2 DEF AcceptCompletes
    <3> QED BY <1>4, <2>1, <2>2, <3>1, <3>3, Zenon
  <2>4. CASE ~more
    <3>1. Post(o, fd, FALSE) /\ inflight' = inflight \ {o}
      BY <2>1, <2>4 DEF Post
    <3> QED BY <1>5, <2>1, <2>2, <3>1 DEF Post
  <2> QED BY <2>3, <2>4
<1>10. CASE AcceptFails(o)
  BY <1>5, <1>10 DEF AcceptFails, Post
<1> QED BY <1>1, <1>6, <1>7, <1>8, <1>9, <1>10

-----------------------------------------------------------------------------
(* The loop reaps a completion.                                            *)

(* What is left when the head of the completion queue is gone.             *)
LEMMA HeadOfCq ==
  ASSUME TypeOK, Rest, cq # <<>>, cq' = Tail(cq)
  PROVE  /\ Cqe = cq[1] /\ Cqe.ud \in Nat
         /\ 1 \in 1 .. Len(cq)
         /\ Len(cq') = Len(cq) - 1 /\ Len(cq) \in Nat
         /\ \A i \in 1 .. Len(cq') : cq'[i] = cq[i + 1] /\ i + 1 \in 1 .. Len(cq)
         /\ \A ud : (\E i \in 1 .. Len(cq) : cq[i].ud = ud) /\ ud # Cqe.ud
              => \E i \in 1 .. Len(cq') : cq'[i].ud = ud
         /\ Single(Cqe.ud) =>
              /\ \A i \in 1 .. Len(sq) : sq[i].ud # Cqe.ud
              /\ \A o \in inflight : o.ud # Cqe.ud
              /\ \A i \in 1 .. Len(cq') : cq'[i].ud # Cqe.ud
<1>1. /\ Cqe = cq[1] /\ Cqe.ud \in Nat /\ 1 \in 1 .. Len(cq)
      /\ Len(cq') = Len(cq) - 1 /\ Len(cq) \in Nat
      /\ \A i \in 1 .. Len(cq') : cq'[i] = cq[i + 1] /\ i + 1 \in 1 .. Len(cq)
  <2>1. cq \in Seq(Completion)
    BY DEF TypeOK, Completion
  <2>2. Head(cq).ud \in Nat
    <3>1. Head(cq) \in Completion
      BY <2>1, Tailed
    <3> QED BY <3>1 DEF Completion
  <2> QED BY <2>1, <2>2, Tailed DEF Cqe
<1>2. ASSUME NEW i \in 1 .. Len(cq), cq[i].ud # Cqe.ud
      PROVE  \E j \in 1 .. Len(cq') : cq'[j].ud = cq[i].ud
  <2>1. i # 1
    BY <1>1, <1>2
  <2>2. i - 1 \in 1 .. Len(cq') /\ (i - 1) + 1 = i
    BY <1>1, <2>1
  <2>3. cq'[i - 1] = cq[i]
    BY <1>1, <2>2
  <2> QED BY <2>2, <2>3
<1>3. ASSUME Single(Cqe.ud)
      PROVE  /\ \A i \in 1 .. Len(sq) : sq[i].ud # Cqe.ud
             /\ \A o \in inflight : o.ud # Cqe.ud
             /\ \A i \in 1 .. Len(cq') : cq'[i].ud # Cqe.ud
  <2>1. /\ \A i \in 1 .. Len(sq) : sq[i].ud # Cqe.ud
        /\ \A o \in inflight : o.ud # Cqe.ud
    BY <1>1, <1>3 DEF Rest, Once
  <2>2. \A i \in 1 .. Len(cq) : cq[i].ud = Cqe.ud => i = 1
    BY <1>1, <1>3 DEF Rest, Once
  <2>3. \A i \in 1 .. Len(cq') : i + 1 # 1
    BY <1>1
  <2> QED BY <1>1, <2>1, <2>2, <2>3
<1> QED BY SMTT(40), <1>1, <1>2, <1>3

LEMMA ReapTaskRest ==
  ASSUME TypeOK, Rest, ReapTask
  PROVE  Rest'
<1>1. /\ cq # <<>> /\ cq' = Tail(cq) /\ Cqe.ud # 0 /\ phase = "reap"
      /\ UNCHANGED <<sq, inflight, next_id, phase>>
      /\ tasks' = [t \in Task |->
           IF tasks[t].id = Cqe.ud /\ tasks[t].state # "IDLE"
           THEN [tasks[t] EXCEPT !.io_result = Cqe.res, !.state = "READY"]
           ELSE tasks[t]]
  BY DEF ReapTask
<1>2. \A t \in Task :
        /\ tasks'[t].id = tasks[t].id /\ tasks'[t].fd = tasks[t].fd
        /\ tasks'[t].state = "IDLE" <=> tasks[t].state = "IDLE"
        /\ tasks[t].id # Cqe.ud => tasks'[t].state = tasks[t].state
        /\ tasks'[t].state = "WAITING" =>
             tasks[t].state = "WAITING" /\ tasks[t].id # Cqe.ud
  BY <1>1 DEF TypeOK, TaskRecord
<1>3. PICK ud : ud = Cqe.ud
  OBVIOUS
<1>a. UNCHANGED <<sq, inflight, next_id, phase>> /\ ud # 0 /\ phase = "reap"
  BY <1>1, <1>3
<1>b. /\ Len(cq') \in Nat
      /\ \A i \in 1 .. Len(cq') : cq'[i] = cq[i + 1] /\ i + 1 \in 1 .. Len(cq)
  <2>1. /\ 1 \in 1 .. Len(cq) /\ Len(cq) \in Nat /\ Len(cq') = Len(cq) - 1
        /\ \A i \in 1 .. Len(cq') : cq'[i] = cq[i + 1] /\ i + 1 \in 1 .. Len(cq)
    BY <1>1, HeadOfCq
  <2> QED BY <2>1
<1>4. WellFormed'
  BY <1>a, <1>b DEF Rest, WellFormed
<1>n. Numbered'
  BY <1>a, <1>b DEF Rest, Numbered
<1>5. Ids'
  BY <1>a, <1>2 DEF Rest, Ids
<1>6. Owned'
  <2>1. SUFFICES ASSUME Tidy PROVE Owned'
    BY <1>a DEF Owned, Tidy, Clean, Early
  <2>2. Single(ud)
    BY <1>1, <1>3, <2>1 DEF Single
  <2>3. ASSUME NEW x, x # ud, Waiting(x) PROVE Waiting(x)'
    BY <1>2, <1>3, <2>3 DEF Waiting
  <2>4. /\ \A i \in 1 .. Len(sq) : sq[i].ud # ud
        /\ \A o \in inflight : o.ud # ud
        /\ \A i \in 1 .. Len(cq') : cq'[i].ud # ud
    BY <1>1, <1>3, <2>2, HeadOfCq
  <2>5. /\ \A i \in 1 .. Len(sq) : sq[i].ud # 0 => Waiting(sq[i].ud)
        /\ \A o \in inflight : o.ud # 0 => Waiting(o.ud)
        /\ \A i \in 1 .. Len(cq') : cq'[i].ud # 0 => Waiting(cq'[i].ud)
    BY <1>b, <2>1 DEF Rest, Owned
  <2> QED BY <1>a, <2>3, <2>4, <2>5 DEF Owned
<1>7. Once'
  <2>1. \A x : Single(x)' <=> Single(x)
    BY <1>a DEF Single, Tidy, Clean, Early
  <2>2. \A i, j \in 1 .. Len(cq') : i + 1 = j + 1 => i = j
    BY <1>b
  <2>3. \A i, j \in 1 .. Len(cq') :
          Single(cq'[i].ud) /\ cq'[i].ud = cq'[j].ud => i = j
    BY SMTT(40), <1>b, <2>2 DEF Rest, Once
  <2>4. /\ \A i \in 1 .. Len(sq), j \in 1 .. Len(cq') :
             Single(cq'[j].ud) => sq[i].ud # cq'[j].ud
        /\ \A o \in inflight, j \in 1 .. Len(cq') :
             Single(cq'[j].ud) => o.ud # cq'[j].ud
    BY <1>b DEF Rest, Once
  <2> QED BY <1>a, <2>1, <2>3, <2>4 DEF Rest, Once
<1>8. Reaping'
  BY <1>1 DEF Rest, Reaping
<1>9. Awake'
  <2>1. ASSUME NEW x, x # ud, Under(x) PROVE Under(x)'
    BY <1>1, <1>3, <2>1, HeadOfCq DEF Under
  <2> QED BY <1>1, <1>2, <1>3, <2>1 DEF Rest, Awake, Early
<1> QED BY <1>4, <1>n, <1>5, <1>6, <1>7, <1>8, <1>9 DEF Rest

LEMMA ReapAcceptRest ==
  ASSUME TypeOK, Rest, ReapAccept
  PROVE  Rest'
<1>1. /\ cq # <<>> /\ cq' = Tail(cq) /\ Cqe.ud = 0 /\ phase = "reap"
      /\ UNCHANGED <<inflight, phase>>
      /\ sq' = IF Rearm /\ Room THEN Append(sq, AcceptOp) ELSE sq
  BY DEF ReapAccept
<1>2. /\ 1 \in 1 .. Len(cq) /\ Len(cq) \in Nat /\ Len(cq') = Len(cq) - 1
      /\ \A i \in 1 .. Len(cq') : cq'[i] = cq[i + 1] /\ i + 1 \in 1 .. Len(cq)
  BY <1>1, HeadOfCq
<1>3. /\ UNCHANGED <<tasks, next_id>>
      \/ \E t \in Task, fd \in Fd :
           /\ tasks[t].state = "IDLE" /\ next_id' = next_id + 1
           /\ tasks' = [tasks EXCEPT ![t] =
                [Idle EXCEPT !.id = next_id, !.state = "READY", !.fd = fd]]
  <2>1. CASE Cqe.res > 0
    <3>1. Cqe.res \in Fd
      <4>1. Cqe = cq[1]
        BY <1>1, HeadOfCq
      <4> QED BY <1>1, <1>2, <2>1, <4>1 DEF Rest, WellFormed
    <3>2. HandleAccept(Cqe.res)
      BY <2>1 DEF ReapAccept
    <3>3. CASE \E t \in Task :
                 /\ Free(t)
                 /\ tasks' = [tasks EXCEPT ![t] =
                      [Idle EXCEPT !.id = next_id, !.state = "READY", !.fd = Cqe.res]]
                 /\ next_id' = next_id + 1
      BY <3>1, <3>3 DEF Free
    <3> QED BY <3>2, <3>3, Zenon DEF HandleAccept
  <2>2. CASE ~(Cqe.res > 0)
    BY <2>2 DEF ReapAccept
  <2> QED BY <2>1, <2>2
<1>i. next_id \in Nat \ {0} /\ \A t \in Task : tasks[t].id \in Nat
  BY Types DEF TypeOK
<1>4. \A t \in Task :
        \/ tasks'[t] = tasks[t] /\ next_id' \in {next_id, next_id + 1}
        \/ /\ tasks[t].state = "IDLE" /\ tasks'[t].state = "READY"
           /\ tasks'[t].id = next_id /\ tasks'[t].fd \in Fd
           /\ next_id' = next_id + 1
           /\ \A u \in Task : u # t => tasks'[u] = tasks[u]
  <2>1. CASE UNCHANGED <<tasks, next_id>>
    BY <2>1
  <2>2. ASSUME NEW t \in Task, NEW fd \in Fd,
               tasks[t].state = "IDLE", next_id' = next_id + 1,
               tasks' = [tasks EXCEPT ![t] =
                 [Idle EXCEPT !.id = next_id, !.state = "READY", !.fd = fd]]
        PROVE  /\ tasks'[t].state = "READY" /\ tasks'[t].id = next_id
               /\ tasks'[t].fd = fd
               /\ \A u \in Task : u # t => tasks'[u] = tasks[u]
    BY <2>2 DEF TypeOK, Idle
  <2>3. CASE \E t \in Task, fd \in Fd :
               /\ tasks[t].state = "IDLE" /\ next_id' = next_id + 1
               /\ tasks' = [tasks EXCEPT ![t] =
                    [Idle EXCEPT !.id = next_id, !.state = "READY", !.fd = fd]]
    <3>1. PICK t \in Task, fd \in Fd :
            /\ tasks[t].state = "IDLE" /\ next_id' = next_id + 1
            /\ tasks' = [tasks EXCEPT ![t] =
                 [Idle EXCEPT !.id = next_id, !.state = "READY", !.fd = fd]]
      BY <2>3
    <3>2. /\ tasks'[t].state = "READY" /\ tasks'[t].id = next_id
          /\ tasks'[t].fd = fd
          /\ \A u \in Task : u # t => tasks'[u] = tasks[u]
      BY <2>2, <3>1
    <3>3. /\ tasks[t].state = "IDLE" /\ next_id' = next_id + 1
      BY <3>1
    <3> QED BY <3>2, <3>3
  <2> QED BY <1>3, <2>1, <2>3
<1> DEFINE n == Len(sq)
<1>5. n \in Nat /\ sq \in Seq(Op) /\ AcceptOp \in Op
  <2>1. 0 \in Task
    BY SizesAssumption DEF Task
  <2> QED BY <2>1 DEF TypeOK, Op, AcceptOp
<1>6. /\ Len(sq') \in {n, n + 1}
      /\ Len(sq') = n + 1 => Rearm /\ sq'[n + 1] = AcceptOp
      /\ \A i \in 1 .. n : sq'[i] = sq[i]
  BY <1>1, <1>5, Appended
<1>7. AcceptOp.ud = 0 /\ AcceptOp.op = "accept" /\ AcceptOp.on = 0
  BY DEF AcceptOp
<1>8. \A i \in 1 .. Len(sq') : i \in 1 .. n \/ (i = n + 1 /\ Len(sq') = n + 1)
  BY <1>5, <1>6
<1>9. Single(0) => /\ \A i \in 1 .. n : sq[i].ud # 0
                   /\ \A o \in inflight : o.ud # 0
                   /\ \A i \in 1 .. Len(cq') : cq'[i].ud # 0
  BY <1>1, HeadOfCq
<1> HIDE DEF n
<1>10. WellFormed'
  <2>1. \A i \in 1 .. Len(sq') : /\ sq'[i].op = "accept" <=> sq'[i].ud = 0
                                 /\ sq'[i].op = "send_zc" => UseSendZc
                                 /\ sq'[i].on \in Fd \cup {0}
    BY <1>6, <1>7, <1>8 DEF Rest, WellFormed, n
  <2>2. \A i \in 1 .. Len(cq') : cq'[i].ud = 0 /\ cq'[i].res > 0 => cq'[i].res \in Fd
    BY <1>2 DEF Rest, WellFormed
  <2> QED BY <1>1, <2>1, <2>2 DEF Rest, WellFormed
<1>m. next_id' = next_id \/ next_id' = next_id + 1
  BY <1>3
<1>n. Numbered'
  <2>p. PICK n1, n2 : n1 = next_id /\ n2 = next_id'
    OBVIOUS
  <2>q. n1 \in Nat \ {0} /\ n2 \in Nat \ {0} /\ n1 <= n2
    BY <1>i, <1>m, <2>p
  <2>1. \A ud : ud \in 0 .. next_id - 1 => ud \in 0 .. next_id' - 1
    <3>1. \A ud : ud \in 0 .. n1 - 1 => ud \in 0 .. n2 - 1
      BY <2>q
    <3> QED BY <2>p, <3>1
  <2>2. AcceptOp.ud \in 0 .. next_id' - 1
    <3>1. 0 \in 0 .. n2 - 1
      BY <2>q
    <3> QED BY <1>7, <2>p, <3>1
  <2> QED BY <1>1, <1>2, <1>6, <1>8, <2>1, <2>2 DEF Rest, Numbered, n
<1>e. Early' => Early
  BY <1>i, <1>m, SizesAssumption DEF Early
<1>11. Ids'
  <2>2. ASSUME NEW t \in Task, tasks'[t].state # "IDLE"
        PROVE  tasks'[t].id # 0 /\ tasks'[t].id < next_id' /\ tasks'[t].fd \in Fd
    <3>1. CASE tasks'[t] = tasks[t] /\ next_id' \in {next_id, next_id + 1}
      BY <1>i, <2>2, <3>1 DEF Rest, Ids
    <3>2. CASE tasks'[t].id = next_id /\ tasks'[t].fd \in Fd /\ next_id' = next_id + 1
      BY <1>i, <3>2
    <3> QED BY <1>4, <3>1, <3>2
  <2>3. \A t, u \in Task :
          /\ tasks'[t].state # "IDLE" /\ tasks'[u].state # "IDLE"
          /\ tasks'[t].id = tasks'[u].id
          => t = u
    <3>1. SUFFICES ASSUME NEW t \in Task, NEW u \in Task, t # u,
                          tasks'[t].state # "IDLE", tasks'[u].state # "IDLE",
                          tasks'[t].id = tasks'[u].id
                   PROVE  FALSE
      OBVIOUS
    <3>2. CASE tasks'[t] = tasks[t] /\ tasks'[u] = tasks[u]
      <4>1. /\ tasks[t].state # "IDLE" /\ tasks[u].state # "IDLE"
            /\ tasks[t].id = tasks[u].id
        BY <3>1, <3>2
      <4>2. t = u
        BY <4>1 DEF Rest, Ids
      <4> QED BY <3>1, <4>2
    <3>3. CASE tasks'[t].id = next_id /\ tasks'[u] = tasks[u]
      <4>1. tasks[u].state # "IDLE" /\ tasks[u].id = next_id
        BY <3>1, <3>3
      <4>2. tasks[u].id < next_id
        BY <4>1 DEF Rest, Ids
      <4> QED BY <1>i, <4>1, <4>2
    <3>4. CASE tasks'[u].id = next_id /\ tasks'[t] = tasks[t]
      <4>1. tasks[t].state # "IDLE" /\ tasks[t].id = next_id
        BY <3>1, <3>4
      <4>2. tasks[t].id < next_id
        BY <4>1 DEF Rest, Ids
      <4> QED BY <1>i, <4>1, <4>2
    <3> QED BY <1>4, <3>1, <3>2, <3>3, <3>4
  <2> QED BY <2>2, <2>3 DEF Ids
<1>12. Owned'
  <2>1. \A ud : Waiting(ud) => Waiting(ud)'
    BY <1>4 DEF Waiting
  <2>2. SUFFICES ASSUME Tidy PROVE Owned'
    BY <1>e DEF Owned, Tidy, Clean
  <2>3. /\ \A i \in 1 .. Len(sq') : sq'[i].ud # 0 => Waiting(sq'[i].ud)
        /\ \A o \in inflight : o.ud # 0 => Waiting(o.ud)
        /\ \A i \in 1 .. Len(cq') : cq'[i].ud # 0 => Waiting(cq'[i].ud)
    BY <1>2, <1>6, <1>7, <1>8, <2>2 DEF Rest, Owned, n
  <2> QED BY <1>1, <2>1, <2>3 DEF Owned
<1>13. Once'
  <2>1. \A x : Single(x)' => Single(x)
    BY <1>e DEF Single, Tidy, Clean
  <2>2. \A x : x = 0 /\ Single(x) => Single(0)
    OBVIOUS
  <2>3. \A i, j \in 1 .. Len(sq') :
          Single(sq'[i].ud) /\ sq'[i].ud = sq'[j].ud => i = j
    BY <1>6, <1>7, <1>8, <1>9, <2>2 DEF Rest, Once, n
  <2>4. \A i, j \in 1 .. Len(cq') : i + 1 = j + 1 => i = j
    BY <1>2
  <2>5. \A i, j \in 1 .. Len(cq') :
          Single(cq'[i].ud) /\ cq'[i].ud = cq'[j].ud => i = j
    BY <1>2, <2>4 DEF Rest, Once
  <2>6. \A i \in 1 .. Len(sq'), o \in inflight : Single(o.ud) => sq'[i].ud # o.ud
    BY <1>6, <1>7, <1>8, <1>9, <2>2 DEF Rest, Once, n
  <2>7. \A i \in 1 .. Len(sq'), j \in 1 .. Len(cq') :
          Single(cq'[j].ud) => sq'[i].ud # cq'[j].ud
    <3>1. SUFFICES ASSUME NEW i \in 1 .. Len(sq'), NEW j \in 1 .. Len(cq'),
                          Single(cq'[j].ud), sq'[i].ud = cq'[j].ud
                   PROVE  FALSE
      OBVIOUS
    <3>2. CASE i \in 1 .. n
      BY SMTT(40), <1>2, <1>6, <3>1, <3>2 DEF Rest, Once, n
    <3>3. CASE i = n + 1 /\ Len(sq') = n + 1
      BY <1>6, <1>7, <1>9, <2>2, <3>1, <3>3
    <3> QED BY <1>8, <3>2, <3>3
  <2>8. \A o \in inflight, j \in 1 .. Len(cq') :
          Single(cq'[j].ud) => o.ud # cq'[j].ud
    BY <1>2 DEF Rest, Once
  <2> QED BY <1>1, <2>1, <2>3, <2>5, <2>6, <2>7, <2>8 DEF Rest, Once
<1>14. Reaping'
  BY <1>1, <1>6, <1>7, <1>8 DEF Rest, Reaping, n
<1>15. Awake'
  <2>1. ASSUME NEW x, x # 0, Under(x) PROVE Under(x)'
    <3>1. (\E i \in 1 .. Len(cq) : cq[i].ud = x) =>
            \E i \in 1 .. Len(cq') : cq'[i].ud = x
      BY <1>1, <2>1, HeadOfCq
    <3>2. (\E i \in 1 .. n : sq[i].ud = x) => \E i \in 1 .. Len(sq') : sq'[i].ud = x
      BY <1>5, <1>6
    <3> QED BY <1>1, <2>1, <3>1, <3>2 DEF Under, n
  <2>2. ~Multishot => Under(0)'
    <3>1. SUFFICES ASSUME ~Multishot PROVE Under(0)'
      OBVIOUS
    <3>2. \A i \in 1 .. n : sq[i].ud = 0
      BY <1>1 DEF Rest, Reaping, n
    <3>3. n = 0
      BY <1>5, <1>9, <3>1, <3>2 DEF Single
    <3>4. Rearm /\ Room
      BY <3>1, <3>3, SizesAssumption DEF Rearm, Room, n
    <3>5. Len(sq') = n + 1 /\ sq'[n + 1].ud = 0
      BY <1>1, <1>5, <1>7, <3>4, Appended DEF n
    <3> QED BY <1>5, <3>5 DEF Under
  <2>3. \A t \in Task : tasks'[t].state = "WAITING" =>
          tasks'[t] = tasks[t] /\ tasks[t].state = "WAITING" /\ tasks[t].id # 0
    BY <1>4 DEF Rest, Ids
  <2> QED BY <1>e, <2>1, <2>2, <2>3 DEF Rest, Awake
<1> QED BY <1>10, <1>n, <1>11, <1>12, <1>13, <1>14, <1>15 DEF Rest

(* A completion with the idle timer's number is a task's that got it.      *)
LEMMA ReapTimeoutRest ==
  ASSUME TypeOK, Rest, ReapTimeout
  PROVE  Rest'
<1>1. /\ cq # <<>> /\ cq' = Tail(cq) /\ Cqe.ud = TimeoutUd
      /\ UNCHANGED <<sq, inflight, next_id, phase>>
  BY DEF ReapTimeout
<1>2. /\ Len(cq') \in Nat /\ Cqe = cq[1] /\ 1 \in 1 .. Len(cq)
      /\ \A i \in 1 .. Len(cq') : cq'[i] = cq[i + 1] /\ i + 1 \in 1 .. Len(cq)
  <2>1. /\ 1 \in 1 .. Len(cq) /\ Len(cq) \in Nat /\ Len(cq') = Len(cq) - 1
        /\ Cqe = cq[1]
        /\ \A i \in 1 .. Len(cq') : cq'[i] = cq[i + 1] /\ i + 1 \in 1 .. Len(cq)
    BY <1>1, HeadOfCq
  <2> QED BY <2>1
<1>3. ~Early /\ ~Early'
  <2>1. cq[1].ud \in 0 .. next_id - 1
    BY <1>2 DEF Rest, Numbered
  <2>2. TimeoutUd < next_id
    BY <1>1, <1>2, <2>1, SizesAssumption DEF TypeOK
  <2> QED BY <1>1, <2>2, SizesAssumption DEF Early, TypeOK
<1>4. \A t \in Task : tasks'[t] = tasks[t] \/ tasks'[t].state = "IDLE"
  <2>1. PICK idle : tasks' = [t \in Task |->
          IF t \in idle
          THEN [tasks[t] EXCEPT !.id = 0, !.state = "IDLE", !.fd = 0] ELSE tasks[t]]
    BY DEF ReapTimeout
  <2>2. \A t \in Task :
          [tasks[t] EXCEPT !.id = 0, !.state = "IDLE", !.fd = 0].state = "IDLE"
    BY Types DEF TaskRecord
  <2> QED BY <2>1, <2>2
<1>5. WellFormed' /\ Numbered'
  BY <1>1, <1>2 DEF Rest, WellFormed, Numbered
<1>6. Ids'
  BY <1>1, <1>4 DEF Rest, Ids
<1>7. Owned'
  BY <1>3 DEF Owned, Tidy
<1>8. Once'
  <2>1. \A x : Single(x)' <=> Single(x)
    BY <1>3 DEF Single, Tidy
  <2>2. \A i, j \in 1 .. Len(cq') : i + 1 = j + 1 => i = j
    BY <1>2
  <2>3. \A i, j \in 1 .. Len(cq') :
          Single(cq'[i].ud) /\ cq'[i].ud = cq'[j].ud => i = j
    BY <1>2, <2>2 DEF Rest, Once
  <2>4. /\ \A i \in 1 .. Len(sq), j \in 1 .. Len(cq') :
             Single(cq'[j].ud) => sq[i].ud # cq'[j].ud
        /\ \A o \in inflight, j \in 1 .. Len(cq') :
             Single(cq'[j].ud) => o.ud # cq'[j].ud
    BY SMTT(40), <1>2 DEF Rest, Once
  <2> QED BY <1>1, <2>1, <2>3, <2>4 DEF Rest, Once
<1>9. Reaping'
  BY <1>1 DEF Rest, Reaping
<1>10. Awake'
  <2>1. Under(0) => Under(0)'
    <3>1. (\E i \in 1 .. Len(cq) : cq[i].ud = 0) => \E i \in 1 .. Len(cq') : cq'[i].ud = 0
      BY <1>1, SizesAssumption, HeadOfCq
    <3> QED BY <1>1, <3>1 DEF Under
  <2> QED BY <1>3, <2>1 DEF Rest, Awake
<1> QED BY <1>5, <1>6, <1>7, <1>8, <1>9, <1>10 DEF Rest

-----------------------------------------------------------------------------
(* Type correctness.                                                       *)

HandlerBuffers ==
  /\ big' \in [Task -> BigBuf]
  /\ tls_data' \in [Task -> BOOLEAN]
  /\ write_buf' \in [Task -> Conn]

(* The heap buffers, the TLS states and the write buffers.                 *)
LEMMA HandlerBuffersOK ==
  ASSUME TypeOK, WellFormed, Ids, NEW t \in Task, HttpHandler(t) \/ TlsHandler(t)
  PROVE  HandlerBuffers
<1>1. tasks[t].state = "READY"
  BY HandlerStep
<1>2. Peer(t) \in Conn
  BY <1>1 DEF Peer, Ids, TypeOK
<1>3. /\ big \in [Task -> BigBuf] /\ tls_data \in [Task -> BOOLEAN]
      /\ write_buf \in [Task -> Conn]
  BY DEF TypeOK
<1>4. /\ big[t] \in BigBuf /\ big[t].left \in Nat /\ Result(t) \in Int
      /\ NoBig \in BigBuf
  BY Types DEF Result
<1>5. ASSUME NEW b \in BigBuf, big' = [big EXCEPT ![t] = b] PROVE big' \in [Task -> BigBuf]
  BY <1>3, <1>5
<1>6. ASSUME big' = [big EXCEPT ![t] = NoBig] PROVE big' \in [Task -> BigBuf]
  BY <1>4, <1>5, <1>6
<1>7. ASSUME write_buf' = [write_buf EXCEPT ![t] = Peer(t)]
      PROVE  write_buf' \in [Task -> Conn]
  BY <1>2, <1>3, <1>7
<1> USE DEF HandlerBuffers, Handled, Plain
<1>8. CASE RecvFresh(t) \/ RecvEnd(t) \/ SendEnd(t)
  BY <1>3, <1>6, <1>8 DEF RecvFresh, RecvEnd, SendEnd
<1>9. CASE SendDone(t)
  <2>1. big' = [big EXCEPT ![t] = big[t]] \/ big' = [big EXCEPT ![t] = NoBig]
    BY <1>9 DEF SendDone
  <2> QED BY <1>3, <1>4, <1>5, <1>9, <2>1 DEF SendDone
<1>10. CASE RecvBody(t)
  <2> DEFINE left == IF big[t].mode = "RECV" THEN big[t].left - Result(t) ELSE Full
             b == [mode |-> "RECV", left |-> left, on |-> Peer(t)]
  <2>1. left \in Nat
    BY <1>4, <1>10 DEF RecvBody, Full
  <2>2. big' = [big EXCEPT ![t] = b] \/ big' = [big EXCEPT ![t] = NoBig]
    BY <1>10 DEF RecvBody
  <2> HIDE DEF left
  <2>3. b \in BigBuf
    BY <1>2, <2>1 DEF BigBuf
  <2> HIDE DEF b
  <2> QED BY <1>3, <1>5, <1>6, <1>10, <2>2, <2>3 DEF RecvBody
<1>11. CASE ParseReply(t) \/ ParseServed(t) \/ ParseProxied(t)
  <2>1. Parsed(t) /\ UNCHANGED tls_data
    BY <1>11 DEF ParseReply, ParseServed, ParseProxied
  <2>2. write_buf' \in [Task -> Conn]
    BY <1>3, <1>7, <1>11 DEF ParseReply, ParseServed, ParseProxied, Reply
  <2> DEFINE b == [big[t] EXCEPT !.mode = "PARSED", !.left = 0]
  <2>3. big' = [big EXCEPT ![t] = b] \/ big' = [big EXCEPT ![t] = NoBig]
    BY <2>1 DEF Parsed
  <2>4. b \in BigBuf
    BY <1>4 DEF BigBuf
  <2> HIDE DEF b
  <2> QED BY <1>3, <1>5, <1>6, <2>1, <2>2, <2>3, <2>4
<1>12. CASE ProxyMiss(t) \/ ProxyReply(t)
  BY <1>3, <1>7, <1>12 DEF ProxyMiss, ProxyReply, Reply
<1>13. CASE ProxyReplyBig(t)
  <2> DEFINE b == [mode |-> "SEND", left |-> Full, on |-> Peer(t)]
  <2>1. big' = [big EXCEPT ![t] = b] \/ big' = [big EXCEPT ![t] = NoBig]
    BY <1>13 DEF ProxyReplyBig
  <2>2. b \in BigBuf
    BY <1>2 DEF BigBuf, Full
  <2> HIDE DEF b
  <2> QED BY <1>3, <1>5, <1>6, <1>13, <2>1, <2>2 DEF ProxyReplyBig
<1>14. CASE SendMore(t)
  <2> DEFINE left == big[t].left - Result(t)
             b == [big[t] EXCEPT !.left = left]
  <2>1. left \in Nat
    BY <1>4, <1>14 DEF SendMore
  <2>2. big' = [big EXCEPT ![t] = b] \/ big' = [big EXCEPT ![t] = NoBig]
    BY <1>14 DEF SendMore
  <2> HIDE DEF left
  <2>3. b \in BigBuf
    BY <1>4, <2>1 DEF BigBuf
  <2> HIDE DEF b
  <2> QED BY <1>3, <1>5, <1>6, <1>14, <2>2, <2>3 DEF SendMore
<1>15. CASE TlsHandler(t)
  <2>1. UNCHANGED big
    BY <1>15 DEF TlsHandler, TlsInit, TlsRecvEnd, TlsFlight, TlsNeedInput,
                 TlsFlightSent, TlsReply, TlsSendDone
  <2>2. write_buf' = write_buf \/ write_buf' = [write_buf EXCEPT ![t] = Peer(t)]
    BY <1>15 DEF TlsHandler, TlsInit, TlsRecvEnd, TlsFlight, TlsNeedInput,
                 TlsFlightSent, TlsReply, TlsSendDone
  <2>3. \/ tls_data' = [tls_data EXCEPT ![t] = TRUE]
        \/ tls_data' = [tls_data EXCEPT ![t] = FALSE]
    BY <1>15 DEF TlsHandler, TlsInit, TlsRecvEnd, TlsFlight, TlsNeedInput,
                 TlsFlightSent, TlsReply, TlsSendDone, TlsPend, TlsEnd
  <2>4. tls_data' \in [Task -> BOOLEAN]
    BY <1>3, <2>3
  <2> QED BY <1>3, <1>7, <2>1, <2>2, <2>4
<1> QED
  BY <1>8, <1>9, <1>10, <1>11, <1>12, <1>13, <1>14, <1>15 DEF HttpHandler

LEMMA HandlerTypeOK ==
  ASSUME TypeOK, WellFormed, Ids, NEW t \in Task, HttpHandler(t) \/ TlsHandler(t)
  PROVE  TypeOK'
<1>1. /\ tasks[t].state = "READY"
      /\ UNCHANGED <<next_id, phase, inflight, cq, accepted, read_buf>>
      /\ Armed(t) \/ Freed(t)
  BY HandlerStep
<1>2. /\ tasks[t].id \in Nat /\ tasks[t].fd \in Fd /\ tasks[t].fd \in Nat
      /\ tasks[t] \in TaskRecord
  BY <1>1, Types DEF Ids
<1>3. sq \in Seq(Op) /\ tasks \in [Task -> TaskRecord] /\ sock \in [Fd -> Conn]
        /\ active_count \in Int
  BY DEF TypeOK
<1>4. ASSUME NEW r \in TaskRecord, tasks' = [tasks EXCEPT ![t] = r]
      PROVE  tasks' \in [Task -> TaskRecord]
  BY <1>3, <1>4
<1>5. ASSUME NEW e \in Op, sq' = Append(sq, e) PROVE sq' \in Seq(Op)
  BY <1>3, <1>5
<1>6. CASE Armed(t)
  <2>1. PICK hs \in HandlerStates, keep \in BOOLEAN, op \in TaskOps, len \in Nat :
          Pend(t, hs, keep, op, len)
    BY <1>6 DEF Armed
  <2> DEFINE e == [ud |-> tasks[t].id, op |-> op, slot |-> t, on |-> tasks[t].fd, len |-> len]
             r == [tasks[t] EXCEPT !.state = "WAITING", !.handler_state = hs, !.keep = keep]
  <2>2. e \in Op /\ r \in TaskRecord
    BY <1>2 DEF Op, TaskOps, TaskRecord
  <2>3. sq' = Append(sq, e) /\ tasks' = [tasks EXCEPT ![t] = r] /\ UNCHANGED <<sock, active_count>>
    BY <2>1 DEF Pend, Queue
  <2> HIDE DEF e, r
  <2>4. sq' \in Seq(Op) /\ tasks' \in [Task -> TaskRecord]
    BY <1>4, <1>5, <2>2, <2>3
  <2> QED BY <1>1, <2>3, <2>4, HandlerBuffersOK DEF HandlerBuffers, TypeOK
<1>7. CASE Freed(t)
  <2> DEFINE e == [ud |-> tasks[t].id, op |-> "send", slot |-> t, on |-> tasks[t].fd, len |-> Full]
             r == [tasks[t] EXCEPT !.id = 0, !.state = "IDLE", !.fd = 0]
  <2>1. e \in Op /\ r \in TaskRecord
    BY <1>2 DEF Op, TaskRecord, Full
  <2>2. /\ sq' = sq \/ sq' = Append(sq, e)
        /\ tasks' = [tasks EXCEPT ![t] = r]
        /\ sock' = [sock EXCEPT ![tasks[t].fd] = 0] /\ active_count' = active_count - 1
    BY <1>7 DEF Freed, Complete, Queue
  <2> HIDE DEF e, r
  <2>3. sq' \in Seq(Op) /\ tasks' \in [Task -> TaskRecord]
    BY <1>3, <1>4, <1>5, <2>1, <2>2
  <2>4. active_count' \in Int /\ sock' \in [Fd -> Conn]
    <3>1. active_count' \in Int
      BY <1>3, <2>2
    <3>2. PICK z : z = 0 /\ z \in Conn
      BY Types
    <3>3. sock' = [sock EXCEPT ![tasks[t].fd] = z]
      BY <2>2, <3>2
    <3>4. sock' \in [Fd -> Conn]
      BY <1>3, <3>2, <3>3
    <3> QED BY <3>1, <3>4
  <2> QED BY <1>1, <2>3, <2>4, HandlerBuffersOK DEF HandlerBuffers, TypeOK
<1> QED BY <1>1, <1>6, <1>7

LEMMA LoopTypeOK ==
  ASSUME TypeOK, Rest, Loop
  PROVE  TypeOK'
<1>1. CASE Enter \/ Return \/ Turn
  BY <1>1 DEF Enter, Return, Turn, TypeOK, kernel, bufs
<1>2. sq \in Seq(Op) /\ cq \in Seq(Completion) /\ inflight \subseteq Op
  BY DEF TypeOK
<1>3. CASE Submit
  <2>1. PICK e, on : e = Head(sq) /\ on = IF e.on = 0 THEN 0 ELSE sock[e.on]
    OBVIOUS
  <2>2. e \in Op /\ sq' \in Seq(Op) /\ e = sq[1] /\ 1 \in 1 .. Len(sq)
    BY <1>2, <1>3, <2>1, Tailed DEF Submit
  <2>3. on \in Nat
    <3>1. e.on \in Fd \cup {0}
      BY <2>2 DEF Rest, WellFormed
    <3>2. sock \in [Fd -> Conn]
      BY DEF TypeOK
    <3> QED BY <2>1, <3>1, <3>2, Types
  <2>4. PICK c, o : c = [ud |-> e.ud, res |-> -1, more |-> FALSE] /\ o = [e EXCEPT !.on = on]
    OBVIOUS
  <2>5. c \in Completion /\ o \in Op
    BY SMTT(40), <2>2, <2>3, <2>4 DEF Op, Completion
  <2>6. \/ cq' = Append(cq, c) /\ inflight' = inflight
        \/ inflight' = inflight \cup {o} /\ cq' = cq
    BY <1>3, <2>1, <2>4 DEF Submit
  <2>7. UNCHANGED <<tasks, big, tls_data, next_id, active_count, phase, sock,
                    accepted, bufs>>
    BY <1>3 DEF Submit
  <2>8. cq' \in Seq(Completion) /\ inflight' \subseteq Op
    BY SMTT(40), <1>2, <2>5, <2>6
  <2> QED BY <2>2, <2>7, <2>8 DEF TypeOK, bufs
<1>4. CASE ReapTask
  <2>1. cq' \in Seq(Completion) /\ Cqe \in Completion
    BY <1>2, <1>4, Tailed DEF ReapTask, Cqe
  <2>2. PICK res : res = Cqe.res
    OBVIOUS
  <2>3. res \in Int
    BY <2>1, <2>2 DEF Completion
  <2>4. \A t \in Task : [tasks[t] EXCEPT !.io_result = res, !.state = "READY"] \in TaskRecord
    <3>1. ASSUME NEW r \in TaskRecord
          PROVE  [r EXCEPT !.io_result = res, !.state = "READY"] \in TaskRecord
      BY ONLY <2>3, <3>1 DEF TaskRecord
    <3> QED BY <3>1, Types
  <2>5. tasks' \in [Task -> TaskRecord]
    BY <1>4, <2>2, <2>4, Types DEF ReapTask
  <2> QED BY <1>4, <2>1, <2>5 DEF ReapTask, TypeOK, bufs
<1>5. CASE ReapAccept
  <2>1. cq' \in Seq(Completion)
    BY <1>2, <1>5, Tailed DEF ReapAccept
  <2>2. sq' \in Seq(Op)
    BY <1>2, <1>5, Types DEF ReapAccept
  <2>3. UNCHANGED <<tasks, next_id, active_count, sock>>
          \/ (Cqe.res \in Fd /\ HandleAccept(Cqe.res))
    <3>1. Cqe = cq[1] /\ 1 \in 1 .. Len(cq)
      BY <1>5, HeadOfCq DEF ReapAccept
    <3>2. Cqe.ud = 0 /\ Cqe.res > 0 => Cqe.res \in Fd
      BY <3>1 DEF Rest, WellFormed
    <3> QED BY <1>5, <3>2 DEF ReapAccept
  <2>4. CASE UNCHANGED <<tasks, next_id, active_count, sock>>
    BY <1>5, <2>1, <2>2, <2>4 DEF ReapAccept, TypeOK, bufs
  <2>5. CASE Cqe.res \in Fd /\ HandleAccept(Cqe.res)
    <3>1. PICK fd : fd = Cqe.res
      OBVIOUS
    <3>2. fd \in Fd /\ HandleAccept(fd)
      BY <2>5, <3>1
    <3>3. PICK r : r = [Idle EXCEPT !.id = next_id, !.state = "READY", !.fd = fd]
      OBVIOUS
    <3>4. r \in TaskRecord
      <4>1. FirstState \in HandlerStates
        BY DEF FirstState, HandlerStates
      <4>2. next_id \in Nat
        BY DEF TypeOK
      <4>3. r = [id |-> next_id, state |-> "READY", fd |-> fd, io_result |-> 99,
                 handler_state |-> FirstState, keep |-> TRUE]
        BY <3>3 DEF Idle, Fresh
      <4> QED BY <3>2, <4>1, <4>2, <4>3 DEF TaskRecord
    <3>5. CASE \E t \in Task : /\ tasks' = [tasks EXCEPT ![t] = r]
                               /\ next_id' = next_id + 1
                               /\ active_count' = active_count + 1
                               /\ UNCHANGED sock
      <4>1. tasks' \in [Task -> TaskRecord]
        BY <3>4, <3>5 DEF TypeOK
      <4>2. next_id' \in Nat \ {0} /\ active_count' \in Int
        BY <3>5 DEF TypeOK
      <4>3. sock' = sock
        BY <3>5
      <4> QED BY <1>5, <2>1, <2>2, <4>1, <4>2, <4>3 DEF ReapAccept, TypeOK, bufs
    <3>6. CASE sock' = [sock EXCEPT ![fd] = 0] /\ UNCHANGED <<tasks, next_id, active_count>>
      <4>1. sock' \in [Fd -> Conn]
        BY <3>6, Types DEF TypeOK
      <4> QED BY <1>5, <2>1, <2>2, <3>6, <4>1 DEF ReapAccept, TypeOK, bufs
    <3> QED BY <3>2, <3>3, <3>5, <3>6, Zenon DEF HandleAccept
  <2> QED BY <2>3, <2>4, <2>5
<1>6. CASE ReapTimeout
  <2>1. cq' \in Seq(Completion)
    BY <1>2, <1>6, Tailed DEF ReapTimeout
  <2>2. PICK idle \in SUBSET {t \in Task : tasks[t].state = "WAITING"} :
          /\ tasks' = [t \in Task |->
               IF t \in idle
               THEN [tasks[t] EXCEPT !.id = 0, !.state = "IDLE", !.fd = 0] ELSE tasks[t]]
          /\ sock' = [f \in Fd |-> IF \E t \in idle : tasks[t].fd = f THEN 0 ELSE sock[f]]
          /\ active_count' = active_count - Cardinality(idle)
    BY <1>6 DEF ReapTimeout
  <2>3. \A t \in Task :
          [tasks[t] EXCEPT !.id = 0, !.state = "IDLE", !.fd = 0] \in TaskRecord
    <3>1. ASSUME NEW r \in TaskRecord
          PROVE  [r EXCEPT !.id = 0, !.state = "IDLE", !.fd = 0] \in TaskRecord
      BY ONLY <3>1 DEF TaskRecord
    <3> QED BY <3>1, Types
  <2>4. tasks' \in [Task -> TaskRecord]
    BY <2>2, <2>3, Types
  <2>5. sock' \in [Fd -> Conn]
    BY <2>2, Types DEF TypeOK
  <2>6. PICK c : c \in Nat /\ c = Cardinality(idle)
    <3>1. IsFiniteSet(Task)
      BY SizesAssumption, FS_Interval DEF Task
    <3>2. IsFiniteSet(idle)
      BY <3>1, FS_Subset
    <3> QED BY <3>2, FS_CardinalityType
  <2>7. active_count' \in Int
    <3>1. active_count' = active_count - c
      BY <2>2, <2>6
    <3> QED BY <2>6, <3>1 DEF TypeOK
  <2> QED BY <1>6, <2>1, <2>4, <2>5, <2>7 DEF ReapTimeout, TypeOK, bufs
<1> QED BY <1>1, <1>3, <1>4, <1>5, <1>6 DEF Loop

LEMMA KernelTypeOK ==
  ASSUME TypeOK, Rest, Kernel
  PROVE  TypeOK'
<1>1. PICK o \in inflight :
        RecvCompletes(o) \/ SendCompletes(o) \/ Completes(o)
          \/ AcceptCompletes(o) \/ AcceptFails(o)
  BY DEF Kernel
<1>2. o \in Op /\ o.ud \in Nat /\ o.slot \in Task /\ o.on \in Conn /\ o.len \in Nat
  BY DEF Rest, WellFormed, TypeOK, Op
<1>3. UNCHANGED <<tasks, big, tls_data, next_id, active_count, phase, sq, write_buf>>
  BY <1>1 DEF Unchanging, RecvCompletes, SendCompletes, Completes, AcceptCompletes, AcceptFails
<1>4. cq \in Seq(Completion) /\ inflight \subseteq Op
  BY DEF TypeOK
<1>5. inflight' \subseteq Op
  <2>1. PICK p : p = [o EXCEPT !.op = "notif"]
    OBVIOUS
  <2>2. p \in Op
    BY <1>2, <2>1 DEF Op
  <2>3. inflight' \subseteq inflight \cup {p}
    BY <1>1, <2>1 DEF RecvCompletes, SendCompletes, Completes, AcceptCompletes, AcceptFails
  <2> QED BY <1>4, <2>2, <2>3
<1>6. cq' \in Seq(Completion)
  <2>1. ASSUME NEW c \in Completion, cq' = Append(cq, c) PROVE cq' \in Seq(Completion)
    BY <1>4, <2>1
  <2>2. ASSUME NEW n \in Int, NEW more \in BOOLEAN, Post(o, n, more)
        PROVE  cq' \in Seq(Completion)
    <3>1. PICK c : c = [ud |-> o.ud, res |-> n, more |-> more]
      OBVIOUS
    <3>2. c \in Completion /\ cq' = Append(cq, c)
      BY <1>2, <2>2, <3>1 DEF Completion, Post
    <3> QED BY <2>1, <3>2
  <2>5. CASE RecvCompletes(o)
    <3>1. PICK n \in -1 .. o.len : Post(o, n, FALSE)
      BY <2>5 DEF RecvCompletes
    <3>2. n \in Int
      BY <1>2
    <3> QED BY <2>2, <3>1, <3>2, Zenon
  <2>6. CASE SendCompletes(o)
    <3>1. PICK n \in (-1 .. o.len) \ {0} : Post(o, n, o.op = "send_zc" /\ n > 0)
      BY <2>6 DEF SendCompletes
    <3>2. n \in Int
      BY <1>2
    <3>3. CASE o.op = "send_zc" /\ n > 0
      <4>1. Post(o, n, TRUE)
        BY <3>1, <3>3 DEF Post
      <4> QED BY <2>2, <3>2, <4>1, Zenon
    <3>4. CASE ~(o.op = "send_zc" /\ n > 0)
      <4>1. Post(o, n, FALSE)
        BY <3>1, <3>4 DEF Post
      <4> QED BY <2>2, <3>2, <4>1, Zenon
    <3> QED BY <3>3, <3>4
  <2>7. CASE Completes(o)
    <3>1. Post(o, 0, FALSE)
      BY <2>7, Zenon DEF Completes
    <3>2. 0 \in Int
      OBVIOUS
    <3> QED BY <2>2, <3>1, <3>2, Zenon
  <2>8. CASE AcceptFails(o)
    <3>1. Post(o, -1, FALSE)
      BY <2>8, Zenon DEF AcceptFails
    <3>2. -1 \in Int
      OBVIOUS
    <3> QED BY <2>2, <3>1, <3>2, Zenon
  <2>9. CASE AcceptCompletes(o)
    <3>1. PICK more \in BOOLEAN, fd \in Fd : Post(o, fd, more)
      BY <2>9 DEF AcceptCompletes
    <3>2. fd \in Int
      BY Types
    <3> QED BY <2>2, <3>1, <3>2, Zenon
  <2> QED BY <1>1, <2>5, <2>6, <2>7, <2>8, <2>9
<1>7. /\ sock' \in [Fd -> Conn] /\ accepted' \in Conn /\ read_buf' \in [Task -> Conn]
  <2>1. CASE RecvCompletes(o)
    BY <1>2, <2>1 DEF RecvCompletes, TypeOK
  <2>2. CASE SendCompletes(o) \/ Completes(o) \/ AcceptFails(o)
    BY <2>2 DEF SendCompletes, Completes, AcceptFails, TypeOK
  <2>3. CASE AcceptCompletes(o)
    <3>1. accepted + 1 \in Conn
      BY <2>3, SizesAssumption DEF AcceptCompletes, TypeOK, Conn
    <3> QED BY <2>3, <3>1 DEF AcceptCompletes, TypeOK
  <2> QED BY <1>1, <2>1, <2>2, <2>3
<1> QED BY <1>3, <1>5, <1>6, <1>7 DEF TypeOK

-----------------------------------------------------------------------------
(* The theorems.                                                           *)

LEMMA InitIInv == Init => TypeOK /\ Rest
<1> SUFFICES ASSUME Init PROVE TypeOK /\ Rest
  OBVIOUS
<1>1. /\ sq = <<AcceptOp>> /\ Len(sq) = 1 /\ sq[1] = AcceptOp
      /\ cq = <<>> /\ Len(cq) = 0 /\ inflight = {}
  BY DEF Init
<1>2. AcceptOp.ud = 0 /\ AcceptOp.op = "accept" /\ AcceptOp.on = 0
  BY DEF AcceptOp
<1>3. \A t \in Task : tasks[t].state = "IDLE"
  BY DEF Init, Idle
<1>4. TypeOK
  <2>1. Idle \in TaskRecord
    BY DEF Idle, TaskRecord, FirstState, HandlerStates, Fresh
  <2>2. sq \in Seq(Op) /\ cq \in Seq(Completion) /\ inflight \subseteq Op
    BY <1>1, Types
  <2> QED BY <2>1, <2>2, Types DEF Init, TypeOK
<1>5. WellFormed
  BY <1>1, <1>2 DEF WellFormed
<1>n. Numbered
  BY <1>1, <1>2 DEF Init, Numbered
<1>6. Ids
  BY <1>3 DEF Ids
<1>7. Owned
  BY <1>1, <1>2 DEF Owned
<1>8. Once
  BY <1>1, <1>2 DEF Once
<1>9. Reaping
  BY <1>1, <1>2 DEF Reaping
<1>10. Awake
  BY <1>1, <1>2, <1>3 DEF Awake, Under
<1> QED BY <1>4, <1>5, <1>n, <1>6, <1>7, <1>8, <1>9, <1>10 DEF Rest

LEMMA QuietRest ==
  ASSUME Rest, UNCHANGED <<tasks, next_id, sq, inflight, cq>>,
         phase' = "reap" => sq = <<>> \/ phase = "reap"
  PROVE  Rest'
<1>1. WellFormed' /\ Numbered' /\ Ids' /\ Reaping'
  BY DEF Rest, WellFormed, Numbered, Ids, Reaping
<1>2. Owned'
  BY DEF Rest, Owned, Waiting, Tidy, Clean, Early
<1>3. Once'
  BY DEF Rest, Once, Single, Tidy, Clean, Early
<1>4. Awake'
  BY DEF Rest, Awake, Under, Early
<1> QED BY <1>1, <1>2, <1>3, <1>4 DEF Rest

LEMMA NextIInv == TypeOK /\ Rest /\ [Next]_vars => (TypeOK /\ Rest)'
<1> SUFFICES ASSUME TypeOK, Rest, [Next]_vars PROVE TypeOK' /\ Rest'
  OBVIOUS
<1>1. CASE Loop
  <2>1. TypeOK'
    BY <1>1, LoopTypeOK
  <2>2. CASE Enter \/ Return \/ Turn
    <3>1. /\ UNCHANGED <<tasks, next_id, sq, inflight, cq>>
          /\ phase' = "reap" => sq = <<>> \/ phase = "reap"
      BY <2>2 DEF Enter, Return, Turn, kernel
    <3> QED BY <2>1, <3>1, QuietRest
  <2> QED BY <1>1, <2>1, <2>2, SubmitRest, ReapAcceptRest, ReapTimeoutRest, ReapTaskRest
      DEF Loop
<1>2. ASSUME NEW t \in Task, HttpHandler(t) \/ TlsHandler(t) PROVE TypeOK' /\ Rest'
  <2>1. WellFormed /\ Ids
    BY DEF Rest
  <2>2. TypeOK'
    BY <1>2, <2>1, HandlerTypeOK
  <2>3. /\ phase = "poll" /\ tasks[t].state = "READY"
        /\ UNCHANGED <<next_id, phase, inflight, cq>>
        /\ Armed(t) \/ Freed(t)
    BY <1>2, <2>1, HandlerStep
  <2> QED BY <2>2, <2>3, ArmedRest, FreedRest
<1>3. CASE Kernel
  BY <1>3, KernelTypeOK, KernelRest
<1>4. CASE UNCHANGED vars
  <2>1. /\ UNCHANGED <<tasks, next_id, sq, inflight, cq>>
        /\ phase' = "reap" => sq = <<>> \/ phase = "reap"
    BY <1>4 DEF vars, kernel
  <2> QED BY <1>4, <2>1, QuietRest DEF TypeOK, vars, kernel, bufs
<1> QED BY <1>1, <1>2, <1>3, <1>4 DEF Next, Server

(* The inductive invariant holds in every state the server reaches, for    *)
(* every size and in every mode.                                           *)
THEOREM ServerInvariance == Spec => [](TypeOK /\ Rest)
<1>1. TypeOK /\ Rest /\ [Next]_vars => (TypeOK /\ Rest)'
  BY NextIInv
<1> QED BY InitIInv, <1>1, PTL DEF Spec

(* The variables of the event loop have their types.                       *)
THEOREM ServerTypeCorrect == Spec => []TypeOK
BY ServerInvariance, PTL

(* A task that waits has an operation queued, in the kernel or completed,  *)
(* whatever the queue sizes and in every mode: task_submit_* that finds no *)
(* SQE never leaves its task WAITING.  It takes that no task has had the   *)
(* number of the idle timer for its id.                                    *)
THEOREM NoTaskSleepsForever ==
  Spec => [](next_id <= TimeoutUd => WaitingHasOp)
<1>1. TypeOK /\ Rest => (next_id <= TimeoutUd => WaitingHasOp)
  BY DEF Rest, Awake, Early, Under, WaitingHasOp, Pending, Elements, TypeOK
<1> QED BY <1>1, ServerInvariance, PTL

(* Without SEND_ZC and TLS, and as long, no task is polled or recycled     *)
(* while one of its operations is under way.                               *)
THEOREM TasksOutliveTheirIO ==
  ASSUME ~UseSendZc, ~Tls
  PROVE  Spec => [](next_id <= TimeoutUd => IOEndsFirst)
<1>1. TypeOK /\ Rest => (next_id <= TimeoutUd => IOEndsFirst)
  <2>1. SUFFICES ASSUME TypeOK, Rest, next_id <= TimeoutUd, NEW ud \in Pending, ud # 0
                 PROVE  Waiting(ud)
    BY DEF IOEndsFirst, Waiting
  <2>2. DOMAIN sq = 1 .. Len(sq) /\ DOMAIN cq = 1 .. Len(cq)
    BY <2>1 DEF TypeOK
  <2>3. Under(ud)
    BY <2>1, <2>2 DEF Pending, Elements, Under
  <2> QED BY <2>1, <2>3 DEF Rest, Owned, Tidy, Clean, Early, Under
<1> QED BY <1>1, ServerInvariance, PTL

(* Without multishot accept, the server never stops accepting: the accept  *)
(* that task_server_handle_accept arms again always finds an SQE.          *)
THEOREM ServerKeepsAccepting ==
  ASSUME ~Multishot
  PROVE  Spec => []AcceptArmed
<1>1. TypeOK /\ Rest => AcceptArmed
  BY DEF Rest, Awake, Under, AcceptArmed, Pending, Elements, TypeOK
<1> QED BY <1>1, ServerInvariance, PTL

-----------------------------------------------------------------------------
(* The numbers of tasks.                                                   *)

(* The idle timer's number is nobody's.                                    *)
LEMMA NoTimeout ==
  ASSUME Early, TypeOK, Rest
  PROVE  ~ReapTimeout
<1> SUFFICES ASSUME ReapTimeout PROVE FALSE
  OBVIOUS
<1>1. cq \in Seq(Completion) /\ cq # <<>> /\ Cqe.ud = TimeoutUd
  BY DEF ReapTimeout, TypeOK
<1>2. Cqe = cq[1] /\ 1 \in 1 .. Len(cq)
  BY <1>1, Tailed DEF Cqe
<1>3. cq[1].ud \in 0 .. next_id - 1
  BY <1>2 DEF Rest, Numbered
<1> QED BY <1>1, <1>2, <1>3, SizesAssumption DEF Early, TypeOK

LEMMA IdsGrow ==
  ASSUME TypeOK, Rest, [Next]_vars
  PROVE  Early' => Early
<1>1. next_id' \in {next_id, next_id + 1} /\ next_id \in Nat
  <2>1. CASE Loop
    BY <2>1 DEF Loop, Enter, Submit, Return, ReapAccept, HandleAccept, ReapTimeout, ReapTask,
                Turn, TypeOK
  <2>2. CASE \E t \in Task : HttpHandler(t) \/ TlsHandler(t)
    BY <2>2, HandlerStep DEF Rest, TypeOK
  <2>3. CASE Kernel
    BY <2>3 DEF Kernel, Unchanging, RecvCompletes, SendCompletes, Completes, AcceptCompletes,
                AcceptFails, TypeOK
  <2> QED BY <2>1, <2>2, <2>3 DEF Next, Server, vars, TypeOK
<1> QED BY <1>1, SizesAssumption DEF Early

-----------------------------------------------------------------------------
(* Counting connections.                                                   *)

Live == {t \in Task : tasks[t].state # "IDLE"}

LEMMA LiveFinite ==
  /\ IsFiniteSet(Task)
  /\ \A S \in SUBSET Task : IsFiniteSet(S) /\ Cardinality(S) \in Nat
<1>1. IsFiniteSet(Task)
  <2>1. 0 \in Int /\ NTasks - 1 \in Int
    BY SizesAssumption
  <2> QED BY <2>1, FS_Interval DEF Task
<1> QED BY <1>1, FS_Subset, FS_CardinalityType

(* A slot that is taken counts one more, one that is freed one less.       *)
LEMMA LiveSteps ==
  ASSUME NEW S \in SUBSET Task, NEW t \in Task
  PROVE  /\ t \notin S => Cardinality(S \cup {t}) = Cardinality(S) + 1
         /\ t \in S => Cardinality(S \ {t}) = Cardinality(S) - 1
<1>1. IsFiniteSet(S)
  BY LiveFinite
<1> QED BY <1>1, FS_AddElement, FS_RemoveElement

LEMMA HandlerCounts ==
  ASSUME TypeOK, NEW t \in Task, tasks[t].state = "READY", Armed(t) \/ Freed(t),
         ConnectionsCounted
  PROVE  ConnectionsCounted'
<1>1. CASE Armed(t)
  <2>1. PICK hs \in HandlerStates, keep \in BOOLEAN :
          /\ tasks' = [tasks EXCEPT ![t] =
               [@ EXCEPT !.state = "WAITING", !.handler_state = hs, !.keep = keep]]
          /\ active_count' = active_count
    BY <1>1 DEF Armed, Pend
  <2>2. \A u \in Task : tasks'[u].state # "IDLE" <=> tasks[u].state # "IDLE"
    BY <2>1 DEF TypeOK
  <2>3. Live' = Live
    BY <2>2 DEF Live
  <2> QED BY <2>1, <2>3 DEF ConnectionsCounted, Live
<1>2. CASE Freed(t)
  <2>1. /\ tasks' = [tasks EXCEPT ![t] = [@ EXCEPT !.id = 0, !.state = "IDLE", !.fd = 0]]
        /\ active_count' = active_count - 1
    BY <1>2 DEF Freed, Complete
  <2>2. \A u \in Task : tasks'[u].state # "IDLE" <=> tasks[u].state # "IDLE" /\ u # t
    BY <2>1 DEF TypeOK
  <2>3. Live' = Live \ {t} /\ t \in Live /\ Live \in SUBSET Task
    BY <2>2 DEF Live
  <2> QED BY <2>1, <2>3, LiveSteps DEF ConnectionsCounted, Live
<1> QED BY <1>1, <1>2

LEMMA LoopCounts ==
  ASSUME TypeOK, Loop, ConnectionsCounted
  PROVE  ConnectionsCounted'
<1>1. CASE Enter \/ Submit \/ Return \/ Turn
  BY <1>1 DEF Enter, Submit, Return, Turn, ConnectionsCounted
<1>2. CASE ReapAccept
  <2>1. CASE UNCHANGED <<tasks, active_count>>
    BY <2>1 DEF ConnectionsCounted
  <2>2. ASSUME NEW t \in Task, Free(t),
               tasks' = [tasks EXCEPT ![t] =
                 [Idle EXCEPT !.id = next_id, !.state = "READY", !.fd = Cqe.res]],
               active_count' = active_count + 1
        PROVE  ConnectionsCounted'
    <3>1. \A u \in Task : tasks'[u].state # "IDLE" <=> tasks[u].state # "IDLE" \/ u = t
      BY <2>2 DEF TypeOK, Idle
    <3>2. Live' = Live \cup {t} /\ t \notin Live /\ Live \in SUBSET Task
      BY <2>2, <3>1 DEF Live, Free
    <3> QED BY <2>2, <3>2, LiveSteps DEF ConnectionsCounted, Live
  <2> QED BY <1>2, <2>1, <2>2 DEF ReapAccept, HandleAccept
<1>3. CASE ReapTimeout
  <2>1. PICK idle \in SUBSET {t \in Task : tasks[t].state = "WAITING"} :
          /\ tasks' = [t \in Task |->
               IF t \in idle
               THEN [tasks[t] EXCEPT !.id = 0, !.state = "IDLE", !.fd = 0] ELSE tasks[t]]
          /\ active_count' = active_count - Cardinality(idle)
    BY <1>3 DEF ReapTimeout
  <2>2. \A u \in Task : tasks[u] \in TaskRecord
    BY DEF TypeOK
  <2>3. \A u \in Task : tasks'[u].state # "IDLE" <=> tasks[u].state # "IDLE" /\ u \notin idle
    BY <2>1, <2>2 DEF TaskRecord
  <2>4. Live' = Live \ idle /\ idle \subseteq Live /\ Live \in SUBSET Task /\ IsFiniteSet(Live)
    BY <2>3, LiveFinite DEF Live
  <2>5. Cardinality(Live \ idle) = Cardinality(Live) - Cardinality(Live \cap idle)
    BY <2>4, FS_Difference
  <2>6. Live \cap idle = idle
    BY <2>4
  <2> QED BY <2>1, <2>4, <2>5, <2>6 DEF ConnectionsCounted, Live
<1>4. CASE ReapTask
  <2>1. tasks' = [t \in Task |->
          IF tasks[t].id = Cqe.ud /\ tasks[t].state # "IDLE"
          THEN [tasks[t] EXCEPT !.io_result = Cqe.res, !.state = "READY"] ELSE tasks[t]]
    BY <1>4 DEF ReapTask
  <2>2. \A u \in Task : tasks[u] \in TaskRecord
    BY DEF TypeOK
  <2>3. \A u \in Task : tasks'[u].state # "IDLE" <=> tasks[u].state # "IDLE"
    BY <2>1, <2>2 DEF TaskRecord
  <2>4. Live' = Live
    BY <2>3 DEF Live
  <2> QED BY <1>4, <2>4 DEF ReapTask, ConnectionsCounted, Live
<1> QED BY <1>1, <1>2, <1>3, <1>4 DEF Loop

(* active_count follows every path on which a task starts or ends, in every *)
(* mode: the connection limit counts connections.                          *)
THEOREM ServerCountsConnections == Spec => []ConnectionsCounted
<1>1. Init => ConnectionsCounted
  <2> SUFFICES ASSUME Init PROVE ConnectionsCounted
    OBVIOUS
  <2>1. Live = {}
    BY DEF Init, Idle, Live
  <2> QED BY <2>1, FS_EmptySet DEF Init, ConnectionsCounted, Live
<1>2. TypeOK /\ Rest /\ ConnectionsCounted /\ [Next]_vars => ConnectionsCounted'
  <2> SUFFICES ASSUME TypeOK, Rest, ConnectionsCounted, [Next]_vars
               PROVE  ConnectionsCounted'
    OBVIOUS
  <2>1. CASE Loop
    BY <2>1, LoopCounts
  <2>2. ASSUME NEW t \in Task, HttpHandler(t) \/ TlsHandler(t) PROVE ConnectionsCounted'
    BY <2>2, HandlerStep, HandlerCounts DEF Rest
  <2>3. CASE Kernel
    <3>1. UNCHANGED <<tasks, active_count>>
      BY <2>3 DEF Kernel, Unchanging, RecvCompletes, SendCompletes, Completes,
                  AcceptCompletes, AcceptFails
    <3> QED BY <3>1 DEF ConnectionsCounted
  <2>4. CASE UNCHANGED vars
    BY <2>4 DEF vars, ConnectionsCounted
  <2> QED BY <2>1, <2>2, <2>3, <2>4 DEF Next, Server
<1> QED BY <1>1, <1>2, ServerInvariance, PTL DEF Spec

-----------------------------------------------------------------------------
(* The TLS state of connections.                                           *)

(* No idle timer closes a task: there is none, or no task has its number.  *)
Calm == ~IdleTimeout \/ Early

TlsStates == {"HANDSHAKE", "HANDSHAKE_SEND", "RECV", "SEND"}

(* The states that the TLS handler leaves a task in; the others are those  *)
(* of the HTTP handler, which does not run.                                *)
TlsInv == /\ \A t \in Task : tasks[t].handler_state \in TlsStates \cup {"INIT"}
          /\ Calm => TlsFreed

LEMMA TlsHandlerStep ==
  ASSUME Tls, TypeOK, TlsInv, NEW t \in Task, HttpHandler(t) \/ TlsHandler(t)
  PROVE  \/ /\ \E hs \in TlsStates, keep \in BOOLEAN :
                 tasks' = [tasks EXCEPT ![t] =
                   [@ EXCEPT !.state = "WAITING", !.handler_state = hs, !.keep = keep]]
            /\ tls_data' = [tls_data EXCEPT ![t] = TRUE]
         \/ /\ tasks' = [tasks EXCEPT ![t] = [@ EXCEPT !.id = 0, !.state = "IDLE", !.fd = 0]]
            /\ tls_data' = [tls_data EXCEPT ![t] = FALSE]
<1> DEFINE Goes ==
      /\ \E hs \in TlsStates, keep \in BOOLEAN :
           tasks' = [tasks EXCEPT ![t] =
             [@ EXCEPT !.state = "WAITING", !.handler_state = hs, !.keep = keep]]
      /\ tls_data' = [tls_data EXCEPT ![t] = TRUE]
           Ends ==
      /\ tasks' = [tasks EXCEPT ![t] = [@ EXCEPT !.id = 0, !.state = "IDLE", !.fd = 0]]
      /\ tls_data' = [tls_data EXCEPT ![t] = FALSE]
<1> SUFFICES Goes \/ Ends
  OBVIOUS
<1>1. ~HttpHandler(t)
  BY DEF HttpHandler, RecvFresh, RecvEnd, RecvBody, ParseReply, ParseServed, ParseProxied, Parsed,
         ProxyMiss, ProxyReply, ProxyReplyBig, SendEnd, SendMore, SendDone, Polled,
         TlsInv, TlsStates
<1>2. ASSUME TlsEnd(t) PROVE Ends
  BY <1>2 DEF TlsEnd, Done, Complete
<1>3. ASSUME NEW hs \in TlsStates, NEW keep \in BOOLEAN, NEW op, NEW len,
             TlsPend(t, hs, keep, op, len)
      PROVE  Goes \/ Ends
  BY <1>2, <1>3 DEF TlsPend, Pend
<1> HIDE DEF Goes, Ends
<1>4. CASE TlsInit(t)
  BY <1>2, <1>3, <1>4 DEF TlsInit, TlsStates
<1>5. CASE TlsRecvEnd(t)
  BY <1>2, <1>5 DEF TlsRecvEnd
<1>6. CASE TlsFlight(t)
  BY <1>3, <1>6 DEF TlsFlight, TlsStates
<1>7. CASE TlsNeedInput(t)
  BY <1>3, <1>7 DEF TlsNeedInput, TlsStates
<1>8. CASE TlsFlightSent(t)
  BY <1>2, <1>3, <1>8 DEF TlsFlightSent, TlsStates
<1>9. CASE TlsReply(t)
  BY <1>3, <1>9 DEF TlsReply, TlsStates
<1>10. CASE TlsSendDone(t)
  BY <1>2, <1>3, <1>10 DEF TlsSendDone, TlsStates, Complete, Ends
<1> QED BY <1>1, <1>4, <1>5, <1>6, <1>7, <1>8, <1>9, <1>10 DEF TlsHandler

LEMMA TlsSteps ==
  ASSUME Tls, TypeOK, Rest, TlsInv, [Next]_vars
  PROVE  TlsInv'
<1>1. /\ \A u \in Task : tasks[u] \in TaskRecord /\ tls_data[u] \in BOOLEAN
      /\ tasks \in [Task -> TaskRecord] /\ tls_data \in [Task -> BOOLEAN]
  BY DEF TypeOK
<1>2. Calm' => Calm
  BY IdsGrow DEF Calm
<1>3. ASSUME UNCHANGED <<tasks, tls_data>> PROVE TlsInv'
  BY <1>2, <1>3 DEF TlsInv, TlsFreed
<1>4. ASSUME NEW t \in Task, HttpHandler(t) \/ TlsHandler(t) PROVE TlsInv'
  <2>1. CASE \E hs \in TlsStates, keep \in BOOLEAN :
               /\ tasks' = [tasks EXCEPT ![t] =
                    [@ EXCEPT !.state = "WAITING", !.handler_state = hs, !.keep = keep]]
               /\ tls_data' = [tls_data EXCEPT ![t] = TRUE]
    <3>1. PICK hs \in TlsStates, keep \in BOOLEAN :
               /\ tasks' = [tasks EXCEPT ![t] =
                    [@ EXCEPT !.state = "WAITING", !.handler_state = hs, !.keep = keep]]
               /\ tls_data' = [tls_data EXCEPT ![t] = TRUE]
      BY <2>1
    <3>2. /\ tasks'[t].state = "WAITING" /\ tasks'[t].handler_state = hs
          /\ \A u \in Task \ {t} : tasks'[u] = tasks[u]
      BY <1>1, <3>1
    <3>3. tls_data'[t] = TRUE /\ \A u \in Task \ {t} : tls_data'[u] = tls_data[u]
      BY <1>1, <3>1
    <3> QED BY <1>2, <3>2, <3>3 DEF TlsInv, TlsFreed, TlsStates
  <2>2. CASE /\ tasks' = [tasks EXCEPT ![t] = [@ EXCEPT !.id = 0, !.state = "IDLE", !.fd = 0]]
             /\ tls_data' = [tls_data EXCEPT ![t] = FALSE]
    <3>1. /\ tasks'[t].state = "IDLE" /\ tasks'[t].handler_state = tasks[t].handler_state
          /\ \A u \in Task \ {t} : tasks'[u] = tasks[u]
      BY <1>1, <2>2 DEF TaskRecord
    <3>2. tls_data'[t] = FALSE /\ \A u \in Task \ {t} : tls_data'[u] = tls_data[u]
      BY <1>1, <2>2
    <3> QED BY <1>2, <3>1, <3>2 DEF TlsInv, TlsFreed, TlsStates
  <2> QED BY <1>4, <2>1, <2>2, TlsHandlerStep
<1>5. CASE ReapAccept
  <2>1. ASSUME NEW t \in Task, Free(t),
               tasks' = [tasks EXCEPT ![t] =
                 [Idle EXCEPT !.id = next_id, !.state = "READY", !.fd = Cqe.res]]
        PROVE  TlsInv'
    <3>1. tasks'[t].state = "READY" /\ tasks'[t].handler_state = "INIT"
      BY <1>1, <2>1 DEF Idle, FirstState
    <3>2. \A u \in Task \ {t} : tasks'[u] = tasks[u]
      BY <2>1
    <3>3. tasks[t].state = "IDLE" /\ tls_data' = tls_data
      BY <1>5, <2>1 DEF Free, ReapAccept
    <3> QED BY <1>2, <3>1, <3>2, <3>3 DEF TlsInv, TlsFreed
  <2> QED BY <1>3, <1>5, <2>1 DEF ReapAccept, HandleAccept
<1>6. CASE ReapTimeout
  <2>1. PICK idle \in SUBSET {t \in Task : tasks[t].state = "WAITING"} :
          /\ IdleTimeout \/ idle = {}
          /\ tasks' = [t \in Task |->
               IF t \in idle
               THEN [tasks[t] EXCEPT !.id = 0, !.state = "IDLE", !.fd = 0] ELSE tasks[t]]
    BY <1>6 DEF ReapTimeout
  <2>2. \A u \in Task : /\ tasks'[u].handler_state = tasks[u].handler_state
                        /\ idle = {} => tasks'[u] = tasks[u]
    BY <1>1, <2>1 DEF TaskRecord
  <2>3. Calm' => idle = {}
    <3>1. ~Early
      BY <1>6, NoTimeout
    <3> QED BY <1>2, <2>1, <3>1 DEF Calm
  <2>4. tls_data' = tls_data
    BY <1>6 DEF ReapTimeout
  <2> QED BY <1>2, <2>2, <2>3, <2>4 DEF TlsInv, TlsFreed
<1>7. CASE ReapTask
  <2>1. /\ tasks' = [t \in Task |->
             IF tasks[t].id = Cqe.ud /\ tasks[t].state # "IDLE"
             THEN [tasks[t] EXCEPT !.io_result = Cqe.res, !.state = "READY"] ELSE tasks[t]]
        /\ tls_data' = tls_data
    BY <1>7 DEF ReapTask
  <2>2. \A u \in Task : /\ tasks'[u].handler_state = tasks[u].handler_state
                        /\ tasks'[u].state = "IDLE" <=> tasks[u].state = "IDLE"
    BY <1>1, <2>1 DEF TaskRecord
  <2> QED BY <1>2, <2>1, <2>2 DEF TlsInv, TlsFreed
<1>8. CASE Kernel
  BY <1>3, <1>8 DEF Kernel, Unchanging, RecvCompletes, SendCompletes, Completes, AcceptCompletes,
                    AcceptFails
<1> QED BY <1>3, <1>4, <1>5, <1>6, <1>7, <1>8
        DEF Next, Server, Loop, Enter, Submit, Return, Turn, vars

(* In TLS mode every path on which a connection ends frees its TlsTaskData, *)
(* and none does before: unless idle tasks are closed, which no completion *)
(* asks for before a task has the number of the idle timer.                *)
THEOREM ServerFreesTls ==
  ASSUME Tls
  PROVE  Spec => [](~IdleTimeout \/ next_id <= TimeoutUd => TlsFreed)
<1>1. Init => TlsInv
  BY DEF Init, Idle, FirstState, TlsInv, TlsFreed
<1>2. TypeOK /\ Rest /\ TlsInv /\ [Next]_vars => TlsInv'
  BY TlsSteps
<1>3. TlsInv => (~IdleTimeout \/ next_id <= TimeoutUd => TlsFreed)
  BY DEF TlsInv, Calm, Early
<1> QED BY <1>1, <1>2, <1>3, ServerInvariance, PTL DEF Spec

-----------------------------------------------------------------------------
(* Whose bytes are in the buffers.                                         *)

HttpStates == {"RECV", "PROXY_WAIT", "SEND"}
HttpOnly == \A t \in Task : tasks[t].handler_state \in HttpStates

(* A live task's descriptor is its own and open, and so is the one that an *)
(* accept has returned and nobody has reaped.                              *)
FdsOwn ==
  /\ \A t \in Task : tasks[t].state # "IDLE" => Peer(t) # 0
  /\ \A t, u \in Task : /\ tasks[t].state # "IDLE" /\ tasks[u].state # "IDLE"
                        /\ tasks[t].fd = tasks[u].fd
                        => t = u
  /\ \A i \in 1 .. Len(cq) : cq[i].ud = 0 /\ cq[i].res > 0 =>
       /\ sock[cq[i].res] # 0
       /\ \A t \in Task : tasks[t].state # "IDLE" => tasks[t].fd # cq[i].res
  /\ \A i, j \in 1 .. Len(cq) : /\ cq[i].ud = 0 /\ cq[i].res > 0
                                /\ cq[j].ud = 0 /\ cq[i].res = cq[j].res
                                => i = j

(* A heap buffer is the connection's, but for the one that a new task      *)
(* finds and drops.                                                        *)
NewTask(t) == /\ tasks[t].state = "READY" /\ tasks[t].handler_state = "RECV"
              /\ tasks[t].io_result = Fresh
BigOwn ==
  \A t \in Task : tasks[t].state # "IDLE" /\ ~NewTask(t) /\ big[t].mode # "NONE" =>
    big[t].on = Peer(t)

(* The operation of a waiting task is on its connection, and the one that  *)
(* its handler will take it for.                                           *)
Reading(t) == tasks[t].handler_state = "RECV" /\ big[t].mode # "RECV"
Received(t) == Reading(t) => read_buf[t] = Peer(t)
Suits(t, op) == /\ op = "send" => write_buf[t] = Peer(t)
                /\ Reading(t) => op = "recv"
OpsOwn ==
  \A t \in Task : tasks[t].state = "WAITING" =>
    /\ \A i \in 1 .. Len(sq) : sq[i].ud = tasks[t].id =>
         sq[i].slot = t /\ sq[i].on = tasks[t].fd /\ Suits(t, sq[i].op)
    /\ \A o \in inflight : o.ud = tasks[t].id =>
         o.slot = t /\ o.on = Peer(t) /\ Suits(t, o.op)
    /\ \A i \in 1 .. Len(cq) : cq[i].ud = tasks[t].id /\ cq[i].res = 1 => Received(t)

(* And when it is polled, what it has received is its own.                 *)
ReadOwn ==
  \A t \in Task : tasks[t].state = "READY" /\ tasks[t].io_result = 1 => Received(t)

Bytes == HttpOnly /\ FdsOwn /\ BigOwn /\ OpsOwn /\ ReadOwn

(* What the HTTP handler does to the buffers of its slot: the operation it *)
(* arms is one on what it has just put there.                              *)
Arms(t) ==
  \E hs \in HttpStates, keep \in BOOLEAN, op \in TaskOps, len \in Nat :
    /\ Pend(t, hs, keep, op, len)
    /\ op = "send" => write_buf'[t] = Peer(t)
    /\ hs = "RECV" /\ big'[t].mode # "RECV" => op = "recv"
    /\ big'[t].mode # "NONE" => big'[t].on = Peer(t)

LEMMA HttpHandlerStep ==
  ASSUME Clean, TypeOK, HttpOnly, BigOwn, NEW t \in Task, HttpHandler(t) \/ TlsHandler(t)
  PROVE  /\ HttpHandler(t)
         /\ \A u \in Task \ {t} : big'[u] = big[u] /\ write_buf'[u] = write_buf[u]
         /\ Arms(t) \/ Done(t)
<1>1. HttpHandler(t)
  BY DEF HttpOnly, HttpStates, TlsHandler, TlsInit, TlsRecvEnd, TlsFlight, TlsNeedInput,
         TlsFlightSent, TlsReply, TlsSendDone, Polled, Clean
<1>2. \A u \in Task \ {t} : big'[u] = big[u] /\ write_buf'[u] = write_buf[u]
  <2>1. big \in [Task -> BigBuf] /\ write_buf \in [Task -> Conn]
    BY DEF TypeOK
  <2>2. big' = [big EXCEPT ![t] = big'[t]]
    BY <1>1, <2>1 DEF HttpHandler, RecvFresh, RecvEnd, RecvBody, ParseReply, ParseServed, ParseProxied,
         Parsed, ProxyMiss, ProxyReply, ProxyReplyBig, SendEnd, SendMore, SendDone
  <2>3. write_buf' = [write_buf EXCEPT ![t] = write_buf'[t]]
    BY <1>1, <2>1 DEF HttpHandler, RecvFresh, RecvEnd, RecvBody, ParseReply, ParseServed, ParseProxied,
         Parsed, ProxyMiss, ProxyReply, ProxyReplyBig, SendEnd, SendMore, SendDone, Reply
  <2> QED BY <2>1, <2>2, <2>3
<1>3. Arms(t) \/ Done(t)
  <2>1. /\ big \in [Task -> BigBuf] /\ write_buf \in [Task -> Conn]
        /\ tasks[t].keep \in BOOLEAN /\ big[t] \in BigBuf /\ big[t].left \in Nat
        /\ Result(t) \in Int /\ SendOp = "send"
    BY Types DEF TypeOK, Result, SendOp, Clean
  <2>2. ASSUME tasks[t].state = "READY", tasks[t].handler_state # "RECV" \/ Result(t) # Fresh,
               big[t].mode # "NONE"
        PROVE  big[t].on = Peer(t)
    BY <2>2 DEF BigOwn, NewTask, Result
  <2>3. ASSUME NEW hs \in HttpStates, NEW keep \in BOOLEAN, NEW op \in TaskOps, NEW len \in Nat,
               Pend(t, hs, keep, op, len), op = "send" => write_buf'[t] = Peer(t),
               hs = "RECV" /\ big'[t].mode # "RECV" => op = "recv",
               big'[t].mode # "NONE" => big'[t].on = Peer(t)
        PROVE  Arms(t) \/ Done(t)
    BY <2>3 DEF Arms
  <2>4. ASSUME NEW keep \in BOOLEAN, Reply(t, keep), big'[t].mode # "NONE" => big'[t].on = Peer(t)
        PROVE  Arms(t) \/ Done(t)
    <3>1. write_buf'[t] = Peer(t)
      BY <2>1, <2>4 DEF Reply
    <3> QED BY <2>1, <2>3, <2>4, <3>1 DEF Reply, PendOrDone, HttpStates, TaskOps, Full
  <2>5. ASSUME NEW keep \in BOOLEAN, NextRequest(t, keep), big'[t].mode # "NONE" => big'[t].on = Peer(t)
        PROVE  Arms(t) \/ Done(t)
    BY <2>3, <2>5 DEF NextRequest, PendOrDone, HttpStates, TaskOps
  <2>6. ASSUME NEW keep \in BOOLEAN, PendOrDone(t, "PROXY_WAIT", keep, "nop", 0),
               big'[t].mode # "NONE" => big'[t].on = Peer(t)
        PROVE  Arms(t) \/ Done(t)
    BY <2>3, <2>6 DEF PendOrDone, HttpStates, TaskOps
  <2>7. CASE RecvFresh(t)
    <3>1. big'[t].mode = "NONE"
      BY <2>1, <2>7 DEF RecvFresh, NoBig
    <3>2. Pend(t, "RECV", TRUE, "recv", 1) \/ Done(t)
      BY <2>7 DEF RecvFresh, PendOrDone
    <3> QED BY <2>3, <3>1, <3>2 DEF HttpStates, TaskOps
  <2>8. CASE RecvEnd(t) \/ SendEnd(t)
    BY <2>8 DEF RecvEnd, SendEnd
  <2>9. CASE RecvBody(t)
    <3> DEFINE left == IF big[t].mode = "RECV" THEN big[t].left - Result(t) ELSE Full
    <3>1. left > 0 /\ left \in Int
      BY <2>1, <2>9, SMT DEF RecvBody, Full
    <3>2. \/ /\ Pend(t, "RECV", tasks[t].keep, "recv_buf", left)
             /\ big' = [big EXCEPT ![t] = [mode |-> "RECV", left |-> left, on |-> Peer(t)]]
          \/ Done(t)
      BY <2>9 DEF RecvBody
    <3> HIDE DEF left
    <3>3. left \in Nat
      BY <3>1
    <3>4. ASSUME big' = [big EXCEPT ![t] = [mode |-> "RECV", left |-> left, on |-> Peer(t)]]
          PROVE  big'[t].mode = "RECV" /\ big'[t].on = Peer(t)
      BY <2>1, <3>4
    <3> QED BY <2>1, <2>3, <3>2, <3>3, <3>4 DEF HttpStates, TaskOps
  <2>10. ASSUME Parsed(t) PROVE big'[t].mode # "NONE" => big'[t].on = Peer(t)
    <3>1. tasks[t].state = "READY" /\ Result(t) # Fresh
      BY <2>10 DEF Parsed, Polled, Full, Fresh
    <3>2. big'[t] = IF big[t].mode = "RECV" THEN [big[t] EXCEPT !.mode = "PARSED", !.left = 0] ELSE NoBig
      BY <2>1, <2>10 DEF Parsed
    <3>3. CASE big[t].mode = "RECV"
      <4>1. big'[t].on = big[t].on
        BY <2>1, <3>2, <3>3 DEF BigBuf
      <4> QED BY <2>2, <3>1, <3>3, <4>1
    <3>4. CASE big[t].mode # "RECV"
      BY <3>2, <3>4 DEF NoBig
    <3> QED BY <3>3, <3>4
  <2>11. CASE ParseReply(t)
    BY <2>4, <2>10, <2>11 DEF ParseReply
  <2>12. CASE ParseServed(t)
    BY <2>5, <2>10, <2>12 DEF ParseServed
  <2>13. CASE ParseProxied(t)
    BY <2>6, <2>10, <2>13 DEF ParseProxied
  <2>14. CASE ProxyMiss(t)
    BY <2>1, <2>2, <2>6, <2>14 DEF ProxyMiss, Polled
  <2>15. CASE ProxyReply(t)
    BY <2>1, <2>2, <2>4, <2>15 DEF ProxyReply, Polled
  <2>16. CASE ProxyReplyBig(t)
    <3>1. ASSUME big' = [big EXCEPT ![t] = [mode |-> "SEND", left |-> Full, on |-> Peer(t)]]
          PROVE  big'[t].on = Peer(t)
      BY <2>1, <3>1
    <3> QED BY <2>1, <2>3, <2>16, <3>1 DEF ProxyReplyBig, HttpStates, TaskOps, Full
  <2>17. CASE SendMore(t)
    <3> DEFINE left == big[t].left - Result(t)
    <3>1. left \in Nat
      BY <2>1, <2>17, SMT DEF SendMore
    <3>2. \/ /\ Pend(t, "SEND", tasks[t].keep, "send_buf", left)
             /\ big' = [big EXCEPT ![t].left = left]
          \/ Done(t)
      BY <2>17 DEF SendMore
    <3> HIDE DEF left
    <3>3. ASSUME big' = [big EXCEPT ![t].left = left]
          PROVE  big'[t].mode = big[t].mode /\ big'[t].on = big[t].on
      BY <2>1, <3>3 DEF BigBuf
    <3> QED BY <2>1, <2>2, <2>3, <2>17, <3>1, <3>2, <3>3 DEF SendMore, Polled, HttpStates, TaskOps
  <2>18. CASE SendDone(t)
    <3>1. big'[t] = IF big[t].mode = "RECV" THEN big[t] ELSE NoBig
      BY <2>1, <2>18 DEF SendDone
    <3>2. big'[t].mode # "NONE" => big'[t].on = Peer(t)
      BY <2>2, <2>18, <3>1 DEF SendDone, Polled, NoBig
    <3> QED BY <2>1, <2>5, <2>18, <3>2 DEF SendDone
  <2> QED
    BY <1>1, <2>7, <2>8, <2>9, <2>11, <2>12, <2>13, <2>14, <2>15, <2>16, <2>17, <2>18 DEF HttpHandler
<1> QED BY <1>1, <1>2, <1>3

LEMMA HandlerBytes ==
  ASSUME Tidy, TypeOK, Rest, Bytes, NEW t \in Task, HttpHandler(t) \/ TlsHandler(t)
  PROVE  Bytes'
<1>1. /\ tasks[t].state = "READY" /\ UNCHANGED <<inflight, cq, read_buf>>
      /\ \A u \in Task \ {t} : big'[u] = big[u] /\ write_buf'[u] = write_buf[u]
      /\ Arms(t) \/ Done(t)
  BY HandlerStep, HttpHandlerStep DEF Rest, Bytes, Tidy
<1>2. /\ tasks \in [Task -> TaskRecord] /\ \A u \in Task : tasks[u] \in TaskRecord
      /\ sock \in [Fd -> Conn] /\ sq \in Seq(Op)
  BY DEF TypeOK
<1>3. tasks[t].id # 0 /\ tasks[t].fd \in Fd /\ ~Under(tasks[t].id)
  BY <1>1, ReadyHasNoOp DEF Rest, Ids
<1>4. CASE Arms(t)
  <2>1. PICK hs \in HttpStates, keep \in BOOLEAN, op \in TaskOps, len \in Nat :
          /\ Pend(t, hs, keep, op, len)
          /\ op = "send" => write_buf'[t] = Peer(t)
          /\ hs = "RECV" /\ big'[t].mode # "RECV" => op = "recv"
          /\ big'[t].mode # "NONE" => big'[t].on = Peer(t)
    BY <1>4 DEF Arms
  <2> DEFINE e == [ud |-> tasks[t].id, op |-> op, slot |-> t, on |-> tasks[t].fd, len |-> len]
             n == Len(sq)
  <2>2. /\ sock' = sock /\ sq' = Append(sq, e)
        /\ tasks' = [tasks EXCEPT ![t] =
             [@ EXCEPT !.state = "WAITING", !.handler_state = hs, !.keep = keep]]
    BY <2>1 DEF Pend, Queue
  <2>3. /\ tasks'[t].state = "WAITING" /\ tasks'[t].handler_state = hs
        /\ tasks'[t].id = tasks[t].id /\ tasks'[t].fd = tasks[t].fd
        /\ \A u \in Task \ {t} : tasks'[u] = tasks[u]
    BY <1>2, <2>2 DEF TaskRecord
  <2>4. e \in Op
    <3>1. tasks[t].id \in Nat /\ tasks[t].fd \in Nat
      BY <1>2, <1>3 DEF TaskRecord, Fd
    <3> QED BY <3>1 DEF Op, TaskOps
  <2>5. e.ud = tasks[t].id /\ e.op = op /\ e.slot = t /\ e.on = tasks[t].fd
    OBVIOUS
  <2> HIDE DEF e, n
  <2>6. /\ n \in Nat /\ Len(sq') = n + 1 /\ sq'[n + 1] = e /\ \A i \in 1 .. n : sq'[i] = sq[i]
        /\ \A i \in 1 .. n + 1 : i = n + 1 \/ i \in 1 .. n
    BY <1>2, <2>2, <2>4, Appended DEF n
  <2> USE DEF Peer, NewTask, Reading, Received, Suits
  <2>7. \A u \in Task \ {t} : /\ tasks'[u] = tasks[u] /\ big'[u] = big[u]
                              /\ write_buf'[u] = write_buf[u] /\ read_buf'[u] = read_buf[u]
    BY <1>1, <2>2, <2>3
  <2>8. Peer(t)' = Peer(t) /\ ~NewTask(t)' /\ Suits(t, op)'
    BY <2>1, <2>2, <2>3
  <2>9. HttpOnly'
    BY <2>3 DEF Bytes, HttpOnly
  <2>10. FdsOwn'
    <3>1. \A u \in Task : tasks'[u].state # "IDLE" =>
            tasks[u].state # "IDLE" /\ tasks'[u].fd = tasks[u].fd
      BY <1>1, <2>3
    <3> QED BY <1>1, <2>2, <3>1 DEF Bytes, FdsOwn, Peer
  <2>11. BigOwn'
    BY <1>1, <2>1, <2>2, <2>3, <2>7 DEF Bytes, BigOwn
  <2>12. OpsOwn'
    <3>1. ASSUME NEW u \in Task, tasks'[u].state = "WAITING", NEW i \in 1 .. Len(sq'),
                 sq'[i].ud = tasks'[u].id
          PROVE  sq'[i].slot = u /\ sq'[i].on = tasks'[u].fd /\ Suits(u, sq[i].op)'
      <4>1. CASE i = n + 1
        <5>1. u = t
          BY <1>1, <2>3, <2>5, <2>6, <3>1, <4>1 DEF Rest, Ids
        <5> QED BY <2>3, <2>5, <2>6, <2>8, <4>1, <5>1
      <4>2. CASE i \in 1 .. n
        <5>1. u # t
          BY <1>3, <2>3, <2>6, <3>1, <4>2 DEF Under, n
        <5>2. /\ sq[i].slot = u /\ sq[i].on = tasks[u].fd /\ Suits(u, sq[i].op)
          BY <2>3, <2>6, <3>1, <4>2, <5>1 DEF Bytes, OpsOwn, n
        <5> QED BY <2>2, <2>3, <2>6, <2>7, <4>2, <5>1, <5>2
      <4> QED BY <2>6, <4>1, <4>2
    <3>2. ASSUME NEW u \in Task, tasks'[u].state = "WAITING", NEW o \in inflight,
                 o.ud = tasks'[u].id
          PROVE  o.slot = u /\ o.on = Peer(u)' /\ Suits(u, o.op)'
      <4>1. u # t
        BY <1>3, <2>3, <3>2 DEF Under
      <4> QED BY <2>2, <2>7, <3>2, <4>1 DEF Bytes, OpsOwn
    <3>3. ASSUME NEW u \in Task, tasks'[u].state = "WAITING", NEW i \in 1 .. Len(cq),
                 cq[i].ud = tasks'[u].id, cq[i].res = 1
          PROVE  Received(u)'
      <4>1. u # t
        BY <1>3, <2>3, <3>3 DEF Under
      <4> QED BY <2>2, <2>7, <3>3, <4>1 DEF Bytes, OpsOwn
    <3> QED BY <1>1, <3>1, <3>2, <3>3 DEF OpsOwn
  <2>13. ReadOwn'
    BY <2>2, <2>3, <2>7 DEF Bytes, ReadOwn
  <2> QED BY <2>9, <2>10, <2>11, <2>12, <2>13 DEF Bytes
<1>5. CASE Done(t)
  <2>1. /\ sq' = sq
        /\ tasks' = [tasks EXCEPT ![t] = [@ EXCEPT !.id = 0, !.state = "IDLE", !.fd = 0]]
        /\ sock' = [sock EXCEPT ![tasks[t].fd] = 0]
    BY <1>5 DEF Done, Complete
  <2>2. /\ tasks'[t].state = "IDLE" /\ tasks'[t].handler_state = tasks[t].handler_state
        /\ \A u \in Task \ {t} : tasks'[u] = tasks[u]
    BY <1>2, <2>1 DEF TaskRecord
  <2>3. \A f : f # tasks[t].fd => sock'[f] = sock[f]
    BY <1>2, <2>1
  <2> USE DEF Peer, NewTask, Reading, Received, Suits
  <2>4. ASSUME NEW u \in Task, tasks'[u].state # "IDLE"
        PROVE  /\ u # t /\ tasks[u].state # "IDLE" /\ tasks'[u] = tasks[u] /\ big'[u] = big[u]
               /\ write_buf'[u] = write_buf[u] /\ read_buf'[u] = read_buf[u]
               /\ sock'[tasks[u].fd] = sock[tasks[u].fd]
    <3>1. u # t /\ tasks[u].state # "IDLE" /\ tasks'[u] = tasks[u]
      BY <2>2, <2>4
    <3>2. tasks[u].fd # tasks[t].fd
      BY <1>1, <3>1 DEF Bytes, FdsOwn
    <3> QED BY <1>1, <2>3, <3>1, <3>2
  <2>5. HttpOnly'
    BY <2>2 DEF Bytes, HttpOnly
  <2>6. FdsOwn'
    <3>1. \A i \in 1 .. Len(cq) : cq[i].ud = 0 /\ cq[i].res > 0 => sock'[cq[i].res] = sock[cq[i].res]
      BY <1>1, <2>3 DEF Bytes, FdsOwn
    <3> QED BY <1>1, <2>4, <3>1 DEF Bytes, FdsOwn
  <2>7. BigOwn'
    BY <1>1, <2>4 DEF Bytes, BigOwn
  <2>8. OpsOwn'
    BY <1>1, <2>1, <2>4 DEF Bytes, OpsOwn
  <2>9. ReadOwn'
    BY <2>4 DEF Bytes, ReadOwn
  <2> QED BY <2>5, <2>6, <2>7, <2>8, <2>9 DEF Bytes
<1> QED BY <1>1, <1>4, <1>5

(* The loop.                                                               *)

LEMMA SubmitBytes ==
  ASSUME Tidy, TypeOK, Rest, Bytes, Submit
  PROVE  Bytes'
<1> USE DEF Peer, NewTask, Reading, Received, Suits
<1>1. /\ UNCHANGED <<tasks, big, sock, read_buf, write_buf>>
      /\ sq # <<>> /\ sq' = Tail(sq) /\ sq \in Seq(Op) /\ cq \in Seq(Completion)
  BY DEF Submit, TypeOK, bufs
<1> DEFINE e == Head(sq)
           on == IF e.on = 0 THEN 0 ELSE sock[e.on]
           p == [e EXCEPT !.on = on]
           c == [ud |-> e.ud, res |-> -1, more |-> FALSE]
           n == Len(sq)
           m == Len(cq)
<1>2. /\ e = sq[1] /\ e \in Op /\ n \in Nat \ {0} /\ 1 \in 1 .. n /\ Len(sq') = n - 1
      /\ \A i \in 1 .. n - 1 : sq'[i] = sq[i + 1] /\ i + 1 \in 1 .. n
  BY <1>1, Tailed
<1>3. /\ p.ud = e.ud /\ p.op = e.op /\ p.slot = e.slot /\ p.on = on
      /\ c.ud = e.ud /\ c.res = -1 /\ c \in Completion
  BY <1>2 DEF Op, Completion
<1>4. \/ cq' = Append(cq, c) /\ inflight' = inflight
      \/ cq' = cq /\ inflight' = inflight \cup {p}
  BY DEF Submit
<1>5. on = IF e.on = 0 THEN 0 ELSE sock[e.on]
  OBVIOUS
<1> HIDE DEF e, on, p, c, n, m
<1>6. /\ Len(cq') \in {m, m + 1} /\ m \in Nat
      /\ \A i \in 1 .. Len(cq') : \/ i \in 1 .. m /\ cq'[i] = cq[i]
                                  \/ cq'[i].ud = e.ud /\ cq'[i].res = -1
  <2>1. CASE cq' = Append(cq, c)
    BY <1>1, <1>3, <2>1, Appended DEF m
  <2>2. CASE cq' = cq
    BY <1>1, <2>2 DEF m
  <2> QED BY <1>4, <2>1, <2>2
<1>7. HttpOnly' /\ BigOwn' /\ ReadOwn'
  BY <1>1 DEF Bytes, HttpOnly, BigOwn, ReadOwn
<1>8. FdsOwn'
  <2>1. \A i \in 1 .. Len(cq') : cq'[i].res > 0 => i \in 1 .. Len(cq) /\ cq'[i] = cq[i]
    BY <1>6 DEF m
  <2> QED BY <1>1, <2>1 DEF Bytes, FdsOwn
<1>9. OpsOwn'
  <2>1. ASSUME NEW t \in Task, tasks[t].state = "WAITING"
        PROVE  /\ \A i \in 1 .. Len(sq') : sq'[i].ud = tasks[t].id =>
                    sq'[i].slot = t /\ sq'[i].on = tasks[t].fd /\ Suits(t, sq'[i].op)
               /\ \A o \in inflight' : o.ud = tasks[t].id =>
                    o.slot = t /\ o.on = Peer(t) /\ Suits(t, o.op)
               /\ \A i \in 1 .. Len(cq') : cq'[i].ud = tasks[t].id /\ cq'[i].res = 1 => Received(t)
    <3> HIDE DEF Suits, Received
    <3>1. /\ \A i \in 1 .. n : sq[i].ud = tasks[t].id =>
               sq[i].slot = t /\ sq[i].on = tasks[t].fd /\ Suits(t, sq[i].op)
          /\ \A o \in inflight : o.ud = tasks[t].id =>
               o.slot = t /\ o.on = Peer(t) /\ Suits(t, o.op)
          /\ \A i \in 1 .. m : cq[i].ud = tasks[t].id /\ cq[i].res = 1 => Received(t)
      BY <2>1 DEF Bytes, OpsOwn, n, m
    <3>2. tasks[t].fd # 0
      BY <2>1 DEF Rest, Ids, Fd
    <3>3. \A i \in 1 .. Len(sq') : sq'[i].ud = tasks[t].id =>
            sq'[i].slot = t /\ sq'[i].on = tasks[t].fd /\ Suits(t, sq'[i].op)
      <4>1. \A i \in 1 .. Len(sq') : \E j \in 1 .. n : sq'[i] = sq[j]
        BY <1>2
      <4> QED BY <3>1, <4>1
    <3>4. ASSUME NEW o \in inflight', o.ud = tasks[t].id
          PROVE  o.slot = t /\ o.on = Peer(t) /\ Suits(t, o.op)
      <4>1. CASE o \in inflight
        BY <3>1, <3>4, <4>1
      <4>2. CASE o = p
        BY <1>2, <1>3, <1>5, <3>1, <3>2, <3>4, <4>2
      <4> QED BY <1>4, <3>4, <4>1, <4>2
    <3>5. \A i \in 1 .. Len(cq') : cq'[i].ud = tasks[t].id /\ cq'[i].res = 1 => Received(t)
      BY <1>6, <3>1
    <3> QED BY <3>3, <3>4, <3>5
  <2> QED BY <1>1, <2>1 DEF OpsOwn
<1> QED BY <1>7, <1>8, <1>9 DEF Bytes

LEMMA ReapTaskBytes ==
  ASSUME Tidy, TypeOK, Rest, Bytes, ReapTask
  PROVE  Bytes'
<1> USE DEF Peer, NewTask, Reading, Received, Suits
<1>1. /\ UNCHANGED <<big, sock, read_buf, write_buf, sq, inflight>>
      /\ cq # <<>> /\ cq' = Tail(cq) /\ cq \in Seq(Completion) /\ Cqe.ud # 0
  BY DEF ReapTask, TypeOK, bufs
<1> DEFINE n == Len(cq)
<1>2. /\ Cqe = cq[1] /\ n \in Nat \ {0} /\ 1 \in 1 .. n /\ Len(cq') = n - 1
      /\ \A i \in 1 .. n - 1 : cq'[i] = cq[i + 1] /\ i + 1 \in 1 .. n
  BY <1>1, Tailed DEF Cqe
<1> HIDE DEF n
<1>3. PICK t \in Task : tasks[t].id = Cqe.ud /\ tasks[t].state = "WAITING"
  BY <1>1, <1>2 DEF Rest, Owned, Waiting, n
<1>4. /\ tasks'[t].state = "READY" /\ tasks'[t].io_result = Cqe.res
      /\ tasks'[t].handler_state = tasks[t].handler_state /\ tasks'[t].fd = tasks[t].fd
      /\ \A u \in Task \ {t} : tasks'[u] = tasks[u]
  <2>1. tasks[t] \in TaskRecord
    BY DEF TypeOK
  <2>2. \A u \in Task \ {t} : ~(tasks[u].id = Cqe.ud /\ tasks[u].state # "IDLE")
    BY <1>3 DEF Rest, Ids
  <2>3. tasks' = [u \in Task |->
          IF tasks[u].id = Cqe.ud /\ tasks[u].state # "IDLE"
          THEN [tasks[u] EXCEPT !.io_result = Cqe.res, !.state = "READY"]
          ELSE tasks[u]]
    BY DEF ReapTask
  <2> QED BY <1>3, <2>1, <2>2, <2>3 DEF TaskRecord
<1>5. HttpOnly'
  BY <1>4 DEF Bytes, HttpOnly
<1>6. FdsOwn'
  <2>1. \A u \in Task : /\ tasks'[u].fd = tasks[u].fd
                        /\ tasks'[u].state = "IDLE" <=> tasks[u].state = "IDLE"
    BY <1>3, <1>4
  <2>2. \A i \in 1 .. Len(cq') : i + 1 \in 1 .. Len(cq) /\ cq'[i] = cq[i + 1]
    BY <1>2 DEF n
  <2>3. \A i, j \in 1 .. Len(cq') : i + 1 = j + 1 => i = j
    BY <1>2
  <2> QED BY <1>1, <2>1, <2>2, <2>3 DEF Bytes, FdsOwn
<1>7. BigOwn'
  BY <1>1, <1>3, <1>4 DEF Bytes, BigOwn
<1>8. OpsOwn'
  <2>1. \A u \in Task : tasks'[u].state = "WAITING" => u # t /\ tasks'[u] = tasks[u]
    BY <1>4
  <2>2. \A i \in 1 .. Len(cq') : \E j \in 1 .. Len(cq) : cq'[i] = cq[j]
    BY <1>2 DEF n
  <2> QED BY <1>1, <2>1, <2>2 DEF Bytes, OpsOwn
<1>9. ReadOwn'
  <2>1. Cqe.res = 1 => Received(t)
    BY <1>2, <1>3 DEF Bytes, OpsOwn, n
  <2> QED BY <1>1, <1>4, <2>1 DEF Bytes, ReadOwn
<1> QED BY <1>5, <1>6, <1>7, <1>8, <1>9 DEF Bytes

LEMMA ReapAcceptBytes ==
  ASSUME Tidy, TypeOK, Rest, Bytes, ReapAccept
  PROVE  Bytes'
<1> USE DEF Peer, NewTask, Reading, Received, Suits
<1>1. /\ UNCHANGED <<big, read_buf, write_buf, inflight>>
      /\ cq # <<>> /\ cq' = Tail(cq) /\ cq \in Seq(Completion) /\ Cqe.ud = 0
      /\ sq' = sq \/ sq' = Append(sq, AcceptOp)
      /\ sock \in [Fd -> Conn]
  BY DEF ReapAccept, TypeOK, bufs
<1> DEFINE n == Len(cq)
<1>2. /\ Cqe = cq[1] /\ n \in Nat \ {0} /\ 1 \in 1 .. n /\ Len(cq') = n - 1
      /\ \A i \in 1 .. n - 1 : cq'[i] = cq[i + 1] /\ i + 1 \in 1 .. n /\ i + 1 # 1
  BY <1>1, Tailed DEF Cqe
<1>3. /\ \A i \in 1 .. Len(cq') : i + 1 \in 1 .. Len(cq) /\ cq'[i] = cq[i + 1] /\ i + 1 # 1
      /\ \A i, j \in 1 .. Len(cq') : i + 1 = j + 1 => i = j
  BY <1>2
<1> HIDE DEF n
<1>4. \A i \in 1 .. Len(sq') :
        (i \in 1 .. Len(sq) /\ sq'[i] = sq[i]) \/ sq'[i].ud = 0
  <2>1. sq \in Seq(Op) /\ AcceptOp \in Op /\ AcceptOp.ud = 0
    BY Types DEF TypeOK, AcceptOp
  <2> QED BY <1>1, <2>1, Appended
<1>5. \A u \in Task : tasks[u].state # "IDLE" => tasks[u].id # 0 /\ tasks[u].fd \in Fd
  BY DEF Rest, Ids
<1>6. ASSUME tasks' = tasks, \A u \in Task : tasks[u].state # "IDLE" =>
                               sock'[tasks[u].fd] = sock[tasks[u].fd]
      PROVE  HttpOnly' /\ BigOwn' /\ OpsOwn' /\ ReadOwn'
  <2>1. HttpOnly' /\ BigOwn' /\ ReadOwn'
    BY <1>1, <1>6 DEF Bytes, HttpOnly, BigOwn, ReadOwn
  <2>2. OpsOwn'
    BY <1>1, <1>3, <1>4, <1>5, <1>6 DEF Bytes, OpsOwn
  <2> QED BY <2>1, <2>2
<1>7. CASE UNCHANGED <<tasks, sock>>
  <2>1. FdsOwn'
    <3>1. \A i \in 1 .. Len(cq') : cq'[i].ud = 0 /\ cq'[i].res > 0 =>
            /\ sock[cq'[i].res] # 0
            /\ \A u \in Task : tasks[u].state # "IDLE" => tasks[u].fd # cq'[i].res
      BY <1>3 DEF Bytes, FdsOwn
    <3>2. \A i, j \in 1 .. Len(cq') :
            cq'[i].ud = 0 /\ cq'[i].res > 0 /\ cq'[j].ud = 0 /\ cq'[i].res = cq'[j].res => i = j
      BY <1>3 DEF Bytes, FdsOwn
    <3> QED BY <1>7, <3>1, <3>2 DEF Bytes, FdsOwn
  <2> QED BY <1>6, <1>7, <2>1 DEF Bytes
<1>8. CASE /\ Cqe.res > 0 /\ tasks' = tasks /\ sock' = [sock EXCEPT ![Cqe.res] = 0]
  <2>1. \A f : f # Cqe.res => sock'[f] = sock[f]
    BY <1>1, <1>8
  <2>2. \A u \in Task : tasks[u].state # "IDLE" => tasks[u].fd # Cqe.res
    BY <1>1, <1>2, <1>8 DEF Bytes, FdsOwn, n
  <2>3. \A i \in 1 .. Len(cq') : cq'[i].ud = 0 /\ cq'[i].res > 0 => cq'[i].res # Cqe.res
    <3>1. ASSUME NEW j \in 1 .. Len(cq), j # 1, cq[j].ud = 0, cq[j].res > 0
          PROVE  cq[j].res # cq[1].res
      BY <1>1, <1>2, <1>8, <3>1 DEF Bytes, FdsOwn, n
    <3> QED BY <1>2, <1>3, <3>1
  <2>4. FdsOwn'
    BY <1>3, <1>8, <2>1, <2>2, <2>3 DEF Bytes, FdsOwn
  <2> QED BY <1>6, <1>8, <2>1, <2>2, <2>4 DEF Bytes
<1>9. ASSUME NEW t \in Task, Free(t), Cqe.res > 0, sock' = sock,
             tasks' = [tasks EXCEPT ![t] =
               [Idle EXCEPT !.id = next_id, !.state = "READY", !.fd = Cqe.res]]
      PROVE  Bytes'
  <2>1. /\ tasks'[t].state = "READY" /\ tasks'[t].handler_state = "RECV"
        /\ tasks'[t].io_result = Fresh /\ tasks'[t].fd = Cqe.res
        /\ \A u \in Task \ {t} : tasks'[u] = tasks[u]
    BY <1>9 DEF Idle, FirstState, Tidy, Clean, TypeOK
  <2>2. HttpOnly' /\ ReadOwn'
    BY <1>1, <1>9, <2>1 DEF Bytes, HttpOnly, HttpStates, ReadOwn, Fresh
  <2>3. BigOwn'
    BY <1>1, <1>9, <2>1 DEF Bytes, BigOwn
  <2>4. OpsOwn'
    BY <1>1, <1>3, <1>4, <1>5, <1>9, <2>1 DEF Bytes, OpsOwn
  <2>5. FdsOwn'
    <3>1. /\ sock[Cqe.res] # 0
          /\ \A u \in Task : tasks[u].state # "IDLE" => tasks[u].fd # Cqe.res
          /\ \A j \in 1 .. Len(cq) : j # 1 /\ cq[j].ud = 0 /\ cq[j].res > 0 => cq[j].res # Cqe.res
      BY <1>1, <1>2, <1>9 DEF Bytes, FdsOwn, n
    <3>2. \A u \in Task : tasks'[u].state # "IDLE" =>
            (u = t /\ tasks'[u].fd = Cqe.res) \/ (u # t /\ tasks'[u] = tasks[u])
      BY <2>1
    <3>3. \A u \in Task : tasks'[u].state # "IDLE" => Peer(u)' # 0
      BY <1>9, <3>1, <3>2 DEF Bytes, FdsOwn
    <3>4. \A u, v \in Task :
            tasks'[u].state # "IDLE" /\ tasks'[v].state # "IDLE" /\ tasks'[u].fd = tasks'[v].fd
              => u = v
      BY <3>1, <3>2 DEF Bytes, FdsOwn
    <3>5. \A i \in 1 .. Len(cq') : cq'[i].ud = 0 /\ cq'[i].res > 0 =>
            /\ sock'[cq'[i].res] # 0
            /\ \A u \in Task : tasks'[u].state # "IDLE" => tasks'[u].fd # cq'[i].res
      BY <1>3, <1>9, <3>1, <3>2 DEF Bytes, FdsOwn
    <3>6. \A i, j \in 1 .. Len(cq') :
            cq'[i].ud = 0 /\ cq'[i].res > 0 /\ cq'[j].ud = 0 /\ cq'[i].res = cq'[j].res => i = j
      BY <1>3 DEF Bytes, FdsOwn
    <3> QED BY <3>3, <3>4, <3>5, <3>6 DEF FdsOwn
  <2> QED BY <2>2, <2>3, <2>4, <2>5 DEF Bytes
<1> QED BY <1>7, <1>8, <1>9 DEF ReapAccept, HandleAccept

LEMMA KernelBytes ==
  ASSUME Tidy, TypeOK, Rest, Bytes, Kernel
  PROVE  Bytes'
<1> USE DEF Peer, NewTask, Reading, Received
<1>1. PICK o \in inflight :
        RecvCompletes(o) \/ SendCompletes(o) \/ Completes(o)
          \/ AcceptCompletes(o) \/ AcceptFails(o)
  BY DEF Kernel
<1>2. /\ UNCHANGED <<tasks, big, sq, write_buf>>
      /\ o.op = "accept" <=> o.ud = 0
      /\ o.op # "send_zc" /\ o.ud \in Nat /\ o.len \in Nat /\ o.on \in Conn /\ o.slot \in Task
      /\ cq \in Seq(Completion) /\ sock \in [Fd -> Conn] /\ read_buf \in [Task -> Conn]
      /\ accepted + 1 # 0
  <2>1. UNCHANGED <<tasks, big, sq, write_buf>>
    BY <1>1 DEF Unchanging, RecvCompletes, SendCompletes, Completes, AcceptCompletes, AcceptFails
  <2>2. (o.op = "accept" <=> o.ud = 0) /\ o.op # "send_zc" /\ o.on \in Conn
    BY DEF Rest, WellFormed, Tidy, Clean
  <2>3. o \in Op /\ cq \in Seq(Completion) /\ sock \in [Fd -> Conn] /\ read_buf \in [Task -> Conn]
        /\ accepted \in Conn
    BY DEF TypeOK
  <2>4. o.ud \in Nat /\ o.len \in Nat /\ o.slot \in Task /\ accepted \in Nat
    BY <2>3, Types DEF Op
  <2> QED BY <2>1, <2>2, <2>3, <2>4
<1> DEFINE m == Len(cq)
<1>3. ASSUME NEW res \in Int, NEW more \in BOOLEAN, Post(o, res, more)
      PROVE  /\ Len(cq') = m + 1 /\ m \in Nat /\ cq'[m + 1].ud = o.ud /\ cq'[m + 1].res = res
             /\ \A i \in 1 .. m : cq'[i] = cq[i]
             /\ \A i \in 1 .. Len(cq') : i = m + 1 \/ i \in 1 .. m
  <2> DEFINE c == [ud |-> o.ud, res |-> res, more |-> more]
  <2>1. cq' = Append(cq, c)
    BY <1>3 DEF Post
  <2>2. c \in Completion /\ c.ud = o.ud /\ c.res = res
    BY <1>2 DEF Completion
  <2> HIDE DEF c
  <2>3. /\ Len(cq') = m + 1 /\ m \in Nat /\ cq'[m + 1] = c
        /\ \A i \in 1 .. m : cq'[i] = cq[i]
    BY <1>2, <2>1, <2>2, Appended
  <2> QED BY <2>2, <2>3
<1> HIDE DEF m
(* An operation of a task: its completion is the task's. *)
<1>4. ASSUME o.ud # 0, sock' = sock, inflight' = inflight \ {o},
             NEW res \in Int, NEW more \in BOOLEAN, Post(o, res, more),
             \/ read_buf' = read_buf
             \/ read_buf' = [read_buf EXCEPT ![o.slot] = o.on],
             o.op = "recv" /\ res = 1 => read_buf' = [read_buf EXCEPT ![o.slot] = o.on]
      PROVE  Bytes'
  <2>1. PICK t \in Task : tasks[t].id = o.ud /\ tasks[t].state = "WAITING"
    BY <1>4 DEF Rest, Owned, Waiting
  <2>2. /\ o.slot = t /\ o.on = Peer(t) /\ (Reading(t) => o.op = "recv")
    BY <2>1 DEF Bytes, OpsOwn, Suits
  <2>3. /\ Len(cq') = m + 1 /\ m \in Nat /\ cq'[m + 1].ud = o.ud /\ cq'[m + 1].res = res
        /\ \A i \in 1 .. m : cq'[i] = cq[i]
        /\ \A i \in 1 .. Len(cq') : i = m + 1 \/ i \in 1 .. m
    BY <1>3, <1>4
  <2>4. \A u \in Task : read_buf'[u] = read_buf[u] \/ (u = t /\ read_buf'[u] = Peer(t))
    BY <1>2, <1>4, <2>2
  <2>5. ASSUME NEW u \in Task, Received(u) PROVE Received(u)'
    BY <1>2, <1>4, <2>4, <2>5
  <2>6. HttpOnly' /\ BigOwn'
    BY <1>2, <1>4 DEF Bytes, HttpOnly, BigOwn
  <2>7. FdsOwn'
    <3>1. \A i \in 1 .. Len(cq') : cq'[i].ud = 0 => i \in 1 .. Len(cq) /\ cq'[i] = cq[i]
      BY <1>4, <2>3 DEF m
    <3> QED BY <1>2, <1>4, <3>1 DEF Bytes, FdsOwn
  <2>8. ReadOwn'
    BY <1>2, <1>4, <2>4 DEF Bytes, ReadOwn
  <2>9. OpsOwn'
    <3> SUFFICES ASSUME NEW u \in Task, tasks[u].state = "WAITING"
                 PROVE  /\ \A i \in 1 .. Len(sq) : sq[i].ud = tasks[u].id =>
                             sq[i].slot = u /\ sq[i].on = tasks[u].fd /\ Suits(u, sq[i].op)'
                        /\ \A p \in inflight' : p.ud = tasks[u].id =>
                             p.slot = u /\ p.on = Peer(u) /\ Suits(u, p.op)'
                        /\ \A i \in 1 .. Len(cq') :
                             cq'[i].ud = tasks[u].id /\ cq'[i].res = 1 => Received(u)'
      BY <1>2, <1>4 DEF OpsOwn
    <3>1. /\ \A i \in 1 .. Len(sq) : sq[i].ud = tasks[u].id =>
               sq[i].slot = u /\ sq[i].on = tasks[u].fd /\ Suits(u, sq[i].op)
          /\ \A p \in inflight : p.ud = tasks[u].id =>
               p.slot = u /\ p.on = Peer(u) /\ Suits(u, p.op)
          /\ \A i \in 1 .. m : cq[i].ud = tasks[u].id /\ cq[i].res = 1 => Received(u)
      BY DEF Bytes, OpsOwn, m
    <3>2. /\ \A i \in 1 .. Len(sq) : sq[i].ud = tasks[u].id =>
               sq[i].slot = u /\ sq[i].on = tasks[u].fd /\ Suits(u, sq[i].op)'
          /\ \A p \in inflight' : p.ud = tasks[u].id =>
               p.slot = u /\ p.on = Peer(u) /\ Suits(u, p.op)'
      BY <1>2, <1>4, <3>1 DEF Suits
    <3>3. ASSUME NEW i \in 1 .. Len(cq'), cq'[i].ud = tasks[u].id, cq'[i].res = 1
          PROVE  Received(u)'
      <4>1. CASE i \in 1 .. m
        BY <2>3, <2>5, <3>1, <3>3, <4>1
      <4>2. CASE i = m + 1
        <5>1. u = t /\ res = 1
          BY <2>1, <2>3, <3>3, <4>2 DEF Rest, Ids
        <5>2. Reading(t) => read_buf'[t] = Peer(t)
          BY <1>2, <1>4, <2>2, <5>1
        <5> QED BY <1>2, <1>4, <5>1, <5>2
      <4> QED BY <2>3, <4>1, <4>2
    <3> QED BY <3>2, <3>3
  <2> QED BY <2>6, <2>7, <2>8, <2>9 DEF Bytes
<1>5. CASE RecvCompletes(o)
  <2>1. PICK res \in -1 .. o.len :
          /\ Post(o, res, FALSE)
          /\ read_buf' = IF o.op = "recv" /\ res > 0
                         THEN [read_buf EXCEPT ![o.slot] = o.on] ELSE read_buf
    BY <1>5 DEF RecvCompletes
  <2>2. res \in Int /\ FALSE \in BOOLEAN
    BY <1>2
  <2>3. o.ud # 0 /\ sock' = sock /\ inflight' = inflight \ {o}
    BY <1>2, <1>5 DEF RecvCompletes
  <2>4. /\ read_buf' = read_buf \/ read_buf' = [read_buf EXCEPT ![o.slot] = o.on]
        /\ o.op = "recv" /\ res = 1 => read_buf' = [read_buf EXCEPT ![o.slot] = o.on]
    BY <2>1
  <2> QED BY <1>4, <2>1, <2>2, <2>3, <2>4
<1>6. CASE SendCompletes(o)
  <2>1. PICK res \in (-1 .. o.len) \ {0} :
          /\ Post(o, res, o.op = "send_zc" /\ res > 0)
          /\ inflight' = (inflight \ {o}) \cup
               (IF o.op = "send_zc" /\ res > 0 THEN {[o EXCEPT !.op = "notif"]} ELSE {})
    BY <1>6 DEF SendCompletes
  <2>2. ~(o.op = "send_zc" /\ res > 0) /\ res \in Int /\ FALSE \in BOOLEAN
    BY <1>2
  <2>3. (o.op = "send_zc" /\ res > 0) = FALSE
    BY <2>2
  <2>4. Post(o, res, FALSE) /\ inflight' = inflight \ {o}
    BY <2>1, <2>2, <2>3
  <2>5. o.ud # 0 /\ UNCHANGED <<sock, read_buf>> /\ o.op # "recv"
    BY <1>2, <1>6 DEF SendCompletes
  <2> QED BY <1>4, <2>2, <2>4, <2>5
<1>7. CASE Completes(o)
  <2>1. /\ o.ud # 0 /\ UNCHANGED <<sock, read_buf>> /\ o.op # "recv"
        /\ inflight' = inflight \ {o} /\ Post(o, 0, FALSE)
    BY <1>2, <1>7, Zenon DEF Completes
  <2>2. 0 \in Int /\ FALSE \in BOOLEAN
    OBVIOUS
  <2> QED BY <1>4, <2>1, <2>2
(* An accept: no task's. *)
<1>8. ASSUME o.ud = 0, read_buf' = read_buf, inflight' \subseteq inflight,
             NEW res \in Int, NEW more \in BOOLEAN, Post(o, res, more),
             \/ sock' = sock /\ ~(res > 0)
             \/ /\ res \in Fd /\ sock[res] = 0
                /\ sock' = [sock EXCEPT ![res] = accepted + 1]
      PROVE  Bytes'
  <2>1. /\ Len(cq') = m + 1 /\ m \in Nat /\ cq'[m + 1].ud = o.ud /\ cq'[m + 1].res = res
        /\ \A i \in 1 .. m : cq'[i] = cq[i]
        /\ \A i \in 1 .. Len(cq') : i = m + 1 \/ i \in 1 .. m
    BY <1>3, <1>8
  <2>2. \A f \in Fd : sock[f] # 0 => sock'[f] = sock[f]
    BY <1>2, <1>8
  <2>3. \A u \in Task : tasks[u].state # "IDLE" =>
          tasks[u].id # 0 /\ sock[tasks[u].fd] # 0 /\ sock'[tasks[u].fd] = sock[tasks[u].fd]
    BY <2>2 DEF Bytes, FdsOwn, Rest, Ids
  <2>4. HttpOnly' /\ BigOwn' /\ ReadOwn'
    BY <1>2, <1>8, <2>3 DEF Bytes, HttpOnly, BigOwn, ReadOwn
  <2>5. OpsOwn'
    <3>1. \A i \in 1 .. Len(cq') : cq'[i].ud # 0 => i \in 1 .. Len(cq) /\ cq'[i] = cq[i]
      BY <1>8, <2>1 DEF m
    <3> QED BY <1>2, <1>8, <2>3, <3>1 DEF Bytes, OpsOwn, Suits
  <2>6. FdsOwn'
    <3>1. \A u \in Task : tasks'[u].state # "IDLE" => Peer(u)' # 0
      BY <1>2, <2>3
    <3>2. \A u, v \in Task :
            tasks'[u].state # "IDLE" /\ tasks'[v].state # "IDLE" /\ tasks'[u].fd = tasks'[v].fd
              => u = v
      BY <1>2 DEF Bytes, FdsOwn
    <3>3. /\ \A i \in 1 .. m : cq[i].ud = 0 /\ cq[i].res > 0 =>
               /\ sock[cq[i].res] # 0
               /\ \A u \in Task : tasks[u].state # "IDLE" => tasks[u].fd # cq[i].res
          /\ \A i, j \in 1 .. m :
               cq[i].ud = 0 /\ cq[i].res > 0 /\ cq[j].ud = 0 /\ cq[i].res = cq[j].res => i = j
      BY DEF Bytes, FdsOwn, m
    <3>4. res > 0 => /\ sock[res] = 0 /\ sock'[res] # 0
                     /\ \A u \in Task : tasks[u].state # "IDLE" => tasks[u].fd # res
                     /\ \A i \in 1 .. m : cq[i].ud = 0 /\ cq[i].res > 0 => cq[i].res # res
      BY <1>2, <1>8, <2>3, <3>3
    <3>5. \A i \in 1 .. Len(cq') : cq'[i].ud = 0 /\ cq'[i].res > 0 =>
            /\ sock'[cq'[i].res] # 0
            /\ \A u \in Task : tasks'[u].state # "IDLE" => tasks'[u].fd # cq'[i].res
      <4>1. \A i \in 1 .. m : cq[i].ud = 0 /\ cq[i].res > 0 => sock'[cq[i].res] = sock[cq[i].res]
        BY <2>2, <3>3 DEF Rest, WellFormed, m
      <4> QED BY <1>2, <2>1, <3>3, <3>4, <4>1
    <3>6. \A i, j \in 1 .. Len(cq') :
            cq'[i].ud = 0 /\ cq'[i].res > 0 /\ cq'[j].ud = 0 /\ cq'[i].res = cq'[j].res => i = j
      BY <2>1, <3>3, <3>4
    <3> QED BY <3>1, <3>2, <3>5, <3>6 DEF FdsOwn
  <2> QED BY <2>4, <2>5, <2>6 DEF Bytes
<1>9. CASE AcceptCompletes(o)
  <2>1. PICK more \in BOOLEAN, fd \in Fd :
          /\ sock[fd] = 0 /\ sock' = [sock EXCEPT ![fd] = accepted + 1]
          /\ Post(o, fd, more)
          /\ inflight' = IF more THEN inflight ELSE inflight \ {o}
    BY <1>9 DEF AcceptCompletes
  <2>2. o.ud = 0 /\ read_buf' = read_buf /\ inflight' \subseteq inflight /\ fd \in Int
    BY <1>2, <1>9, <2>1, Types DEF AcceptCompletes
  <2> QED BY <1>8, <2>1, <2>2
<1>10. CASE AcceptFails(o)
  <2>1. /\ o.ud = 0 /\ UNCHANGED <<read_buf, sock>> /\ inflight' \subseteq inflight
        /\ Post(o, -1, FALSE)
    BY <1>2, <1>10, Zenon DEF AcceptFails
  <2>2. -1 \in Int /\ ~(-1 > 0)
    OBVIOUS
  <2> QED BY <1>8, <2>1, <2>2
<1> QED BY <1>1, <1>5, <1>6, <1>7, <1>9, <1>10

LEMMA BytesSteps == TypeOK /\ Rest /\ (Tidy => Bytes) /\ [Next]_vars => (Tidy => Bytes)'
<1> SUFFICES ASSUME TypeOK, Rest, Tidy => Bytes, [Next]_vars, Tidy'
             PROVE  Bytes'
  OBVIOUS
<1>1. Tidy /\ Bytes
  BY IdsGrow DEF Tidy, Clean
<1>2. ASSUME UNCHANGED <<tasks, big, sq, inflight, cq, sock, read_buf, write_buf>>
      PROVE  Bytes'
  BY <1>1, <1>2 DEF Bytes, HttpOnly, FdsOwn, BigOwn, OpsOwn, ReadOwn, Peer, NewTask, Reading,
                    Received, Suits
<1>3. CASE Enter \/ Return \/ Turn \/ UNCHANGED vars
  BY <1>2, <1>3 DEF Enter, Return, Turn, vars, kernel, bufs
<1>4. CASE Submit \/ ReapAccept \/ ReapTimeout \/ ReapTask
  BY <1>1, <1>4, SubmitBytes, ReapAcceptBytes, ReapTaskBytes, NoTimeout DEF Tidy
<1>5. CASE \E t \in Task : HttpHandler(t) \/ TlsHandler(t)
  BY <1>1, <1>5, HandlerBytes
<1>6. CASE Kernel
  BY <1>1, <1>6, KernelBytes
<1> QED BY <1>3, <1>4, <1>5, <1>6 DEF Next, Server, Loop

(* Without SEND_ZC and TLS, and before a task has the idle timer's number, *)
(* operations, buffers and descriptors of a slot are its connection's.     *)
THEOREM BuffersInvariance ==
  ASSUME ~UseSendZc, ~Tls
  PROVE  Spec => [](next_id <= TimeoutUd => Bytes)
<1>1. Init => Bytes
  <2> SUFFICES ASSUME Init PROVE Bytes
    OBVIOUS
  <2>1. /\ \A t \in Task : tasks[t].state = "IDLE" /\ tasks[t].handler_state = "RECV"
        /\ Len(cq) = 0
    BY DEF Init, Idle, FirstState
  <2> QED BY <2>1 DEF Bytes, HttpOnly, HttpStates, FdsOwn, BigOwn, OpsOwn, ReadOwn
<1>2. TypeOK /\ Rest /\ (Tidy => Bytes) /\ [Next]_vars => (Tidy => Bytes)'
  BY BytesSteps
<1>3. Tidy <=> next_id <= TimeoutUd
  BY DEF Tidy, Clean, Early
<1> QED BY <1>1, <1>2, <1>3, ServerInvariance, PTL DEF Spec

(* A handler that reads a request finds bytes of its own peer in its       *)
(* buffer, however completions and slots are reused.                       *)
THEOREM HandlersReadTheirOwn ==
  ASSUME ~UseSendZc, ~Tls
  PROVE  Spec => [](next_id <= TimeoutUd => ReadsOwnBytes)
<1>1. Bytes => ReadsOwnBytes
  BY DEF Bytes, ReadOwn, Received, Reading, ReadsOwnBytes, Polled, Result
<1> QED BY <1>1, BuffersInvariance, PTL

(* What the kernel sends on a connection was written for it.               *)
THEOREM ConnectionsAreSentTheirOwn ==
  ASSUME ~UseSendZc, ~Tls
  PROVE  Spec => [](next_id <= TimeoutUd => SendsOwnBytes)
<1>1. TypeOK /\ Rest => (next_id <= TimeoutUd => (Bytes => SendsOwnBytes))
  <2> SUFFICES ASSUME TypeOK, Rest, Tidy, Bytes, NEW o \in inflight, o.op \in {"send", "send_zc"}
               PROVE  write_buf[o.slot] = o.on
    BY DEF SendsOwnBytes, Tidy, Clean, Early
  <2>1. o.op = "send" /\ o.ud # 0
    BY DEF Rest, WellFormed, Tidy, Clean
  <2>2. PICK t \in Task : tasks[t].id = o.ud /\ tasks[t].state = "WAITING"
    BY <2>1 DEF Rest, Owned, Waiting
  <2> QED BY <2>1, <2>2 DEF Bytes, OpsOwn, Suits
<1> QED BY <1>1, BuffersInvariance, ServerInvariance, PTL

(* No connection finds the heap buffer of the one that had its slot        *)
(* before.                                                                 *)
THEOREM HeapBuffersAreOwn ==
  ASSUME ~UseSendZc, ~Tls
  PROVE  Spec => [](next_id <= TimeoutUd => BigIsOwn)
<1>1. Bytes => BigIsOwn
  BY DEF Bytes, BigOwn, NewTask, BigIsOwn, Result
<1> QED BY <1>1, BuffersInvariance, PTL

=============================================================================
