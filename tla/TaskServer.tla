----------------------------- MODULE TaskServer -----------------------------
(***************************************************************************)
(* Valet's event loop: the task server of ritzlib, the HTTP or TLS handler *)
(* it runs for every connection, and the io_uring below them.              *)
(*                                                                         *)
(* One thread.  Each turn of the loop polls, in slot order, the tasks that *)
(* are READY, hands the SQEs they queued to the kernel and waits, then     *)
(* reaps every completion; an SQE names its file descriptor and carries    *)
(* the task's id, which is how its completion finds the task again.  A     *)
(* handler returns "pending" (with one operation armed) or "done", and     *)
(* then task_complete closes the descriptor and frees the slot.            *)
(*                                                                         *)
(* The kernel completes what is in flight at any time and in any order.    *)
(* It resolves a descriptor when it takes the SQE, keeps the connection    *)
(* open until the operation ends, and gives accept the lowest free number. *)
(***************************************************************************)
EXTENDS Integers, Sequences, FiniteSets

CONSTANTS
  NTasks,       \* slots in the pool (MAX_TASKS, 256)
  SqEntries,    \* submission queue entries (256)
  NFds,         \* descriptors accept can hand out
  MaxConnections, \* TaskServer.max_connections, 0 for no limit
  Multishot,    \* task_server_run_multishot instead of task_server_run
  UseSendZc,    \* Valet.use_send_zc
  TimeoutUd,    \* TaskServer.timeout_user_data (0x7FFFFFFE)
  IdleTimeout,  \* idle_timeout is set
  Tls,          \* valet_handle_tls_connection instead of valet_handle_connection
  MaxAccepted   \* bound: connections the kernel accepts

ASSUME SizesAssumption ==
  /\ NTasks \in Nat \ {0} /\ SqEntries \in Nat \ {0} /\ NFds \in Nat
  /\ MaxConnections \in Nat /\ TimeoutUd \in Nat \ {0} /\ MaxAccepted \in Nat
ASSUME ModesAssumption ==
  /\ Multishot \in BOOLEAN /\ UseSendZc \in BOOLEAN
  /\ IdleTimeout \in BOOLEAN /\ Tls \in BOOLEAN

Task == 0 .. NTasks - 1
Fd   == 1 .. NFds
Conn == 0 .. MaxAccepted       \* 0: no connection

Fresh == 99                    \* TASK_IO_FRESH
Full  == 2                     \* units in a whole response, or a whole body

VARIABLES
  tasks,        \* the pool's slots
  big,          \* g_bigbufs: a slot's heap buffer and the connection it is for
  tls_data,     \* TlsTaskData is allocated for the slot
  next_id, active_count,       \* TaskPool
  phase,        \* "poll", "enter" (in io_uring_enter), "reap" or "stopped"
  sq,           \* SQEs queued
  inflight,     \* operations the kernel works on
  cq,           \* CQEs not reaped
  sock,         \* the connection behind every descriptor
  accepted,     \* connections accepted so far
  read_buf,     \* the connection a slot's read buffer was last filled from
  write_buf     \* the connection a slot's write buffer was last filled for

kernel == <<inflight, cq, sock, accepted>>
bufs   == <<read_buf, write_buf>>
vars == <<tasks, big, tls_data, next_id, active_count, phase, sq, kernel, bufs>>

FirstState == IF Tls THEN "INIT" ELSE "RECV"
Idle == [id |-> 0, state |-> "IDLE", fd |-> 0, io_result |-> Fresh,
         handler_state |-> FirstState, keep |-> TRUE]
NoBig == [mode |-> "NONE", left |-> 0, on |-> 0]
AcceptOp == [ud |-> 0, op |-> "accept", slot |-> 0, on |-> 0, len |-> 0]

Init ==
  /\ tasks = [t \in Task |-> Idle]
  /\ big = [t \in Task |-> NoBig]
  /\ tls_data = [t \in Task |-> FALSE]
  /\ next_id = 1 /\ active_count = 0
  /\ phase = "poll"
  /\ sq = <<AcceptOp>>
  /\ inflight = {}
  /\ cq = <<>>
  /\ sock = [f \in Fd |-> 0]
  /\ accepted = 0
  /\ read_buf = [t \in Task |-> 0]
  /\ write_buf = [t \in Task |-> 0]

-----------------------------------------------------------------------------
(* What a handler can do before it returns.                                *)

Peer(t) == sock[tasks[t].fd]

Room == Len(sq) < SqEntries                       \* uring_get_sqe

Queue(t, op, len) ==
  sq' = Append(sq, [ud |-> tasks[t].id, op |-> op, slot |-> t,
                    on |-> tasks[t].fd, len |-> len])

(* Mutant: the connection is not counted out. *)
CompleteUncounted(t) ==
  /\ tasks' = [tasks EXCEPT ![t] = [@ EXCEPT !.id = 0, !.state = "IDLE", !.fd = 0]]
  /\ sock' = [sock EXCEPT ![tasks[t].fd] = 0]
  /\ UNCHANGED active_count

(* task_complete: close the descriptor, free the slot.                     *)
Complete(t) ==
  /\ tasks' = [tasks EXCEPT ![t] = [@ EXCEPT !.id = 0, !.state = "IDLE", !.fd = 0]]
  /\ sock' = [sock EXCEPT ![tasks[t].fd] = 0]
  /\ active_count' = active_count - 1

(* Mutant: a full submission queue goes unnoticed. *)
PendBlind(t, hs, keep, op, len) ==
  /\ IF Room THEN Queue(t, op, len) ELSE UNCHANGED sq
  /\ tasks' = [tasks EXCEPT ![t] =
       [@ EXCEPT !.state = "WAITING", !.handler_state = hs, !.keep = keep]]
  /\ UNCHANGED <<sock, active_count>>

(* Return "pending" with an operation armed, in handler state hs...        *)
Pend(t, hs, keep, op, len) ==
  /\ Room
  /\ Queue(t, op, len)
  /\ tasks' = [tasks EXCEPT ![t] =
       [@ EXCEPT !.state = "WAITING", !.handler_state = hs, !.keep = keep]]
  /\ UNCHANGED <<sock, active_count>>

(* ...or "done".                                                           *)
Done(t) == Complete(t) /\ UNCHANGED sq

(* Without an SQE the connection is given up.                              *)
PendOrDone(t, hs, keep, op, len) ==
  Pend(t, hs, keep, op, len) \/ (~Room /\ Done(t))

SendOp == IF UseSendZc THEN "send_zc" ELSE "send"

(* valet_task_send of a response built in write_buf.                       *)
Reply(t, keep) ==
  /\ write_buf' = [write_buf EXCEPT ![t] = Peer(t)]
  /\ PendOrDone(t, "SEND", keep, SendOp, Full)

(* task_reset_for_recv, or shut the connection down and be done.  It also  *)
(* clears io_result, which is next read after a completion has set it.     *)
NextRequest(t, keep) ==
  IF keep THEN PendOrDone(t, "RECV", TRUE, "recv", 1) ELSE Done(t)

Polled(t, hs) ==
  /\ phase = "poll"
  /\ tasks[t].state = "READY" /\ tasks[t].handler_state = hs
  /\ \A u \in Task : u < t => tasks[u].state # "READY"

Result(t) == tasks[t].io_result

Handled == UNCHANGED <<next_id, phase, inflight, cq, accepted, read_buf>>
Plain   == Handled /\ UNCHANGED tls_data

-----------------------------------------------------------------------------
(* valet_handle_connection.                                                *)

(* Mutant: the last connection's buffer is not dropped. *)
RecvFreshKeepsBuffer(t) ==
  /\ ~Tls /\ Polled(t, "RECV") /\ Result(t) = Fresh
  /\ PendOrDone(t, "RECV", TRUE, "recv", 1)
  /\ UNCHANGED <<big, write_buf>> /\ Plain

(* A new task drops the buffer its slot's last connection may have left.   *)
RecvFresh(t) ==
  /\ ~Tls /\ Polled(t, "RECV") /\ Result(t) = Fresh
  /\ big' = [big EXCEPT ![t] = NoBig]
  /\ PendOrDone(t, "RECV", TRUE, "recv", 1)
  /\ UNCHANGED write_buf /\ Plain

(* Mutant: a 400 is queued, and not waited for. *)
RecvEndReplies(t) ==
  /\ ~Tls /\ Polled(t, "RECV") /\ Result(t) # Fresh
  /\ big' = [big EXCEPT ![t] = NoBig]
  /\ write_buf' = [write_buf EXCEPT ![t] = Peer(t)]
  /\ IF Room THEN Queue(t, "send", Full) ELSE UNCHANGED sq
  /\ Complete(t)
  /\ Plain

(* The peer is gone, or what it sent is no request.                        *)
RecvEnd(t) ==
  /\ ~Tls /\ Polled(t, "RECV") /\ Result(t) # Fresh
  /\ big' = [big EXCEPT ![t] = NoBig]
  /\ Done(t)
  /\ UNCHANGED write_buf /\ Plain

(* The body is not all there: read on, into a heap buffer.                 *)
RecvBody(t) ==
  /\ ~Tls /\ Polled(t, "RECV") /\ Result(t) \in 1 .. Full
  /\ LET got  == big[t].mode = "RECV"
         left == IF got THEN big[t].left - Result(t) ELSE Full
     IN /\ left > 0
        /\ \/ /\ Pend(t, "RECV", tasks[t].keep, "recv_buf", left)
              /\ big' = [big EXCEPT ![t] = [mode |-> "RECV", left |-> left, on |-> Peer(t)]]
           \/ /\ ~Room /\ Done(t)
              /\ big' = [big EXCEPT ![t] = NoBig]
  /\ UNCHANGED write_buf /\ Plain

(* The request is complete.  A heap buffer it was read into stays until    *)
(* the response is sent, one left by an earlier request goes.              *)
Parsed(t) ==
  /\ ~Tls /\ Polled(t, "RECV") /\ Result(t) \in 1 .. Full
  /\ big[t].mode = "RECV" => big[t].left <= Result(t)
  /\ big' = [big EXCEPT ![t] =
       IF @.mode = "RECV" THEN [@ EXCEPT !.mode = "PARSED", !.left = 0] ELSE NoBig]

(* A route or a middleware answers, or it is a 404, a 413 or a 500...      *)
ParseReply(t) ==
  /\ Parsed(t)
  /\ \E keep \in BOOLEAN : Reply(t, keep)
  /\ Plain

(* ...or valet has answered with blocking writes, or has nothing to say... *)
ParseServed(t) ==
  /\ Parsed(t)
  /\ \E keep \in BOOLEAN : NextRequest(t, keep)
  /\ UNCHANGED write_buf /\ Plain

(* ...or the request goes to a zeus worker, and a NOP wakes the task up.   *)
ParseProxied(t) ==
  /\ Parsed(t)
  /\ \E keep \in BOOLEAN : PendOrDone(t, "PROXY_WAIT", keep, "nop", 0)
  /\ UNCHANGED write_buf /\ Plain

(* The proxy continuation: nothing yet...                                  *)
ProxyMiss(t) ==
  /\ Polled(t, "PROXY_WAIT")
  /\ PendOrDone(t, "PROXY_WAIT", tasks[t].keep, "nop", 0)
  /\ UNCHANGED <<big, write_buf>> /\ Plain

(* ...a response, or an error reply, that fits write_buf...                *)
ProxyReply(t) ==
  /\ Polled(t, "PROXY_WAIT")
  /\ Reply(t, tasks[t].keep)
  /\ UNCHANGED big /\ Plain

(* ...or one that needs a heap buffer.                                     *)
ProxyReplyBig(t) ==
  /\ Polled(t, "PROXY_WAIT")
  /\ \/ /\ Pend(t, "SEND", tasks[t].keep, "send_buf", Full)
        /\ big' = [big EXCEPT ![t] = [mode |-> "SEND", left |-> Full, on |-> Peer(t)]]
     \/ /\ ~Room /\ Done(t)
        /\ big' = [big EXCEPT ![t] = NoBig]
  /\ UNCHANGED write_buf /\ Plain

SendFailed(t) ==
  Result(t) < 0 \/ (big[t].mode = "SEND" /\ Result(t) = 0)
SendEnd(t) ==
  /\ ~Tls /\ Polled(t, "SEND") /\ SendFailed(t)
  /\ big' = [big EXCEPT ![t] = NoBig]
  /\ Done(t)
  /\ UNCHANGED write_buf /\ Plain

(* A large response is resumed where the kernel stopped.                   *)
SendMore(t) ==
  /\ ~Tls /\ Polled(t, "SEND") /\ ~SendFailed(t)
  /\ big[t].mode = "SEND" /\ big[t].left > Result(t)
  /\ LET left == big[t].left - Result(t)
     IN \/ /\ Pend(t, "SEND", tasks[t].keep, "send_buf", left)
           /\ big' = [big EXCEPT ![t].left = left]
        \/ /\ ~Room /\ Done(t)
           /\ big' = [big EXCEPT ![t] = NoBig]
  /\ UNCHANGED write_buf /\ Plain

(* Mutant: the next recv is armed before the keep-alive limit is checked. *)
SendDoneArmsFirst(t) ==
  /\ ~Tls /\ Polled(t, "SEND") /\ ~SendFailed(t)
  /\ big[t].mode = "SEND" => big[t].left <= Result(t)
  /\ big' = [big EXCEPT ![t] = IF @.mode = "RECV" THEN @ ELSE NoBig]
  /\ \/ tasks[t].keep /\ NextRequest(t, TRUE)
     \/ ~tasks[t].keep /\ Room /\ Queue(t, "recv", 1) /\ Complete(t)
  /\ UNCHANGED write_buf /\ Plain

(* The response is sent; a short send of a small one is not noticed.       *)
SendDone(t) ==
  /\ ~Tls /\ Polled(t, "SEND") /\ ~SendFailed(t)
  /\ big[t].mode = "SEND" => big[t].left <= Result(t)
  /\ big' = [big EXCEPT ![t] = IF @.mode = "RECV" THEN @ ELSE NoBig]
  /\ NextRequest(t, tasks[t].keep)
  /\ UNCHANGED write_buf /\ Plain

HttpHandler(t) ==
  \/ RecvFresh(t) \/ RecvEnd(t) \/ RecvBody(t)
  \/ ParseReply(t) \/ ParseServed(t) \/ ParseProxied(t)
  \/ ProxyMiss(t) \/ ProxyReply(t) \/ ProxyReplyBig(t)
  \/ SendEnd(t) \/ SendMore(t) \/ SendDone(t)

-----------------------------------------------------------------------------
(* valet_handle_tls_connection: every "done" frees the TlsTaskData.        *)

(* Mutant: a failed handshake leaves the TlsTaskData mapped. *)
TlsEndLeaky(t) == Done(t) /\ UNCHANGED tls_data

TlsEnd(t) == Done(t) /\ tls_data' = [tls_data EXCEPT ![t] = FALSE]

TlsPend(t, hs, keep, op, len) ==
  \/ Pend(t, hs, keep, op, len) /\ tls_data' = [tls_data EXCEPT ![t] = TRUE]
  \/ ~Room /\ TlsEnd(t)

(* Allocate the TLS state and wait for the ClientHello.                    *)
TlsInit(t) ==
  /\ Polled(t, "INIT")
  /\ TlsPend(t, "HANDSHAKE", TRUE, "recv", 1) \/ TlsEnd(t)
  /\ UNCHANGED <<big, write_buf>> /\ Handled

(* The peer left, the handshake failed, or what came is no request.        *)
TlsRecvEnd(t) ==
  /\ Polled(t, "HANDSHAKE") \/ (Tls /\ Polled(t, "RECV"))
  /\ TlsEnd(t)
  /\ UNCHANGED <<big, write_buf>> /\ Handled

(* A handshake record: a flight to send, or another one to wait for, and   *)
(* after the last one the first request.                                   *)
TlsFlight(t) ==
  /\ Polled(t, "HANDSHAKE") /\ Result(t) > 0
  /\ write_buf' = [write_buf EXCEPT ![t] = Peer(t)]
  /\ TlsPend(t, "HANDSHAKE_SEND", TRUE, "send", Full)
  /\ UNCHANGED big /\ Handled
TlsNeedInput(t) ==
  /\ Polled(t, "HANDSHAKE") /\ Result(t) > 0
  /\ \E hs \in {"HANDSHAKE", "RECV"} : TlsPend(t, hs, TRUE, "recv", 1)
  /\ UNCHANGED <<big, write_buf>> /\ Handled

(* A short flight cannot be finished by the client: give up on it.         *)
TlsFlightSent(t) ==
  /\ Polled(t, "HANDSHAKE_SEND")
  /\ IF Result(t) = Full THEN TlsPend(t, "HANDSHAKE", TRUE, "recv", 1)
                         ELSE TlsEnd(t)
  /\ UNCHANGED <<big, write_buf>> /\ Handled

(* A request, in a record of its own or behind the client's Finished.      *)
TlsReply(t) ==
  /\ Polled(t, "HANDSHAKE") \/ (Tls /\ Polled(t, "RECV"))
  /\ Result(t) > 0
  /\ write_buf' = [write_buf EXCEPT ![t] = Peer(t)]
  /\ \E keep \in BOOLEAN : TlsPend(t, "SEND", keep, "send", Full)
  /\ UNCHANGED big /\ Handled

(* The response is sent: wait for the next request, or queue a             *)
(* close_notify and be done, without waiting for it.                       *)
TlsSendDone(t) ==
  /\ Tls /\ Polled(t, "SEND")
  /\ \/ Result(t) < 0 /\ TlsEnd(t)
     \/ Result(t) >= 0 /\ tasks[t].keep /\ TlsPend(t, "RECV", TRUE, "recv", 1)
     \/ /\ Result(t) >= 0 /\ ~tasks[t].keep
        /\ IF Room THEN Queue(t, "send", Full) ELSE UNCHANGED sq
        /\ Complete(t)
        /\ tls_data' = [tls_data EXCEPT ![t] = FALSE]
  /\ UNCHANGED <<big, write_buf>> /\ Handled

TlsHandler(t) ==
  \/ TlsInit(t) \/ TlsRecvEnd(t) \/ TlsFlight(t) \/ TlsNeedInput(t)
  \/ TlsFlightSent(t) \/ TlsReply(t) \/ TlsSendDone(t)

-----------------------------------------------------------------------------
(* task_server_run and task_server_run_multishot.                          *)

(* No task is READY: uring_submit_and_wait.                                *)
Enter ==
  /\ phase = "poll"
  /\ \A t \in Task : tasks[t].state # "READY"
  /\ phase' = "enter"
  /\ UNCHANGED <<tasks, big, tls_data, next_id, active_count, sq, kernel, bufs>>

(* The kernel takes the next SQE and resolves its descriptor.              *)
Submit ==
  /\ phase = "enter" /\ sq # <<>>
  /\ sq' = Tail(sq)
  /\ LET e == Head(sq)
         on == IF e.on = 0 THEN 0 ELSE sock[e.on]
     IN IF e.op \notin {"accept", "nop"} /\ on = 0
        THEN /\ cq' = Append(cq, [ud |-> e.ud, res |-> -1, more |-> FALSE])
             /\ UNCHANGED inflight                          \* EBADF
        ELSE /\ inflight' = inflight \cup {[e EXCEPT !.on = on]}
             /\ UNCHANGED cq
  /\ UNCHANGED <<tasks, big, tls_data, next_id, active_count, phase, sock,
                 accepted, bufs>>

(* The wait returns with completions, or fails and the server stops.       *)
Return ==
  /\ phase = "enter"
  /\ \/ sq = <<>> /\ cq # <<>> /\ phase' = "reap"
     \/ phase' = "stopped"
  /\ UNCHANGED <<tasks, big, tls_data, next_id, active_count, sq, kernel, bufs>>

Cqe == Head(cq)

(* The slot a new connection gets: task_pool_alloc takes the first idle    *)
(* one, unless max_connections are open.                                   *)
Free(t) ==
  /\ MaxConnections = 0 \/ active_count < MaxConnections
  /\ tasks[t].state = "IDLE"
  /\ \A u \in Task : u < t => tasks[u].state # "IDLE"

(* Mutant: the last I/O result of the slot is not reset. *)
HandleAcceptStale(fd) ==
  \/ \E t \in Task :
       /\ Free(t)
       /\ tasks' = [tasks EXCEPT ![t] =
            [Idle EXCEPT !.id = next_id, !.state = "READY", !.fd = fd,
                         !.io_result = tasks[t].io_result]]
       /\ next_id' = next_id + 1
       /\ active_count' = active_count + 1
       /\ UNCHANGED sock
  \/ /\ \A t \in Task : ~Free(t)
     /\ sock' = [sock EXCEPT ![fd] = 0]
     /\ UNCHANGED <<tasks, next_id, active_count>>

(* task_server_handle_accept.                                              *)
HandleAccept(fd) ==
  \/ \E t \in Task :
       /\ Free(t)
       /\ tasks' = [tasks EXCEPT ![t] =
            [Idle EXCEPT !.id = next_id, !.state = "READY", !.fd = fd]]
       /\ next_id' = next_id + 1
       /\ active_count' = active_count + 1
       /\ UNCHANGED sock
  \/ /\ \A t \in Task : ~Free(t)
     /\ sock' = [sock EXCEPT ![fd] = 0]
     /\ UNCHANGED <<tasks, next_id, active_count>>

(* Mutant: the accept is armed again after a connection only. *)
RearmAfterSuccess == ~Multishot /\ Cqe.res > 0

(* A single accept is armed again after each completion, a multishot one   *)
(* after an error that ended it.                                           *)
Rearm == IF Multishot THEN ~Cqe.more /\ Cqe.res < 0 ELSE TRUE

(* Mutant: a failed accept is taken for a connection. *)
ReapAcceptUnchecked ==
  /\ phase = "reap" /\ cq # <<>> /\ Cqe.ud = 0
  /\ cq' = Tail(cq)
  /\ HandleAccept(Cqe.res)
  /\ sq' = IF Rearm /\ Room THEN Append(sq, AcceptOp) ELSE sq
  /\ UNCHANGED <<big, tls_data, phase, inflight, accepted, bufs>>

ReapAccept ==
  /\ phase = "reap" /\ cq # <<>> /\ Cqe.ud = 0
  /\ cq' = Tail(cq)
  /\ IF Cqe.res > 0 THEN HandleAccept(Cqe.res)
     ELSE UNCHANGED <<tasks, next_id, active_count, sock>>
  /\ sq' = IF Rearm /\ Room THEN Append(sq, AcceptOp) ELSE sq
  /\ UNCHANGED <<big, tls_data, phase, inflight, accepted, bufs>>

(* The number of the idle timer.  No timer is ever armed, but a task can   *)
(* get the number for its id.  task_server_check_idle closes the tasks     *)
(* that have waited long enough, which time alone decides.                 *)
ReapTimeout ==
  /\ phase = "reap" /\ cq # <<>> /\ Cqe.ud = TimeoutUd
  /\ cq' = Tail(cq)
  /\ \E idle \in SUBSET {t \in Task : tasks[t].state = "WAITING"} :
       /\ IdleTimeout \/ idle = {}
       /\ tasks' = [t \in Task |->
            IF t \in idle
            THEN [tasks[t] EXCEPT !.id = 0, !.state = "IDLE", !.fd = 0] ELSE tasks[t]]
       /\ sock' = [f \in Fd |-> IF \E t \in idle : tasks[t].fd = f THEN 0 ELSE sock[f]]
       /\ active_count' = active_count - Cardinality(idle)
  /\ UNCHANGED <<big, tls_data, next_id, phase, sq, inflight, accepted, bufs>>

(* task_server_wake_task.                                                  *)
ReapTask ==
  /\ phase = "reap" /\ cq # <<>> /\ Cqe.ud \notin {0, TimeoutUd}
  /\ cq' = Tail(cq)
  /\ tasks' = [t \in Task |->
       IF tasks[t].id = Cqe.ud /\ tasks[t].state # "IDLE"
       THEN [tasks[t] EXCEPT !.io_result = Cqe.res, !.state = "READY"]
       ELSE tasks[t]]
  /\ UNCHANGED <<big, tls_data, next_id, active_count, phase, sq, inflight,
                 sock, accepted, bufs>>

(* Another turn, unless the shutdown hook says stop.                       *)
Turn ==
  /\ phase = "reap" /\ cq = <<>>
  /\ phase' \in {"poll", "stopped"}
  /\ UNCHANGED <<tasks, big, tls_data, next_id, active_count, sq, kernel, bufs>>

Loop ==
  Enter \/ Submit \/ Return \/ ReapAccept \/ ReapTimeout \/ ReapTask \/ Turn
Server == Loop \/ \E t \in Task : HttpHandler(t) \/ TlsHandler(t)

-----------------------------------------------------------------------------
(* The kernel completes an operation.                                      *)

Post(o, res, more) == cq' = Append(cq, [ud |-> o.ud, res |-> res, more |-> more])

Unchanging ==
  UNCHANGED <<tasks, big, tls_data, next_id, active_count, phase, sq, write_buf>>

(* A recv: the task's bytes, the end of the stream or an error.            *)
RecvCompletes(o) ==
  /\ o.op \in {"recv", "recv_buf"}
  /\ inflight' = inflight \ {o}
  /\ \E n \in -1 .. o.len :
       /\ Post(o, n, FALSE)
       /\ read_buf' = IF o.op = "recv" /\ n > 0
                      THEN [read_buf EXCEPT ![o.slot] = o.on] ELSE read_buf
  /\ UNCHANGED <<sock, accepted>> /\ Unchanging

(* A send: all of it, a part, or an error.  SEND_ZC says so at once, and   *)
(* in a second CQE that it is through with the buffer.                     *)
SendCompletes(o) ==
  /\ o.op \in {"send", "send_buf", "send_zc"}
  /\ \E n \in (-1 .. o.len) \ {0} :
       /\ Post(o, n, o.op = "send_zc" /\ n > 0)
       /\ inflight' = (inflight \ {o}) \cup
            (IF o.op = "send_zc" /\ n > 0 THEN {[o EXCEPT !.op = "notif"]} ELSE {})
  /\ UNCHANGED <<sock, accepted, read_buf>> /\ Unchanging

Completes(o) ==
  /\ o.op \in {"nop", "notif"}
  /\ inflight' = inflight \ {o}
  /\ Post(o, 0, FALSE)
  /\ UNCHANGED <<sock, accepted, read_buf>> /\ Unchanging

(* An accept: a connection, in the lowest free descriptor, or an error.    *)
(* A multishot one goes on, but ends with an error or when the kernel has  *)
(* no room left to say more.                                               *)
AcceptCompletes(o) ==
  /\ o.op = "accept"
  /\ \E more \in BOOLEAN, fd \in Fd :
       /\ more => Multishot
       /\ accepted < MaxAccepted
       /\ sock[fd] = 0 /\ \A g \in Fd : g < fd => sock[g] # 0
       /\ sock' = [sock EXCEPT ![fd] = accepted + 1]
       /\ accepted' = accepted + 1
       /\ Post(o, fd, more)
       /\ inflight' = IF more THEN inflight ELSE inflight \ {o}
  /\ UNCHANGED read_buf /\ Unchanging
AcceptFails(o) ==
  /\ o.op = "accept"
  /\ Post(o, -1, FALSE)
  /\ inflight' = inflight \ {o}
  /\ UNCHANGED <<sock, accepted, read_buf>> /\ Unchanging

Kernel == \E o \in inflight :
  RecvCompletes(o) \/ SendCompletes(o) \/ Completes(o)
    \/ AcceptCompletes(o) \/ AcceptFails(o)

Next == Server \/ Kernel

Spec == Init /\ [][Next]_vars

-----------------------------------------------------------------------------
(* Properties.                                                             *)

(* Every variable has its type.                                            *)
Op == [ud : Nat, op : {"accept", "recv", "recv_buf", "send", "send_buf",
                       "send_zc", "nop", "notif"},
       slot : Task, on : Nat, len : Nat]
Completion == [ud : Nat, res : Int, more : BOOLEAN]
HandlerStates == {"RECV", "PROXY_WAIT", "SEND", "INIT", "HANDSHAKE", "HANDSHAKE_SEND"}
TaskRecord ==
  [id : Nat, state : {"IDLE", "WAITING", "READY"}, fd : Fd \cup {0},
   io_result : Int, handler_state : HandlerStates, keep : BOOLEAN]
BigBuf == [mode : {"NONE", "RECV", "PARSED", "SEND"}, left : Nat, on : Conn]
TypeOK ==
  /\ tasks \in [Task -> TaskRecord]
  /\ big \in [Task -> BigBuf]
  /\ tls_data \in [Task -> BOOLEAN]
  /\ next_id \in Nat \ {0}
  /\ active_count \in Int
  /\ phase \in {"poll", "enter", "reap", "stopped"}
  /\ sq \in Seq(Op)
  /\ inflight \subseteq Op
  /\ cq \in Seq(Completion)
  /\ sock \in [Fd -> Conn]
  /\ accepted \in Conn
  /\ read_buf \in [Task -> Conn]
  /\ write_buf \in [Task -> Conn]

Elements(s) == {s[i] : i \in DOMAIN s}
Pending == {e.ud : e \in Elements(sq) \cup inflight \cup Elements(cq)}

(* A task is not recycled, nor polled, while one of its operations is      *)
(* queued, in the kernel, or completed and not reaped: the buffers and the *)
(* descriptor the operation names stay the task's own.                     *)
IOEndsFirst ==
  \A ud \in Pending \ {0} :
    \E t \in Task : tasks[t].id = ud /\ tasks[t].state = "WAITING"

(* No task sleeps for ever: one that waits has an operation under way.     *)
WaitingHasOp ==
  \A t \in Task : tasks[t].state = "WAITING" => tasks[t].id \in Pending

(* A handler that reads what it received finds its own peer's bytes.       *)
ReadsOwnBytes ==
  \A t \in Task :
    Polled(t, "RECV") /\ Result(t) = 1 /\ big[t].mode # "RECV"
      => read_buf[t] = Peer(t)

(* A connection is sent what was written for it, never another's bytes.    *)
SendsOwnBytes ==
  \A o \in inflight :
    o.op \in {"send", "send_zc"} => write_buf[o.slot] = o.on

(* The server goes on accepting: an accept is queued, in the kernel, or    *)
(* completed and about to be armed again.                                  *)
AcceptArmed == 0 \in Pending

(* max_connections limits what it says: active_count is the number of      *)
(* connections that have a task.                                           *)
ConnectionsCounted ==
  active_count = Cardinality({t \in Task : tasks[t].state # "IDLE"})

(* The heap buffer a handler finds is its own connection's: none is        *)
(* inherited from the connection that had the slot before.                 *)
BigIsOwn ==
  \A t \in Task :
    tasks[t].state # "IDLE" /\ Result(t) # Fresh /\ big[t].mode # "NONE"
      => big[t].on = Peer(t)

(* The TLS state of a connection lives exactly as long as its task.        *)
TlsFreed ==
  \A t \in Task :
    tls_data[t] <=> tasks[t].state # "IDLE" /\ tasks[t].handler_state # "INIT"

=============================================================================
