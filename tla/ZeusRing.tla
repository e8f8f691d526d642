------------------------------ MODULE ZeusRing ------------------------------
(***************************************************************************)
(* One zeus worker and the valet process that proxies HTTP requests to it  *)
(* over a shared-memory region: a control block, a request ring, a         *)
(* response ring and a data arena cut into one partition per ring slot.    *)
(*                                                                         *)
(* Valet is one thread.  Its event loop polls, in pool order, every task   *)
(* that is READY; a pass ends when none is left, and the next begins with  *)
(* the completions io_uring has delivered in between.  A task waiting for  *)
(* its response re-arms a NOP, so it is READY again in every pass.         *)
(*                                                                         *)
(* Valet and the worker are two processes: an action is one access to the  *)
(* shared memory that the other side can observe, and the two interleave   *)
(* freely between any two of them.  Stores become visible in program order *)
(* (x86-TSO, as zeus_client.ritz assumes).                                 *)
(***************************************************************************)
EXTENDS Integers

CONSTANTS
  NTasks,       \* connection tasks in valet's pool (MAX_TASKS, 256)
  Capacity,     \* slots in each ring (ring_capacity, a power of two)
  MaxRequests,  \* bound: request ids valet hands out
  MaxAbandoned  \* bound: requests valet gives up on after submitting them

ASSUME NTasksAssumption == NTasks \in Nat \ {0}
ASSUME CapacityAssumption == Capacity \in Nat \ {0}
ASSUME BoundsAssumption == MaxRequests \in Nat /\ MaxAbandoned \in Nat

Task == 0 .. NTasks - 1
Slot == 0 .. Capacity - 1
Id   == 0 .. MaxRequests        \* 0 marks a slot nobody's response is in

(* Whose bytes an arena partition, or a copy made from one, holds.         *)
Bytes == [kind : {"none", "request", "response"}, id : Id]
NoBytes == [kind |-> "none", id |-> 0]

VARIABLES
  \* shared memory
  req_write_idx, req_read_idx, resp_write_idx, resp_read_idx,
  req_futex,      \* bumped by valet after each request it publishes
  state,          \* WORKER_STATE_*, written by the worker
  req_ring,       \* RequestSlot.id of every slot
  resp_ring,      \* ResponseSlot id and RESP_FLAG_COMPLETE of every slot
  arena,          \* the bytes in every slot's partition
  \* valet
  ready,          \* tasks this pass has still to poll
  vpc,            \* where valet's thread is inside the task it polls
  handler_state,  \* CONN_STATE_* of every task
  claimed_slot,   \* ProxyState.claimed_slot
  request_id,     \* ProxyState.request_id
  answer,         \* what the task has put in its send buffer
  next_request_id,
  abandoned,      \* requests given up on so far
  \* worker
  wpc,            \* where the worker's thread is
  current_val,    \* spin_wait_request's copy of req_futex
  current_req_idx,
  path            \* the request bytes the handler read

control   == <<req_write_idx, req_read_idx, resp_write_idx, resp_read_idx,
               req_futex, state>>
slots     == <<req_ring, resp_ring, arena>>
tasks     == <<handler_state, claimed_slot, request_id, answer>>
valetVars == <<ready, vpc, tasks, next_request_id, abandoned>>
workerVars == <<wpc, current_val, current_req_idx, path>>
vars == <<control, slots, valetVars, workerVars>>

-----------------------------------------------------------------------------
(* The control block's index arithmetic.                                   *)

(* Mutant: the sequence number is not masked. *)
SlotIndexUnmasked(seq) == seq

SlotIndex(seq) == seq % Capacity    \* seq & ring_mask
ReqEmpty == req_write_idx = req_read_idx
ReqFull  == req_write_idx - req_read_idx >= Capacity
RespFull == resp_write_idx - resp_read_idx >= Capacity

RespSlotInit == [id |-> 0, complete |-> FALSE]

Init ==
  /\ req_write_idx = 0 /\ req_read_idx = 0
  /\ resp_write_idx = 0 /\ resp_read_idx = 0
  /\ req_futex = 0
  /\ state = "RUNNING"
  /\ req_ring = [s \in Slot |-> 0]
  /\ resp_ring = [s \in Slot |-> RespSlotInit]
  /\ arena = [s \in Slot |-> NoBytes]
  /\ ready = {}
  /\ vpc = "poll"
  /\ handler_state = [t \in Task |-> "RECV"]
  /\ claimed_slot = [t \in Task |-> 0]
  /\ request_id = [t \in Task |-> 0]
  /\ answer = [t \in Task |-> NoBytes]
  /\ next_request_id = 1
  /\ abandoned = 0
  /\ wpc = "spin"
  /\ current_val = 0
  /\ current_req_idx = -1
  /\ path = NoBytes

-----------------------------------------------------------------------------
(* Valet's event loop.                                                     *)

(* The task the pass polls now: task_server_poll_tasks walks the pool in   *)
(* index order and visits the READY ones.                                  *)
Polled(t) == t \in ready /\ \A u \in ready : t <= u

(* A pass is over: NOPs armed in it have all completed, sends and receives *)
(* complete when the network lets them, at least one completion is there.  *)
NewPass ==
  /\ vpc = "poll" /\ ready = {}
  /\ LET waiting == {t \in Task : handler_state[t] = "PROXY_WAIT"}
     IN \E io \in SUBSET (Task \ waiting) :
          /\ ready' = waiting \cup io
          /\ ready' # {}
  /\ UNCHANGED <<control, slots, vpc, tasks, next_request_id, abandoned,
                 workerVars>>

(* The task's handler returns: its reply, if any, is in the send buffer.   *)
Return(t, hs) ==
  /\ handler_state' = [handler_state EXCEPT ![t] = hs]
  /\ ready' = ready \ {t}
  /\ vpc' = "poll"

Begins(t, hs) == vpc = "poll" /\ Polled(t) /\ handler_state[t] = hs

(* The peer closed, or its request was answered without the proxy.         *)
RecvEof(t) ==
  /\ Begins(t, "RECV")
  /\ Return(t, "RECV")
  /\ UNCHANGED <<control, slots, claimed_slot, request_id, answer,
                 next_request_id, abandoned, workerVars>>

(* handle_zeus_proxy finds the request ring full and replies 503.          *)
ProxyRingFull(t) ==
  /\ Begins(t, "RECV")
  /\ ReqFull
  /\ Return(t, "SEND")
  /\ UNCHANGED <<control, slots, claimed_slot, request_id, answer,
                 next_request_id, abandoned, workerVars>>

(* No worker, or no room for the path in the partition: 503 as well.       *)
ProxyUnavailable(t) ==
  /\ Begins(t, "RECV")
  /\ Return(t, "SEND")
  /\ UNCHANGED <<control, slots, claimed_slot, request_id, answer,
                 next_request_id, abandoned, workerVars>>

(* Mutant: every path goes to the arena's first partition. *)
CopyPathShared ==
  arena' = [arena EXCEPT ![0] = [kind |-> "request", id |-> next_request_id]]

(* The path's bytes go into the partition of the slot the next submit uses. *)
CopyPath ==
  arena' = [arena EXCEPT ![SlotIndex(req_write_idx)] =
              [kind |-> "request", id |-> next_request_id]]

(* It has copied the path when it rejects the request: 400 (short body) and *)
(* 413 (oversized body) before it takes an id, 405 (unknown method) after.  *)
ProxyReject(t) ==
  /\ Begins(t, "RECV")
  /\ ~ReqFull
  /\ next_request_id <= MaxRequests
  /\ CopyPath
  /\ next_request_id' \in {next_request_id, next_request_id + 1}
  /\ Return(t, "SEND")
  /\ UNCHANGED <<control, req_ring, resp_ring, claimed_slot, request_id,
                 answer, abandoned, workerVars>>

(* It claims the slot, copies the path, takes an id, and                   *)
(* zeus_client_submit_request fills the RequestSlot.  The ProxyState is    *)
(* valet's own memory, so setting it here instead of after the submit is   *)
(* not observable.                                                         *)
ProxyClaim(t) ==
  /\ Begins(t, "RECV")
  /\ ~ReqFull
  /\ next_request_id <= MaxRequests
  /\ CopyPath
  /\ req_ring' = [req_ring EXCEPT ![SlotIndex(req_write_idx)] = next_request_id]
  /\ claimed_slot' = [claimed_slot EXCEPT ![t] = SlotIndex(req_write_idx)]
  /\ request_id' = [request_id EXCEPT ![t] = next_request_id]
  /\ next_request_id' = next_request_id + 1
  /\ vpc' = "publish"
  /\ UNCHANGED <<control, resp_ring, ready, handler_state, answer, abandoned,
                 workerVars>>

(* control_block_req_write_inc: the worker can see the request.            *)
SubmitPublish ==
  /\ vpc = "publish"
  /\ req_write_idx' = req_write_idx + 1
  /\ vpc' = "bump"
  /\ UNCHANGED <<req_read_idx, resp_write_idx, resp_read_idx, req_futex, state,
                 slots, ready, tasks, next_request_id, abandoned, workerVars>>

(* Mutant: the futex word is not bumped. *)
SignalBumpForgotten ==
  /\ vpc = "bump"
  /\ vpc' = "wake"
  /\ UNCHANGED <<control, slots, ready, tasks, next_request_id, abandoned,
                 workerVars>>

(* signal_request_available, first half: bump the futex word.              *)
SignalBump ==
  /\ vpc = "bump"
  /\ req_futex' = req_futex + 1
  /\ vpc' = "wake"
  /\ UNCHANGED <<req_write_idx, req_read_idx, resp_write_idx, resp_read_idx,
                 state, slots, ready, tasks, next_request_id, abandoned,
                 workerVars>>

(* Second half: FUTEX_WAKE one waiter.                                     *)
SignalWake ==
  /\ vpc = "wake"
  /\ wpc' = IF wpc = "asleep" THEN "check" ELSE wpc
  /\ vpc' = "arm"
  /\ UNCHANGED <<control, slots, ready, tasks, next_request_id, abandoned,
                 current_val, current_req_idx, path>>

(* handle_zeus_proxy arms the NOP and returns STATUS_PROXY_PENDING.        *)
ProxyArm(t) ==
  /\ vpc = "arm" /\ Polled(t)
  /\ Return(t, "PROXY_WAIT")
  /\ UNCHANGED <<control, slots, claimed_slot, request_id, answer,
                 next_request_id, abandoned, workerVars>>

(* Valet forgets a request the worker may still answer.                    *)
GiveUp(t) ==
  /\ abandoned < MaxAbandoned
  /\ abandoned' = abandoned + 1
  /\ request_id' = [request_id EXCEPT ![t] = 0]
  /\ claimed_slot' = [claimed_slot EXCEPT ![t] = 0]
  /\ Return(t, "SEND")
  /\ UNCHANGED <<control, slots, answer, next_request_id, workerVars>>

(* No SQE left for the NOP: the request is in the ring, the reply is 503.  *)
(* A TLS connection ends here too, its handler having no PROXY_WAIT state. *)
ProxyArmFails(t) == vpc = "arm" /\ Polled(t) /\ GiveUp(t)

-----------------------------------------------------------------------------
(* handle_zeus_proxy_continuation: the task polls its own response slot.   *)

(* Mutant: RESP_FLAG_COMPLETE is not tested. *)
ResponseInById(t) == resp_ring[claimed_slot[t]].id = request_id[t]

ResponseIn(t) ==
  resp_ring[claimed_slot[t]] = [id |-> request_id[t], complete |-> TRUE]

(* zeus_client_peek_response_slot matches: copy the slot, zero its id.     *)
PeekHit(t) ==
  /\ Begins(t, "PROXY_WAIT")
  /\ ResponseIn(t)
  /\ resp_ring' = [resp_ring EXCEPT ![claimed_slot[t]].id = 0]
  /\ vpc' = "sweep"
  /\ UNCHANGED <<control, req_ring, arena, ready, tasks, next_request_id,
                 abandoned, workerVars>>

(* All 128 peeks missed: re-arm the NOP.                                   *)
PeekMiss(t) ==
  /\ Begins(t, "PROXY_WAIT")
  /\ ~ResponseIn(t)
  /\ Return(t, "PROXY_WAIT")
  /\ UNCHANGED <<control, slots, claimed_slot, request_id, answer,
                 next_request_id, abandoned, workerVars>>

(* They missed and the deadline has passed, or the NOP cannot be armed:    *)
(* 504, or the connection is closed.                                       *)
PeekGiveUp(t) ==
  /\ Begins(t, "PROXY_WAIT")
  /\ ~ResponseIn(t)
  /\ GiveUp(t)

(* Mutants: the proxy does not sweep; the sweep goes past unread responses. *)
SweptNever == FALSE
SweptAll   == resp_read_idx < resp_write_idx

(* zeus_client_sweep_resp_ring, one turn of its loop.                      *)
Swept == /\ resp_read_idx < resp_write_idx
         /\ resp_ring[SlotIndex(resp_read_idx)].id = 0
Sweep ==
  /\ vpc = "sweep"
  /\ Swept
  /\ resp_read_idx' = resp_read_idx + 1
  /\ UNCHANGED <<req_write_idx, req_read_idx, resp_write_idx, req_futex, state,
                 slots, valetVars, workerVars>>

SweepDone ==
  /\ vpc = "sweep"
  /\ ~Swept
  /\ vpc' = "copy"
  /\ UNCHANGED <<control, slots, ready, tasks, next_request_id, abandoned,
                 workerVars>>

(* The continuation copies headers and body out of the partition and sends.*)
CopyResponse(t) ==
  /\ vpc = "copy" /\ Polled(t)
  /\ answer' = [answer EXCEPT ![t] = arena[claimed_slot[t]]]
  /\ Return(t, "SEND")
  /\ UNCHANGED <<control, slots, claimed_slot, request_id, next_request_id,
                 abandoned, workerVars>>

(* The response is taken but cannot be sent: 502, or no SQE for the send.  *)
CopyFails(t) == vpc = "copy" /\ Polled(t) /\ GiveUp(t)

(* The send completed: task_reset_for_recv.                                *)
SendDone(t) ==
  /\ Begins(t, "SEND")
  /\ answer' = [answer EXCEPT ![t] = NoBytes]
  /\ request_id' = [request_id EXCEPT ![t] = 0]
  /\ claimed_slot' = [claimed_slot EXCEPT ![t] = 0]
  /\ Return(t, "RECV")
  /\ UNCHANGED <<control, slots, next_request_id, abandoned, workerVars>>

Valet ==
  \/ NewPass
  \/ SubmitPublish \/ SignalBump \/ SignalWake
  \/ Sweep \/ SweepDone
  \/ \E t \in Task :
       \/ RecvEof(t) \/ ProxyRingFull(t) \/ ProxyUnavailable(t)
       \/ ProxyReject(t) \/ ProxyClaim(t) \/ ProxyArm(t) \/ ProxyArmFails(t)
       \/ PeekHit(t) \/ PeekMiss(t) \/ PeekGiveUp(t)
       \/ CopyResponse(t) \/ CopyFails(t) \/ SendDone(t)

-----------------------------------------------------------------------------
(* The worker: nexus's request loop over worker.ritz and futex.ritz.       *)

(* The worker moves on from one place to another, changing nothing else.   *)
Goto(from, to) == wpc = from /\ wpc' = to

(* spin_wait_request, fast path and spin phase.                            *)
SpinHit ==
  /\ ~ReqEmpty
  /\ Goto("spin", "poll")
  /\ UNCHANGED <<control, slots, valetVars, current_val, current_req_idx, path>>
SpinOver ==
  /\ ReqEmpty
  /\ Goto("spin", "load")
  /\ UNCHANGED <<control, slots, valetVars, current_val, current_req_idx, path>>

(* Block phase: the futex word is read once, before the loop.              *)
LoadFutex ==
  /\ Goto("load", "check")
  /\ current_val' = req_futex
  /\ UNCHANGED <<control, slots, valetVars, current_req_idx, path>>

(* while control_block_req_empty(cb) != 0                                  *)
CheckEmpty ==
  /\ Goto("check", IF ReqEmpty THEN "futex" ELSE "poll")
  /\ UNCHANGED <<control, slots, valetVars, current_val, current_req_idx, path>>

(* Mutant: the worker sleeps without comparing the futex word. *)
FutexWaitBlind ==
  /\ Goto("futex", "asleep")
  /\ UNCHANGED <<control, slots, valetVars, current_val, current_req_idx, path>>

(* FUTEX_WAIT: EAGAIN if the word is not current_val, else sleep.          *)
FutexWait ==
  /\ Goto("futex", IF req_futex = current_val THEN "asleep" ELSE "check")
  /\ UNCHANGED <<control, slots, valetVars, current_val, current_req_idx, path>>

(* ETIMEDOUT: spin_wait_request returns, whatever the ring holds.          *)
FutexTimeout ==
  /\ Goto("asleep", "poll")
  /\ UNCHANGED <<control, slots, valetVars, current_val, current_req_idx, path>>

(* Mutant: the worker takes the newest request instead of the oldest. *)
PollRequestNewest ==
  /\ ~ReqEmpty
  /\ Goto("poll", "begin")
  /\ current_req_idx' = req_write_idx - 1
  /\ UNCHANGED <<control, slots, valetVars, current_val, path>>

(* worker_poll_request.                                                    *)
PollNone ==
  /\ ReqEmpty
  /\ Goto("poll", "spin")
  /\ UNCHANGED <<control, slots, valetVars, current_val, current_req_idx, path>>
PollRequest ==
  /\ ~ReqEmpty
  /\ Goto("poll", "begin")
  /\ current_req_idx' = req_read_idx
  /\ UNCHANGED <<control, slots, valetVars, current_val, path>>

Current == SlotIndex(current_req_idx)          \* worker_current_slot_idx

(* worker_set_busy, then worker_begin_response: null if the response ring  *)
(* is full, and then the request is acknowledged without a response; else  *)
(* response_slot_init.                                                     *)
BeginResponse ==
  /\ Goto("begin", IF RespFull THEN "ack" ELSE "setid")
  /\ state' = "BUSY"
  /\ resp_ring' = IF RespFull THEN resp_ring
                  ELSE [resp_ring EXCEPT ![SlotIndex(resp_write_idx)] = RespSlotInit]
  /\ UNCHANGED <<req_write_idx, req_read_idx, resp_write_idx, resp_read_idx,
                 req_futex, req_ring, arena, valetVars, current_val,
                 current_req_idx, path>>

(* slot.id = request_id                                                    *)
SetResponseId ==
  /\ Goto("setid", "route")
  /\ resp_ring' = [resp_ring EXCEPT ![SlotIndex(resp_write_idx)].id =
                     req_ring[Current]]
  /\ UNCHANGED <<control, req_ring, arena, valetVars, current_val,
                 current_req_idx, path>>

(* route_request reads the request's bytes...                              *)
ReadRequest ==
  /\ Goto("route", "fill")
  /\ path' = arena[Current]
  /\ UNCHANGED <<control, slots, valetVars, current_val, current_req_idx>>

(* ...send_raw writes the response's over them, in the same partition...   *)
FillResponse ==
  /\ Goto("fill", "complete")
  /\ arena' = [arena EXCEPT ![Current] =
                 [kind |-> "response", id |-> req_ring[Current]]]
  /\ UNCHANGED <<control, req_ring, resp_ring, valetVars, current_val,
                 current_req_idx, path>>

(* ...and sets RESP_FLAG_COMPLETE last.                                    *)
CompleteResponse ==
  /\ Goto("complete", "commit")
  /\ resp_ring' = [resp_ring EXCEPT ![SlotIndex(resp_write_idx)].complete = TRUE]
  /\ UNCHANGED <<control, req_ring, arena, valetVars, current_val,
                 current_req_idx, path>>

(* worker_commit_response.  Nobody waits on resp_futex in this proxy.      *)
CommitResponse ==
  /\ Goto("commit", "ack")
  /\ resp_write_idx' = resp_write_idx + 1
  /\ UNCHANGED <<req_write_idx, req_read_idx, resp_read_idx, req_futex, state,
                 slots, valetVars, current_val, current_req_idx, path>>

(* worker_ack_request, then worker_set_running.                            *)
AckRequest ==
  /\ Goto("ack", "running")
  /\ req_read_idx' = req_read_idx + 1
  /\ current_req_idx' = -1
  /\ path' = NoBytes
  /\ UNCHANGED <<req_write_idx, resp_write_idx, resp_read_idx, req_futex, state,
                 slots, valetVars, current_val>>
SetRunning ==
  /\ Goto("running", "spin")
  /\ state' = "RUNNING"
  /\ UNCHANGED <<req_write_idx, req_read_idx, resp_write_idx, resp_read_idx,
                 req_futex, slots, valetVars, current_val, current_req_idx, path>>

WorkerStep ==
  \/ SpinHit \/ SpinOver \/ LoadFutex \/ CheckEmpty \/ FutexWait
  \/ PollNone \/ PollRequest
  \/ BeginResponse \/ SetResponseId \/ ReadRequest \/ FillResponse
  \/ CompleteResponse \/ CommitResponse \/ AckRequest \/ SetRunning

Worker == WorkerStep \/ FutexTimeout

Next == Valet \/ Worker

Spec == Init /\ [][Next]_vars

(* Both processes are scheduled; the client owes neither a request nor a   *)
(* close, and the futex timeout is not counted on.                         *)
FairSpec == Spec /\ WF_vars(Valet) /\ WF_vars(WorkerStep)

-----------------------------------------------------------------------------
(* Properties.                                                             *)

(* Every variable has its type.                                            *)
TypeOK ==
  /\ req_write_idx \in Nat /\ req_read_idx \in Nat
  /\ resp_write_idx \in Nat /\ resp_read_idx \in Nat
  /\ req_futex \in Nat /\ current_val \in Nat
  /\ state \in {"RUNNING", "BUSY"}
  /\ req_ring \in [Slot -> Id]
  /\ resp_ring \in [Slot -> [id : Id, complete : BOOLEAN]]
  /\ arena \in [Slot -> Bytes]
  /\ ready \subseteq Task
  /\ vpc \in {"poll", "publish", "bump", "wake", "arm", "sweep", "copy"}
  /\ handler_state \in [Task -> {"RECV", "PROXY_WAIT", "SEND"}]
  /\ claimed_slot \in [Task -> Slot]
  /\ request_id \in [Task -> Id]
  /\ answer \in [Task -> Bytes]
  /\ next_request_id \in 1 .. MaxRequests + 1
  /\ abandoned \in 0 .. MaxAbandoned
  /\ wpc \in {"spin", "load", "check", "futex", "asleep", "poll", "begin",
              "setid", "route", "fill", "complete", "commit", "ack", "running"}
  /\ current_req_idx \in Nat \cup {-1}
  /\ path \in Bytes

(* The worker never sleeps on the futex with a request in the ring, unless *)
(* valet is still on its way to waking it: the read of the futex word      *)
(* before the last emptiness test, and the bump between the publication    *)
(* and the wake, leave no window.                                          *)
NoLostWakeup == wpc = "asleep" /\ ~ReqEmpty => vpc \in {"bump", "wake"}

(* The handler works on the bytes of the request it was given, although    *)
(* valet goes on writing paths into partitions.                            *)
HandlerReadsItsRequest ==
  wpc = "fill" => path = [kind |-> "request", id |-> req_ring[Current]]

(* What a task sends to its client is the response to its own request,     *)
(* whole: its partition was not written again before the task copied it.   *)
AnswerIsOwn ==
  \A t \in Task : answer[t] # NoBytes =>
    answer[t] = [kind |-> "response", id |-> request_id[t]]

(* The worker acknowledges no request it has not answered: it never meets  *)
(* a full response ring, although only valet's sweep empties it.           *)
AckedIsAnswered == req_read_idx <= resp_write_idx

KeepsResponses ==
  \A s \in Slot :
    resp_ring[s].id # 0 /\ resp_ring[s].complete =>
      \/ resp_ring'[s] = resp_ring[s]
      \/ \E t \in Task : PeekHit(t) /\ request_id[t] = resp_ring[s].id

(* A response nobody has taken stays as it is: the worker re-initialises   *)
(* only slots whose response was taken, since sweep stops at the others.   *)
ResponseKept == [][KeepsResponses]_vars

(* valet/src/main.ritz:485: a dead head left by another task cannot block  *)
(* a task: once the last request has been given up on, the others are      *)
(* answered.                                                               *)
DeadHeadHarmless ==
  \A t \in Task :
    (handler_state[t] = "PROXY_WAIT" /\ abandoned = MaxAbandoned)
      ~> answer[t].kind = "response"

-----------------------------------------------------------------------------
(* The inductive invariant behind NoLostWakeup, HandlerReadsItsRequest and *)
(* ResponseKept; it needs no bound on tasks, capacity or abandoned requests.*)

Handling == {"begin", "setid", "route", "fill", "complete", "commit", "ack"}
Writing  == {"setid", "route", "fill", "complete", "commit"}

(* The request ring holds at most Capacity requests, the one being handled *)
(* is its head.                                                            *)
RequestRingInv ==
  /\ req_read_idx <= req_write_idx
  /\ req_write_idx - req_read_idx <= Capacity
  /\ vpc = "publish" => req_write_idx - req_read_idx < Capacity
  /\ wpc \in Handling => /\ current_req_idx = req_read_idx
                         /\ req_read_idx < req_write_idx

(* With current_val up to date and a request published, valet has not yet  *)
(* bumped the futex word, or has not yet called FUTEX_WAKE.                *)
FutexInv ==
  /\ current_val <= req_futex
  /\ wpc = "futex" /\ current_val = req_futex /\ ~ReqEmpty => vpc = "bump"
  /\ wpc = "asleep" /\ ~ReqEmpty => vpc \in {"bump", "wake"}

(* A request between the read index and the write index, or claimed and    *)
(* about to be published, has its bytes in its partition until the handler *)
(* overwrites them with the response.                                      *)
Submitted ==
  {q \in req_read_idx .. req_write_idx : q = req_write_idx => vpc = "publish"}
Intact(q) ==
  arena[SlotIndex(q)] = [kind |-> "request", id |-> req_ring[SlotIndex(q)]]
PartitionInv ==
  /\ \A q \in Submitted :
       Intact(q) \/ (q = req_read_idx /\ wpc \in {"complete", "commit", "ack"})
  /\ wpc = "fill" => path = [kind |-> "request", id |-> req_ring[Current]]

(* A slot with an id is between the read index and the write index, or is  *)
(* the one the worker is writing.                                          *)
ResponseRingInv ==
  /\ resp_read_idx <= resp_write_idx
  /\ resp_write_idx - resp_read_idx <= Capacity
  /\ wpc \in Writing => resp_write_idx - resp_read_idx < Capacity
  /\ wpc \in Writing \ {"commit"} => ~resp_ring[SlotIndex(resp_write_idx)].complete
  /\ \A s \in Slot : resp_ring[s].id # 0 =>
       \/ \E q \in resp_read_idx .. resp_write_idx - 1 : SlotIndex(q) = s
       \/ wpc \in Writing /\ s = SlotIndex(resp_write_idx)

IInv == TypeOK /\ RequestRingInv /\ FutexInv /\ PartitionInv /\ ResponseRingInv

-----------------------------------------------------------------------------
(* The inductive invariant behind AckedIsAnswered and AnswerIsOwn, for     *)
(* fewer tasks than slots and no request given up on.                      *)

Roomy == NTasks < Capacity /\ MaxAbandoned = 0

Submitting == {"publish", "bump", "wake", "arm"}
Taking     == {"sweep", "copy"}

(* The requests that have not been swept, named by sequence numbers.       *)
Claimed   == IF vpc = "publish" THEN req_write_idx + 1 ELSE req_write_idx
Unswept   == resp_read_idx .. Claimed - 1
Request(q)  == req_ring[SlotIndex(q)]
Answered(q) == q < resp_write_idx \/ (q = resp_write_idx /\ wpc = "commit")
Taken(q)    == Answered(q) /\ resp_ring[SlotIndex(q)].id = 0

(* A task whose request it is; a task that still waits for its response.   *)
Holds(t, q) == request_id[t] = Request(q) /\ claimed_slot[t] = SlotIndex(q)
Awaits(t) ==
  IF Polled(t) /\ vpc # "poll" THEN vpc \in Submitting
                               ELSE handler_state[t] = "PROXY_WAIT"

(* Task u is not polled again before t is: passes keep the pool's order.   *)
Left == IF vpc \in Taking THEN {u \in ready : ~Polled(u)} ELSE ready
After(u, t) == (u \in Left => t \in Left) /\ (t < u \/ (t \in Left /\ u \notin Left))

(* The q-th response answers the q-th request: the response ring never     *)
(* looks full, since the unswept requests are at most one more than tasks. *)
InStep ==
  /\ resp_write_idx = IF wpc = "ack" THEN req_read_idx + 1 ELSE req_read_idx
  /\ Claimed - resp_read_idx <= NTasks + 1

(* Ids grow with the sequence numbers.                                     *)
IdsInv ==
  /\ \A q \in Unswept : Request(q) # 0 /\ Request(q) < next_request_id
  /\ \A p, q \in Unswept : p < q => Request(p) < Request(q)
  /\ \A t \in Task : request_id[t] < next_request_id

(* What the response slot and the partition of a request hold.             *)
ResponsesInv ==
  /\ \A q \in Unswept : Answered(q) /\ ~Taken(q) =>
       /\ resp_ring[SlotIndex(q)] = [id |-> Request(q), complete |-> TRUE]
       /\ arena[SlotIndex(q)] = [kind |-> "response", id |-> Request(q)]
  /\ wpc \in {"route", "fill", "complete"} =>
       resp_ring[SlotIndex(resp_write_idx)].id = Request(resp_write_idx)
  /\ wpc = "complete" =>
       arena[SlotIndex(resp_write_idx)] = [kind |-> "response", id |-> Request(resp_write_idx)]

(* Waiting tasks and untaken requests are the same things.                 *)
OwnersInv ==
  /\ \A q \in Unswept : ~Taken(q) => \E t \in Task : Awaits(t) /\ Holds(t, q)
  /\ \A t \in Task : Awaits(t) => \E q \in Unswept : ~Taken(q) /\ Holds(t, q)
  /\ \A t, u \in Task : Awaits(t) /\ Awaits(u) /\ t # u => request_id[t] # request_id[u]
  /\ \A t \in Task : Polled(t) /\ vpc \in Submitting =>
       handler_state[t] = "RECV" /\ request_id[t] = Request(Claimed - 1)

(* A response taken out of turn: its task is polled after the task of the  *)
(* earlier, untaken one, so it cannot send a request before that.          *)
OrderInv ==
  /\ \A t \in Task, u \in ready : handler_state[t] = "PROXY_WAIT" /\ t \notin ready => t < u
  /\ \A p, q \in Unswept : p < q /\ ~Taken(p) /\ Taken(q) =>
       \E u \in Task : /\ Holds(u, q)
                      /\ \A t \in Task : Awaits(t) /\ Holds(t, p) => After(u, t)

(* After a sweep the head is untaken, or it was taken before its commit.   *)
HeadInv ==
  \A p, q \in Unswept :
    vpc # "sweep" /\ p = resp_read_idx /\ Taken(p) /\ Taken(q) => q = p

(* The bytes of the response being copied, and of those in send buffers.   *)
AnswersInv ==
  /\ \A t \in Task : Polled(t) /\ vpc \in Taking =>
       /\ handler_state[t] = "PROXY_WAIT"
       /\ \E q \in 0 .. Claimed - 1 :
            /\ Answered(q) /\ Claimed - q <= Capacity /\ claimed_slot[t] = SlotIndex(q)
            /\ arena[SlotIndex(q)] = [kind |-> "response", id |-> request_id[t]]
  /\ \A t \in Task : answer[t] # NoBytes =>
       /\ handler_state[t] = "SEND"
       /\ answer[t] = [kind |-> "response", id |-> request_id[t]]

PairInv == InStep /\ IdsInv /\ ResponsesInv /\ OwnersInv /\ OrderInv /\ HeadInv /\ AnswersInv

=============================================================================
