--------------------------- MODULE ZeusRingProofs ---------------------------
(***************************************************************************)
(* Theorems about ZeusRing for every number of tasks, every capacity and   *)
(* every bound: type correctness, no lost wakeup, the handler's view of    *)
(* its request, and the safety of unclaimed responses.  For any pool with  *)
(* fewer tasks than the rings have slots, as long as no request is given   *)
(* up on (Roomy): every request that is acknowledged is answered, and      *)
(* every client gets the response to its own request; and every step of    *)
(* the proxy and the worker is a step of RequestService or leaves it       *)
(* alone: requests are executed once, in the order of their submission,    *)
(* and every answer is delivered to the task that asked.                   *)
(***************************************************************************)
EXTENDS ZeusRingRefinement, FiniteSetTheorems, SequenceTheorems, TLAPS

-----------------------------------------------------------------------------
(* Slots of sequence numbers.                                              *)

LEMMA SlotIndexType ==
  ASSUME NEW q \in Nat
  PROVE  SlotIndex(q) \in Slot
  BY CapacityAssumption, SMT DEF SlotIndex, Slot

(* Two sequence numbers less than a lap apart use different slots.         *)
LEMMA SlotsDiffer ==
  ASSUME NEW p \in Nat, NEW q \in Nat, p < q, q - p < Capacity
  PROVE  SlotIndex(p) # SlotIndex(q)
<1> DEFINE lapP == p \div Capacity  lapQ == q \div Capacity
           slotP == p % Capacity    slotQ == q % Capacity
<1>1. /\ p = Capacity * lapP + slotP /\ q = Capacity * lapQ + slotQ
      /\ lapP \in Int /\ lapQ \in Int /\ slotP \in Int /\ slotQ \in Int
  BY CapacityAssumption, SMT
<1> HIDE DEF lapP, lapQ, slotP, slotQ
<1>2. ASSUME slotP = slotQ PROVE FALSE
  <2>1. q - p = Capacity * (lapQ - lapP)
    BY <1>1, <1>2, CapacityAssumption, SMT
  <2>2. lapQ - lapP >= 1
    BY <1>1, <2>1, CapacityAssumption, SMT
  <2>3. Capacity * (lapQ - lapP) >= Capacity
    BY <1>1, <2>2, CapacityAssumption, SMT
  <2> QED BY <2>1, <2>3, CapacityAssumption, SMT
<1> QED BY <1>2 DEF SlotIndex, slotP, slotQ

-----------------------------------------------------------------------------
(* Type correctness.                                                       *)

LEMMA InitTypeOK == Init => TypeOK
  BY NTasksAssumption, CapacityAssumption, BoundsAssumption
  DEF Init, TypeOK, Task, Slot, Id, Bytes, NoBytes, RespSlotInit

(* The steps of valet's thread keep the types.                             *)
LEMMA ValetTypeOK == TypeOK /\ Valet => TypeOK'
<1> SUFFICES ASSUME TypeOK, Valet PROVE TypeOK'
  OBVIOUS
<1> USE BoundsAssumption DEF TypeOK, vars, control, slots, tasks, valetVars, workerVars
<1>1. CASE NewPass
  BY <1>1 DEF NewPass
<1>2. CASE SubmitPublish
  BY <1>2 DEF SubmitPublish
<1>3. CASE SignalBump
  BY <1>3 DEF SignalBump
<1>4. CASE SignalWake
  BY <1>4 DEF SignalWake
<1>5. CASE Sweep
  BY <1>5 DEF Sweep
<1>6. CASE SweepDone
  BY <1>6 DEF SweepDone
<1>7. ASSUME NEW t \in Task,
             RecvEof(t) \/ ProxyRingFull(t) \/ ProxyUnavailable(t)
               \/ ProxyArm(t) \/ PeekMiss(t)
      PROVE  TypeOK'
  BY <1>7 DEF RecvEof, ProxyRingFull, ProxyUnavailable, ProxyArm, PeekMiss, Return
<1>8. ASSUME NEW t \in Task, ProxyReject(t) \/ ProxyClaim(t)
      PROVE  TypeOK'
  <2>1. SlotIndex(req_write_idx) \in Slot
    BY SlotIndexType
  <2>2. next_request_id \in Id /\ next_request_id <= MaxRequests
    BY <1>8 DEF ProxyReject, ProxyClaim, Id
  <2>3. arena' \in [Slot -> Bytes]
    BY <1>8, <2>1, <2>2 DEF ProxyReject, ProxyClaim, CopyPath, Bytes
  <2>4. CASE ProxyReject(t)
    BY <2>2, <2>3, <2>4 DEF ProxyReject, Return
  <2>5. CASE ProxyClaim(t)
    BY <2>1, <2>2, <2>3, <2>5 DEF ProxyClaim
  <2> QED BY <1>8, <2>4, <2>5
<1>9. ASSUME NEW t \in Task, ProxyArmFails(t) \/ PeekGiveUp(t) \/ CopyFails(t)
      PROVE  TypeOK'
  <2>1. 0 \in Slot /\ 0 \in Id
    BY CapacityAssumption DEF Slot, Id
  <2>2. GiveUp(t)
    BY <1>9 DEF ProxyArmFails, PeekGiveUp, CopyFails
  <2>3. abandoned' \in 0 .. MaxAbandoned
    BY <2>2 DEF GiveUp
  <2>4. /\ claimed_slot' \in [Task -> Slot] /\ request_id' \in [Task -> Id]
        /\ handler_state' \in [Task -> {"RECV", "PROXY_WAIT", "SEND"}]
        /\ ready' \subseteq Task /\ vpc' = "poll"
    BY <2>1, <2>2 DEF GiveUp, Return
  <2> QED BY <2>2, <2>3, <2>4 DEF GiveUp
<1>10. ASSUME NEW t \in Task, PeekHit(t) PROVE TypeOK'
  BY <1>10 DEF PeekHit, Id
<1>11. ASSUME NEW t \in Task, CopyResponse(t) PROVE TypeOK'
  BY <1>11 DEF CopyResponse, Return
<1>12. ASSUME NEW t \in Task, SendDone(t) PROVE TypeOK'
  <2>1. 0 \in Slot /\ 0 \in Id
    BY CapacityAssumption DEF Slot, Id
  <2> QED BY <1>12, <2>1 DEF SendDone, Return, NoBytes, Bytes
<1> QED
  BY <1>1, <1>2, <1>3, <1>4, <1>5, <1>6, <1>7, <1>8, <1>9, <1>10, <1>11, <1>12
  DEF Valet

(* The steps of the worker keep the types.                                 *)
LEMMA WorkerTypeOK ==
  ASSUME TypeOK, Worker, wpc \in {"setid", "route", "fill"} => current_req_idx \in Nat
  PROVE  TypeOK'
<1> USE BoundsAssumption DEF TypeOK, vars, control, slots, tasks, valetVars, workerVars
<1>1. CASE SpinHit \/ SpinOver \/ LoadFutex \/ CheckEmpty \/ FutexWait
           \/ FutexTimeout \/ PollNone \/ PollRequest
  BY <1>1 DEF SpinHit, SpinOver, LoadFutex, CheckEmpty, FutexWait, FutexTimeout,
              PollNone, PollRequest, Goto
<1>2. CASE CommitResponse \/ SetRunning
  BY <1>2 DEF CommitResponse, SetRunning, Goto
<1>3. CASE AckRequest
  BY <1>3 DEF AckRequest, Goto, NoBytes, Bytes, Id
<1>4. CASE BeginResponse
  <2>1. resp_ring' \in [Slot -> [id : Id, complete : BOOLEAN]]
    <3>1. RespSlotInit \in [id : Id, complete : BOOLEAN]
      BY DEF RespSlotInit, Id
    <3> QED BY <1>4, <3>1 DEF BeginResponse
  <2>2. wpc' \in {"ack", "setid"} /\ state' \in {"RUNNING", "BUSY"}
    BY <1>4 DEF BeginResponse, Goto
  <2> QED BY <1>4, <2>1, <2>2 DEF BeginResponse
<1>5. CASE SetResponseId \/ ReadRequest \/ FillResponse
  <2>1. Current \in Slot
    BY <1>5, SlotIndexType DEF SetResponseId, ReadRequest, FillResponse, Goto, Current
  <2>2. CASE SetResponseId
    BY <2>1, <2>2 DEF SetResponseId, Goto
  <2>3. CASE ReadRequest
    BY <2>1, <2>3 DEF ReadRequest, Goto
  <2>4. CASE FillResponse
    BY <2>1, <2>4 DEF FillResponse, Goto, Bytes
  <2> QED BY <1>5, <2>2, <2>3, <2>4
<1>6. CASE CompleteResponse
  BY <1>6 DEF CompleteResponse, Goto
<1> QED
  BY <1>1, <1>2, <1>3, <1>4, <1>5, <1>6 DEF Worker, WorkerStep

-----------------------------------------------------------------------------
(* The inductive invariant, part by part.                                  *)

LEMMA InitIInv == Init => IInv
<1> SUFFICES ASSUME Init PROVE IInv
  OBVIOUS
<1>1. TypeOK
  BY InitTypeOK
<1>2. RequestRingInv /\ FutexInv
  BY CapacityAssumption DEF Init, RequestRingInv, FutexInv, Handling
<1>3. PartitionInv
  BY DEF Init, PartitionInv, Submitted
<1>4. ResponseRingInv
  BY CapacityAssumption DEF Init, ResponseRingInv, Writing, RespSlotInit
<1> QED BY <1>1, <1>2, <1>3, <1>4 DEF IInv

(* The steps of valet that leave the control block, the slots and the      *)
(* worker alone.                                                           *)
LocalStep == UNCHANGED <<control, slots, workerVars>>

(* What valet's steps do to the state the invariant is about.              *)
LEMMA ValetCases ==
  ASSUME TypeOK, Valet
  PROVE  \/ LocalStep /\ vpc # "publish" /\ vpc' \notin {"publish", "bump", "wake"}
              /\ vpc \notin {"bump", "wake"}
         \/ SubmitPublish \/ SignalBump \/ SignalWake
         \/ \E t \in Task : ProxyReject(t) \/ ProxyClaim(t) \/ PeekHit(t)
         \/ Sweep
<1>1. CASE NewPass
  BY <1>1 DEF NewPass, LocalStep
<1>2. CASE SweepDone
  BY <1>2 DEF SweepDone, LocalStep
<1>3. ASSUME NEW t \in Task, RecvEof(t) \/ ProxyRingFull(t) \/ ProxyUnavailable(t) \/ PeekMiss(t)
      PROVE  LocalStep /\ vpc = "poll" /\ vpc' = "poll"
  BY <1>3 DEF RecvEof, ProxyRingFull, ProxyUnavailable, PeekMiss, Begins, Return, LocalStep
<1>4. ASSUME NEW t \in Task, ProxyArm(t) \/ CopyResponse(t) \/ SendDone(t)
      PROVE  LocalStep /\ vpc \in {"arm", "copy", "poll"} /\ vpc' = "poll"
  BY <1>4 DEF ProxyArm, CopyResponse, SendDone, Begins, Return, LocalStep
<1>5. ASSUME NEW t \in Task, ProxyArmFails(t) \/ PeekGiveUp(t) \/ CopyFails(t)
      PROVE  LocalStep /\ vpc \in {"arm", "copy", "poll"} /\ vpc' = "poll"
  BY <1>5 DEF ProxyArmFails, PeekGiveUp, CopyFails, GiveUp, Begins, Return, LocalStep
<1> QED BY <1>1, <1>2, <1>3, <1>4, <1>5 DEF Valet

LEMMA RequestRingStep == IInv /\ Next => RequestRingInv'
<1> SUFFICES ASSUME IInv, Next PROVE RequestRingInv'
  OBVIOUS
<1> USE CapacityAssumption DEF RequestRingInv, Handling
<1>0. /\ TypeOK /\ RequestRingInv
      /\ req_write_idx \in Nat /\ req_read_idx \in Nat
  BY DEF IInv, TypeOK
<1>1. CASE Valet
  <2>1. CASE LocalStep /\ vpc' # "publish"
    BY <1>0, <2>1 DEF LocalStep, control, workerVars
  <2>2. CASE SubmitPublish
    BY <1>0, <2>2 DEF SubmitPublish, workerVars
  <2>3. CASE SignalBump
    BY <1>0, <2>3 DEF SignalBump, workerVars
  <2>4. CASE SignalWake
    BY <1>0, <2>4 DEF SignalWake, control
  <2>5. ASSUME NEW t \in Task, ProxyReject(t) \/ PeekHit(t) PROVE RequestRingInv'
    BY <1>0, <2>5 DEF ProxyReject, PeekHit, Return, control, workerVars
  <2>6. ASSUME NEW t \in Task, ProxyClaim(t) PROVE RequestRingInv'
    BY <1>0, <2>6 DEF ProxyClaim, ReqFull, control, workerVars
  <2>7. CASE Sweep
    BY <1>0, <2>7 DEF Sweep, valetVars, workerVars
  <2> QED BY <1>0, <1>1, <2>1, <2>2, <2>3, <2>4, <2>5, <2>6, <2>7, ValetCases
<1>2. CASE Worker
  <2>1. CASE SpinHit \/ SpinOver \/ LoadFutex \/ CheckEmpty \/ FutexWait
             \/ FutexTimeout \/ PollNone
    BY <1>0, <2>1 DEF SpinHit, SpinOver, LoadFutex, CheckEmpty, FutexWait,
      FutexTimeout, PollNone, Goto, control, valetVars
  <2>2. CASE PollRequest
    BY <1>0, <2>2 DEF PollRequest, Goto, ReqEmpty, control, valetVars
  <2>3. CASE BeginResponse
    BY <1>0, <2>3 DEF BeginResponse, Goto, valetVars
  <2>4. CASE SetResponseId \/ ReadRequest \/ FillResponse \/ CompleteResponse
    BY <1>0, <2>4 DEF SetResponseId, ReadRequest, FillResponse, CompleteResponse,
      Goto, control, valetVars
  <2>5. CASE CommitResponse \/ SetRunning
    BY <1>0, <2>5 DEF CommitResponse, SetRunning, Goto, valetVars
  <2>6. CASE AckRequest
    BY <1>0, <2>6 DEF AckRequest, Goto, valetVars
  <2> QED BY <1>0, <1>2, <2>1, <2>2, <2>3, <2>4, <2>5, <2>6
      DEF Worker, WorkerStep
<1> QED BY <1>1, <1>2 DEF Next

LEMMA FutexStep == IInv /\ Next => FutexInv'
<1> SUFFICES ASSUME IInv, Next PROVE FutexInv'
  OBVIOUS
<1> USE DEF FutexInv, ReqEmpty
<1>0. /\ TypeOK /\ FutexInv /\ RequestRingInv
      /\ req_write_idx \in Nat /\ req_read_idx \in Nat
      /\ req_futex \in Nat /\ current_val \in Nat
  BY DEF IInv, TypeOK
<1>1. CASE Valet
  <2>1. CASE LocalStep /\ vpc \notin {"bump", "wake"}
    BY <1>0, <2>1 DEF LocalStep, control, workerVars
  <2>2. CASE SubmitPublish
    BY <1>0, <2>2 DEF SubmitPublish, workerVars
  <2>3. CASE SignalBump
    BY <1>0, <2>3 DEF SignalBump, workerVars
  <2>4. CASE SignalWake
    BY <1>0, <2>4 DEF SignalWake, control
  <2>5. ASSUME NEW t \in Task, ProxyReject(t) \/ ProxyClaim(t) \/ PeekHit(t)
        PROVE FutexInv'
    BY <1>0, <2>5 DEF ProxyReject, ProxyClaim, PeekHit, Begins, control, workerVars
  <2>6. CASE Sweep
    BY <1>0, <2>6 DEF Sweep, valetVars, workerVars
  <2> QED BY <1>0, <1>1, <2>1, <2>2, <2>3, <2>4, <2>5, <2>6, ValetCases
<1>2. CASE Worker
  <2>1. CASE SpinHit \/ SpinOver \/ FutexTimeout \/ PollNone
    BY <1>0, <2>1 DEF SpinHit, SpinOver, FutexTimeout, PollNone, Goto, control, valetVars
  <2>2. CASE LoadFutex \/ CheckEmpty \/ FutexWait
    BY <1>0, <2>2 DEF LoadFutex, CheckEmpty, FutexWait, Goto, control, valetVars
  <2>3. CASE PollRequest \/ SetResponseId \/ ReadRequest \/ FillResponse \/ CompleteResponse
    BY <1>0, <2>3 DEF PollRequest, SetResponseId, ReadRequest, FillResponse,
      CompleteResponse, Goto, control, valetVars
  <2>4. CASE BeginResponse \/ CommitResponse \/ AckRequest \/ SetRunning
    BY <1>0, <2>4 DEF BeginResponse, CommitResponse, AckRequest, SetRunning, Goto, valetVars
  <2> QED BY <1>0, <1>2, <2>1, <2>2, <2>3, <2>4
      DEF Worker, WorkerStep
<1> QED BY <1>1, <1>2 DEF Next

(* A write to the partition of another slot leaves a request intact.       *)
LEMMA OtherPartition ==
  ASSUME TypeOK, RequestRingInv, NEW p \in Nat, NEW q \in Nat,
         (p < q /\ q - p < Capacity) \/ (q < p /\ p - q < Capacity),
         NEW b, arena' = [arena EXCEPT ![SlotIndex(p)] = b],
         \/ req_ring' = req_ring
         \/ \E id : req_ring' = [req_ring EXCEPT ![SlotIndex(p)] = id],
         Intact(q)
  PROVE  Intact(q)'
<1>1. SlotIndex(p) # SlotIndex(q)
  BY SlotsDiffer
<1>2. SlotIndex(p) \in Slot /\ SlotIndex(q) \in Slot /\ SlotIndex(q)' = SlotIndex(q)
  BY SlotIndexType DEF SlotIndex
<1> QED BY <1>1, <1>2 DEF Intact, TypeOK

LEMMA PartitionStep == IInv /\ Next => PartitionInv'
<1> SUFFICES ASSUME IInv, Next PROVE PartitionInv'
  OBVIOUS
<1>0. /\ TypeOK /\ RequestRingInv /\ PartitionInv
      /\ req_write_idx \in Nat /\ req_read_idx \in Nat /\ Capacity \in Nat \ {0}
      /\ arena \in [Slot -> Bytes] /\ req_ring \in [Slot -> Id]
  BY CapacityAssumption DEF IInv, TypeOK
<1>a. \A q : (UNCHANGED <<arena, req_ring>> /\ Intact(q)) => Intact(q)'
  BY DEF Intact, SlotIndex
<1>1. CASE Valet
  <2>1. ASSUME UNCHANGED <<req_write_idx, req_read_idx, req_ring, arena, workerVars>>,
               vpc' = "publish" => vpc = "publish"
        PROVE  PartitionInv'
    BY <1>0, <1>a, <2>1 DEF PartitionInv, Submitted, Current, SlotIndex, workerVars
  <2>2. CASE LocalStep /\ vpc' # "publish"
    BY <2>1, <2>2 DEF LocalStep, control, slots, workerVars
  <2>3. CASE SignalBump \/ Sweep
    BY <2>1, <2>3 DEF SignalBump, Sweep, slots, workerVars, valetVars
  <2>4. ASSUME NEW t \in Task, PeekHit(t) PROVE PartitionInv'
    BY <2>1, <2>4 DEF PeekHit, control, slots, workerVars
  <2>5. CASE SubmitPublish
    <3>1. /\ req_write_idx' = req_write_idx + 1 /\ req_read_idx' = req_read_idx
          /\ UNCHANGED <<arena, req_ring, wpc, path, current_req_idx>>
          /\ vpc = "publish" /\ vpc' = "bump"
      BY <2>5 DEF SubmitPublish, slots, workerVars
    <3>2. Submitted' \subseteq Submitted
      BY <1>0, <3>1 DEF Submitted
    <3> QED BY <1>0, <1>a, <3>1, <3>2 DEF PartitionInv, Current, SlotIndex
  <2>6. CASE SignalWake
    <3>1. /\ UNCHANGED <<req_write_idx, req_read_idx, arena, req_ring, path, current_req_idx>>
          /\ vpc = "wake" /\ vpc' = "arm"
          /\ wpc' = wpc \/ (wpc = "asleep" /\ wpc' = "check")
      BY <2>6 DEF SignalWake, control, slots
    <3> QED BY <1>0, <1>a, <3>1 DEF PartitionInv, Submitted, Current, SlotIndex
  <2>7. ASSUME NEW t \in Task, ProxyReject(t) \/ ProxyClaim(t) PROVE PartitionInv'
    <3> DEFINE b == [kind |-> "request", id |-> next_request_id]
    <3>1. /\ UNCHANGED <<req_write_idx, req_read_idx, wpc, path, current_req_idx>>
          /\ vpc = "poll" /\ req_write_idx - req_read_idx < Capacity
          /\ arena' = [arena EXCEPT ![SlotIndex(req_write_idx)] = b]
      BY <1>0, <2>7 DEF ProxyReject, ProxyClaim, CopyPath, Begins, ReqFull, control, workerVars
    <3>2. \/ req_ring' = req_ring /\ vpc' = "poll"
          \/ req_ring' = [req_ring EXCEPT ![SlotIndex(req_write_idx)] = next_request_id]
      BY <2>7 DEF ProxyReject, ProxyClaim, Return
    <3>3. ASSUME NEW q \in Submitted', q # req_write_idx, Intact(q)
          PROVE  Intact(q)'
      <4>1. q \in Nat /\ q < req_write_idx /\ req_write_idx - q < Capacity
        BY <1>0, <3>1, <3>3 DEF Submitted
      <4> QED BY <1>0, <3>1, <3>2, <3>3, <4>1, OtherPartition
    <3>4. req_write_idx \in Submitted' => Intact(req_write_idx)'
      <4>1. SlotIndex(req_write_idx) \in Slot
        BY <1>0, SlotIndexType
      <4>2. Intact(req_write_idx)' = (arena'[SlotIndex(req_write_idx)]
               = [kind |-> "request", id |-> req_ring'[SlotIndex(req_write_idx)]])
        BY <3>1 DEF Intact, SlotIndex
      <4> QED BY <1>0, <3>1, <3>2, <4>1, <4>2 DEF Submitted
    <3>5. \A q \in Submitted' : q # req_write_idx => q \in Submitted
      BY <3>1 DEF Submitted
    <3>6. wpc = "fill" => req_ring'[Current'] = req_ring[Current]
      <4> SUFFICES ASSUME wpc = "fill" PROVE req_ring'[Current'] = req_ring[Current]
        OBVIOUS
      <4>1. /\ current_req_idx = req_read_idx /\ req_read_idx < req_write_idx
            /\ Current = SlotIndex(req_read_idx) /\ Current' = Current
        BY <1>0, <3>1 DEF RequestRingInv, Handling, Current, SlotIndex
      <4>2. Current # SlotIndex(req_write_idx)
        BY <1>0, <3>1, <4>1, SlotsDiffer
      <4>3. Current \in Slot /\ SlotIndex(req_write_idx) \in Slot
        BY <1>0, <4>1, SlotIndexType
      <4> QED BY <1>0, <3>2, <4>1, <4>2, <4>3
    <3> QED BY <1>0, <3>1, <3>3, <3>4, <3>5, <3>6 DEF PartitionInv
  <2> QED BY <1>0, <1>1, <2>2, <2>3, <2>4, <2>5, <2>6, <2>7, ValetCases
<1>2. CASE Worker
  <2>1. ASSUME UNCHANGED <<req_write_idx, req_read_idx, req_ring, arena, vpc>>,
               wpc \in {"complete", "commit", "ack"}
                 => wpc' \in {"complete", "commit", "ack"},
               wpc' # "fill"
        PROVE  PartitionInv'
    BY <1>0, <1>a, <2>1 DEF PartitionInv, Submitted
  <2>2. CASE SpinHit \/ SpinOver \/ LoadFutex \/ CheckEmpty \/ FutexWait
             \/ FutexTimeout \/ PollNone \/ PollRequest
    BY <2>1, <2>2 DEF SpinHit, SpinOver, LoadFutex, CheckEmpty, FutexWait,
      FutexTimeout, PollNone, PollRequest, Goto, control, slots, valetVars
  <2>3. CASE BeginResponse \/ SetResponseId
    BY <2>1, <2>3 DEF BeginResponse, SetResponseId, Goto, control, valetVars
  <2>4. CASE CompleteResponse \/ CommitResponse \/ SetRunning
    BY <2>1, <2>4 DEF CompleteResponse, CommitResponse, SetRunning, Goto, control,
      slots, valetVars
  <2>5. CASE ReadRequest
    <3>1. /\ UNCHANGED <<req_write_idx, req_read_idx, req_ring, arena, vpc, current_req_idx>>
          /\ wpc = "route" /\ wpc' = "fill" /\ path' = arena[Current]
      BY <2>5 DEF ReadRequest, Goto, control, slots, valetVars
    <3>2. current_req_idx = req_read_idx /\ req_read_idx \in Submitted
      BY <1>0, <3>1 DEF RequestRingInv, Handling, Submitted
    <3>3. Intact(req_read_idx)
      BY <1>0, <3>1, <3>2 DEF PartitionInv
    <3> QED BY <1>0, <1>a, <3>1, <3>2, <3>3
      DEF PartitionInv, Submitted, Current, Intact, SlotIndex
  <2>6. CASE FillResponse
    <3> DEFINE b == [kind |-> "response", id |-> req_ring[Current]]
    <3>1. /\ UNCHANGED <<req_write_idx, req_read_idx, req_ring, vpc>>
          /\ wpc = "fill" /\ wpc' = "complete"
          /\ arena' = [arena EXCEPT ![SlotIndex(req_read_idx)] = b]
          /\ Submitted' = Submitted
      BY <1>0, <2>6 DEF FillResponse, Goto, RequestRingInv, Handling, Current, control,
        valetVars, Submitted
    <3>2. ASSUME NEW q \in Submitted, q # req_read_idx, Intact(q)
          PROVE  Intact(q)'
      <4>1. q \in Nat /\ req_read_idx < q /\ q - req_read_idx < Capacity
        BY <1>0, <3>1, <3>2 DEF Submitted, RequestRingInv
      <4>2. SlotIndex(req_read_idx) # SlotIndex(q)
        BY <1>0, <4>1, SlotsDiffer
      <4>3. SlotIndex(req_read_idx) \in Slot /\ SlotIndex(q) \in Slot
        BY <1>0, <4>1, SlotIndexType
      <4>4. arena'[SlotIndex(q)] = arena[SlotIndex(q)]
        BY <1>0, <3>1, <4>2, <4>3
      <4> QED BY <3>1, <3>2, <4>4 DEF Intact, SlotIndex
    <3> QED BY <1>0, <3>1, <3>2 DEF PartitionInv
  <2>7. CASE AckRequest
    <3>1. /\ UNCHANGED <<req_write_idx, req_ring, arena, vpc>>
          /\ wpc' = "running" /\ req_read_idx' = req_read_idx + 1
      BY <2>7 DEF AckRequest, Goto, slots, valetVars
    <3>2. \A q \in Submitted' : q \in Submitted /\ q # req_read_idx
      BY <1>0, <3>1 DEF Submitted
    <3> QED BY <1>0, <1>a, <3>1, <3>2 DEF PartitionInv
  <2> QED BY <1>2, <2>2, <2>3, <2>4, <2>5, <2>6, <2>7 DEF Worker, WorkerStep
<1> QED BY <1>1, <1>2 DEF Next

(* A slot whose sequence number is unread lies between the indices.        *)
Unread(s) == \E q \in resp_read_idx .. resp_write_idx - 1 : SlotIndex(q) = s

(* No unread response is in the slot the worker would fill next.           *)
LEMMA FreshSlot ==
  ASSUME TypeOK, ResponseRingInv, ~RespFull
  PROVE  ~Unread(SlotIndex(resp_write_idx))
<1>1. ASSUME NEW q \in resp_read_idx .. resp_write_idx - 1
      PROVE  SlotIndex(q) # SlotIndex(resp_write_idx)
  <2>1. /\ q \in Nat /\ resp_write_idx \in Nat /\ q < resp_write_idx
        /\ resp_write_idx - q < Capacity
    BY <1>1, CapacityAssumption DEF TypeOK, RespFull, ResponseRingInv
  <2> QED BY <2>1, SlotsDiffer
<1> QED BY <1>1 DEF Unread

LEMMA ResponseRingStep == IInv /\ Next => ResponseRingInv'
<1> SUFFICES ASSUME IInv, Next PROVE ResponseRingInv'
  OBVIOUS
<1> DEFINE free == SlotIndex(resp_write_idx)
<1>0. /\ TypeOK /\ ResponseRingInv
      /\ resp_write_idx \in Nat /\ resp_read_idx \in Nat /\ Capacity \in Nat \ {0}
      /\ resp_ring \in [Slot -> [id : Id, complete : BOOLEAN]]
      /\ free \in Slot
  BY CapacityAssumption, SlotIndexType DEF IInv, TypeOK
<1>a. \A q : SlotIndex(q)' = SlotIndex(q)
  BY DEF SlotIndex
<1>1. ASSUME UNCHANGED <<resp_write_idx, resp_read_idx, resp_ring>>,
             wpc' \in Writing <=> wpc \in Writing,
             wpc' \in Writing \ {"commit"} => wpc \in Writing \ {"commit"}
      PROVE  ResponseRingInv'
  BY <1>0, <1>a, <1>1 DEF ResponseRingInv
<1>2. CASE Valet
  <2>1. CASE LocalStep \/ SubmitPublish \/ SignalBump
             \/ \E t \in Task : ProxyReject(t) \/ ProxyClaim(t)
    BY <1>1, <2>1 DEF LocalStep, SubmitPublish, SignalBump, ProxyReject, ProxyClaim,
      control, slots, workerVars
  <2>2. CASE SignalWake
    <3>1. wpc' = wpc \/ (wpc = "asleep" /\ wpc' = "check")
      BY <2>2 DEF SignalWake
    <3> QED BY <1>1, <2>2, <3>1 DEF SignalWake, control, slots, Writing
  <2>3. ASSUME NEW t \in Task, PeekHit(t) PROVE ResponseRingInv'
    <3>1. /\ UNCHANGED <<resp_write_idx, resp_read_idx, wpc>>
          /\ \A s \in Slot : /\ resp_ring'[s].id # 0 => resp_ring[s].id # 0
                            /\ resp_ring'[s].complete = resp_ring[s].complete
      BY <1>0, <2>3 DEF PeekHit, control, workerVars
    <3> QED BY <1>0, <1>a, <3>1 DEF ResponseRingInv
  <2>4. CASE Sweep
    <3>1. /\ UNCHANGED <<resp_write_idx, resp_ring, wpc>>
          /\ resp_read_idx' = resp_read_idx + 1
          /\ resp_read_idx < resp_write_idx
          /\ resp_ring[SlotIndex(resp_read_idx)].id = 0
      BY <2>4 DEF Sweep, Swept, slots, workerVars
    <3>2. ASSUME NEW s \in Slot, resp_ring[s].id # 0, Unread(s)
          PROVE  Unread(s)'
      <4>1. PICK q \in resp_read_idx .. resp_write_idx - 1 : SlotIndex(q) = s
        BY <3>2 DEF Unread
      <4>2. q # resp_read_idx
        BY <3>1, <3>2, <4>1
      <4>3. q \in resp_read_idx' .. resp_write_idx' - 1
        BY <1>0, <3>1, <4>1, <4>2
      <4> QED BY <1>a, <4>1, <4>3 DEF Unread
    <3> QED BY <1>0, <1>a, <3>1, <3>2 DEF ResponseRingInv, Unread
  <2> QED BY <1>0, <1>2, <2>1, <2>2, <2>3, <2>4, ValetCases
<1>3. CASE Worker
  <2>1. CASE SpinHit \/ SpinOver \/ LoadFutex \/ CheckEmpty \/ FutexWait
             \/ FutexTimeout \/ PollNone \/ PollRequest
    BY <1>1, <2>1 DEF SpinHit, SpinOver, LoadFutex, CheckEmpty, FutexWait,
      FutexTimeout, PollNone, PollRequest, Goto, control, slots, Writing
  <2>2. CASE ReadRequest \/ FillResponse \/ AckRequest \/ SetRunning
    BY <1>1, <2>2 DEF ReadRequest, FillResponse, AckRequest, SetRunning, Goto,
      control, slots, Writing
  <2>3. CASE BeginResponse
    <3>1. CASE RespFull
      BY <1>1, <2>3, <3>1 DEF BeginResponse, Goto, Writing
    <3>2. CASE ~RespFull
      <4>1. /\ UNCHANGED <<resp_write_idx, resp_read_idx>>
            /\ wpc = "begin" /\ wpc' = "setid"
            /\ resp_ring' = [resp_ring EXCEPT ![free] = RespSlotInit]
            /\ resp_write_idx - resp_read_idx < Capacity
        BY <1>0, <2>3, <3>2 DEF BeginResponse, Goto, RespFull
      <4>2. ~resp_ring'[free].complete
        BY <1>0, <4>1 DEF RespSlotInit
      <4>3. ASSUME NEW s \in Slot, resp_ring'[s].id # 0
            PROVE  \E q \in resp_read_idx .. resp_write_idx - 1 : SlotIndex(q) = s
        BY <1>0, <4>1, <4>3 DEF RespSlotInit, ResponseRingInv, Writing
      <4> HIDE DEF free
      <4> QED BY <1>0, <1>a, <4>1, <4>2, <4>3 DEF ResponseRingInv, Writing, free
    <3> QED BY <3>1, <3>2
  <2>4. CASE SetResponseId
    <3>1. /\ UNCHANGED <<resp_write_idx, resp_read_idx>>
          /\ wpc = "setid" /\ wpc' = "route"
          /\ resp_ring' = [resp_ring EXCEPT ![free].id = req_ring[Current]]
      BY <2>4 DEF SetResponseId, Goto, control
    <3>2. /\ resp_ring'[free].complete = resp_ring[free].complete
          /\ \A s \in Slot : s # free => resp_ring'[s] = resp_ring[s]
      BY <1>0, <3>1
    <3> QED BY <1>0, <1>a, <3>1, <3>2 DEF ResponseRingInv, Writing
  <2>5. CASE CompleteResponse
    <3>1. /\ UNCHANGED <<resp_write_idx, resp_read_idx>>
          /\ wpc = "complete" /\ wpc' = "commit"
          /\ \A s \in Slot : resp_ring'[s].id = resp_ring[s].id
      BY <1>0, <2>5 DEF CompleteResponse, Goto, control
    <3> QED BY <1>0, <1>a, <3>1 DEF ResponseRingInv, Writing
  <2>6. CASE CommitResponse
    <3>1. /\ UNCHANGED <<resp_ring, resp_read_idx>>
          /\ resp_write_idx' = resp_write_idx + 1
          /\ wpc = "commit" /\ wpc' = "ack"
      BY <2>6 DEF CommitResponse, Goto, slots
    <3>2. ASSUME NEW s \in Slot, resp_ring[s].id # 0
          PROVE  \E q \in resp_read_idx .. resp_write_idx : SlotIndex(q) = s
      <4>1. CASE Unread(s)
        BY <1>0, <4>1 DEF Unread
      <4>2. CASE s = free
        BY <1>0, <4>2 DEF ResponseRingInv
      <4> QED BY <1>0, <3>2, <4>1, <4>2 DEF ResponseRingInv, Unread
    <3> QED BY <1>0, <1>a, <3>1, <3>2 DEF ResponseRingInv, Writing
  <2> QED BY <1>3, <2>1, <2>2, <2>3, <2>4, <2>5, <2>6 DEF Worker, WorkerStep
<1> QED BY <1>2, <1>3 DEF Next

-----------------------------------------------------------------------------
(* The theorems.                                                           *)

LEMMA StepTypeOK == IInv /\ Next => TypeOK'
<1> SUFFICES ASSUME IInv, Next PROVE TypeOK'
  OBVIOUS
<1>1. TypeOK /\ (wpc \in {"setid", "route", "fill"} => current_req_idx \in Nat)
  BY DEF IInv, TypeOK, RequestRingInv, Handling
<1> QED BY <1>1, ValetTypeOK, WorkerTypeOK DEF Next

LEMMA StutterIInv == IInv /\ UNCHANGED vars => IInv'
<1> SUFFICES ASSUME IInv, UNCHANGED vars PROVE IInv'
  OBVIOUS
<1> USE DEF vars, control, slots, tasks, valetVars, workerVars
<1>1. TypeOK' /\ RequestRingInv'
  BY DEF IInv, TypeOK, RequestRingInv
<1>2. FutexInv'
  BY DEF IInv, FutexInv, ReqEmpty
<1>3. PartitionInv'
  BY DEF IInv, PartitionInv, Submitted, Intact, Current, SlotIndex
<1>4. ResponseRingInv'
  BY DEF IInv, ResponseRingInv, SlotIndex
<1> QED BY <1>1, <1>2, <1>3, <1>4 DEF IInv

(* The inductive invariant holds in every run of the proxy and the worker. *)
THEOREM Invariance == Spec => []IInv
<1>1. Init => IInv
  BY InitIInv
<1>2. IInv /\ [Next]_vars => IInv'
  BY StepTypeOK, RequestRingStep, FutexStep, PartitionStep, ResponseRingStep,
     StutterIInv DEF IInv
<1> QED BY <1>1, <1>2, PTL DEF Spec

(* Every variable keeps its type: in particular slot indices stay inside   *)
(* the rings, and request ids below the bound.                             *)
THEOREM TypeCorrect == Spec => []TypeOK
<1>1. IInv => TypeOK
  BY DEF IInv
<1> QED BY <1>1, Invariance, PTL

(* The worker never sleeps through a request: FUTEX_WAIT's comparison with *)
(* the word read before the last emptiness test closes every window.       *)
THEOREM NoWakeupIsLost == Spec => []NoLostWakeup
<1>1. IInv => NoLostWakeup
  BY DEF IInv, FutexInv, NoLostWakeup
<1> QED BY <1>1, Invariance, PTL

(* With one partition per ring slot the handler reads its own request's    *)
(* bytes, for any capacity and any number of tasks.                        *)
THEOREM HandlerIsolation == Spec => []HandlerReadsItsRequest
<1>1. IInv => HandlerReadsItsRequest
  BY DEF IInv, PartitionInv, HandlerReadsItsRequest
<1> QED BY <1>1, Invariance, PTL

LEMMA StepKeepsResponses == IInv /\ Next => KeepsResponses
<1> SUFFICES ASSUME IInv, Next,
                    NEW s \in Slot, resp_ring[s].id # 0, resp_ring[s].complete,
                    resp_ring'[s] # resp_ring[s]
             PROVE  \E t \in Task : PeekHit(t) /\ request_id[t] = resp_ring[s].id
  BY DEF KeepsResponses
<1> DEFINE free == SlotIndex(resp_write_idx)
<1>0. /\ TypeOK /\ ResponseRingInv /\ free \in Slot
      /\ resp_ring \in [Slot -> [id : Id, complete : BOOLEAN]]
      /\ claimed_slot \in [Task -> Slot]
  BY SlotIndexType DEF IInv, TypeOK
<1>1. CASE Valet
  <2>1. PICK t \in Task : PeekHit(t)
    BY <1>0, <1>1, ValetCases DEF LocalStep, SubmitPublish, SignalBump, SignalWake,
      ProxyReject, ProxyClaim, Sweep, control, slots
  <2>2. s = claimed_slot[t]
    BY <1>0, <2>1 DEF PeekHit
  <2>3. request_id[t] = resp_ring[s].id
    BY <2>1, <2>2 DEF PeekHit, ResponseIn
  <2> QED BY <2>1, <2>3
<1>2. CASE Worker
  <2>1. CASE BeginResponse /\ ~RespFull
    <3>1. wpc = "begin" /\ s = free
      BY <1>0, <2>1 DEF BeginResponse, Goto
    <3>2. Unread(free)
      BY <1>0, <3>1 DEF ResponseRingInv, Writing, Unread
    <3> QED BY <1>0, <2>1, <3>2, FreshSlot
  <2>2. CASE SetResponseId \/ CompleteResponse
    <3>1. wpc \in {"setid", "complete"} /\ s = free
      BY <1>0, <2>2 DEF SetResponseId, CompleteResponse, Goto
    <3> QED BY <1>0, <3>1 DEF ResponseRingInv, Writing
  <2> QED BY <1>2, <2>1, <2>2 DEF Worker, WorkerStep, SpinHit, SpinOver, LoadFutex,
        CheckEmpty, FutexWait, FutexTimeout, PollNone, PollRequest, BeginResponse,
        ReadRequest, FillResponse, CommitResponse, AckRequest, SetRunning, slots
<1> QED BY <1>1, <1>2 DEF Next

(* A complete response stays in its slot, unchanged, until the task it     *)
(* belongs to takes it, whatever the worker and the other tasks do.        *)
THEOREM ResponsesAreKept == Spec => ResponseKept
<1>1. IInv /\ [Next]_vars => [KeepsResponses]_vars
  BY StepKeepsResponses
<1> QED BY <1>1, Invariance, PTL DEF Spec, ResponseKept

-----------------------------------------------------------------------------
(* The window of unswept requests.                                         *)

(* It fits into a ring, so its requests use different slots; what has been *)
(* answered has been published.                                            *)
LEMMA WindowFits ==
  ASSUME Roomy, IInv, InStep
  PROVE  /\ resp_read_idx \in Nat /\ req_read_idx \in Nat /\ resp_write_idx \in Nat
         /\ Claimed \in Nat /\ req_write_idx <= Claimed /\ resp_write_idx <= req_write_idx
         /\ \A q \in Unswept : /\ q \in Nat /\ resp_read_idx <= q /\ q < Claimed
                               /\ Claimed - q <= Capacity /\ SlotIndex(q) \in Slot
         /\ \A p, q \in Unswept : p # q => SlotIndex(p) # SlotIndex(q)
         /\ \A q \in Int : Answered(q) => q < req_write_idx
<1>1. /\ resp_read_idx \in Nat /\ req_read_idx \in Nat /\ resp_write_idx \in Nat
      /\ req_write_idx \in Nat /\ NTasks \in Nat /\ Capacity \in Nat
      /\ req_read_idx <= req_write_idx
      /\ wpc \in Handling => req_read_idx < req_write_idx
  BY NTasksAssumption, CapacityAssumption DEF IInv, TypeOK, RequestRingInv
<1>2. Claimed \in Nat /\ req_write_idx <= Claimed /\ resp_write_idx <= req_write_idx
  BY <1>1 DEF InStep, Claimed, Handling
<1>3. \A q \in Unswept : /\ q \in Nat /\ resp_read_idx <= q /\ q < Claimed
                         /\ Claimed - q <= Capacity
  BY <1>1, <1>2 DEF InStep, Unswept, Roomy
<1>4. ASSUME NEW p \in Unswept, NEW q \in Unswept, p < q
      PROVE  SlotIndex(p) # SlotIndex(q)
  <2>1. p \in Nat /\ q \in Nat /\ q - p < Capacity
    BY <1>1, <1>2, <1>3
  <2> QED BY <1>4, <2>1, SlotsDiffer
<1>5. \A q \in Int : Answered(q) => q < req_write_idx
  BY <1>1, <1>2 DEF Answered, InStep, Handling
<1>6. \A p, q \in Unswept : p # q => p < q \/ q < p
  BY <1>3
<1> QED BY <1>1, <1>2, <1>3, <1>4, <1>5, <1>6, SlotIndexType

(* The task being polled did not take a response ahead of an earlier one.  *)
LEMMA PolledTookNoneAhead ==
  ASSUME IInv, PairInv, NEW t \in Task, Polled(t), vpc \notin Taking,
         NEW p \in Unswept, NEW q \in Unswept, p < q, ~Taken(p), Taken(q)
  PROVE  \E u \in Task \ {t} :
           /\ Holds(u, q)
           /\ \A v \in Task : Awaits(v) /\ Holds(v, p) => After(u, v)
<1>1. PICK u \in Task : /\ Holds(u, q)
                        /\ \A v \in Task : Awaits(v) /\ Holds(v, p) => After(u, v)
  BY DEF PairInv, OrderInv
<1>2. PICK v \in Task : Awaits(v) /\ Holds(v, p)
  BY DEF PairInv, OwnersInv
<1>3. ASSUME u = t PROVE FALSE
  <2>1. v \in ready /\ v < t /\ t <= v
    BY <1>1, <1>2, <1>3 DEF After, Left, Polled
  <2> QED BY <2>1 DEF Task
<1> QED BY <1>1, <1>3

(* The task that valet polls to read a new request holds none of the       *)
(* unswept ones but, at most, the head: there are at most NTasks of them.  *)
LEMMA RoomToClaim ==
  ASSUME Roomy, IInv, PairInv, NEW t \in Task, Begins(t, "RECV")
  PROVE  Claimed - resp_read_idx <= NTasks
<1> DEFINE head == IF resp_read_idx \in Unswept /\ Taken(resp_read_idx)
                   THEN resp_read_idx + 1 ELSE resp_read_idx
           Later == head .. Claimed - 1
           Others == Task \ {t}
<1>0. /\ resp_read_idx \in Nat /\ Claimed \in Nat /\ NTasks \in Nat \ {0}
      /\ \A q \in Unswept : q \in Nat /\ resp_read_idx <= q
      /\ vpc = "poll" /\ t \in ready /\ \A u \in ready : t <= u
      /\ handler_state[t] = "RECV"
  BY WindowFits, NTasksAssumption
  DEF PairInv, Begins, Polled, IInv, TypeOK
<1>1. /\ \A q \in Unswept : q = resp_read_idx \/ (resp_read_idx \in Unswept /\ resp_read_idx < q)
      /\ Later \subseteq Unswept /\ head \in Nat
      /\ \A q \in Later : q \in Unswept /\ (Taken(q) => resp_read_idx \in Unswept /\ q # resp_read_idx)
  BY <1>0 DEF Unswept
<1>2. ASSUME NEW q \in Later
      PROVE  \E u \in Others : request_id[u] = Request(q)
  <2>1. CASE ~Taken(q)
    <3>1. PICK u \in Task : Awaits(u) /\ Holds(u, q)
      BY <1>1, <2>1 DEF PairInv, OwnersInv
    <3>2. u # t
      BY <1>0, <3>1 DEF Awaits
    <3> QED BY <3>1, <3>2 DEF Holds
  <2>2. CASE Taken(q)
    <3>1. resp_read_idx \in Unswept /\ resp_read_idx < q
      BY <1>1, <2>2
    <3>2. ~Taken(resp_read_idx)
      BY <1>0, <1>1, <2>2, <3>1 DEF PairInv, HeadInv
    <3>3. \E u \in Task \ {t} : Holds(u, q)
      BY <1>0, <1>1, <2>2, <3>1, <3>2, PolledTookNoneAhead DEF Begins, Polled, Taking
    <3> QED BY <3>3 DEF Holds
  <2> QED BY <2>1, <2>2
<1>3. \A p, q \in Later : p # q => Request(p) # Request(q)
  <2>1. ASSUME NEW p \in Later, NEW q \in Later, p < q PROVE Request(p) # Request(q)
    <3>1. Request(p) < Request(q)
      BY <1>1, <2>1 DEF PairInv, IdsInv
    <3>2. Request(p) \in Nat
      BY <1>1, WindowFits DEF PairInv, IInv, TypeOK, Id, Request
    <3> QED BY <3>1, <3>2
  <2> QED BY <2>1, <1>0, <1>1
<1>4. IsFiniteSet(Others) /\ Cardinality(Others) = NTasks - 1
  <2>1. IsFiniteSet(Task) /\ Cardinality(Task) = NTasks
    <3>1. 0 \in Int /\ NTasks - 1 \in Int /\ ~(0 > NTasks - 1) /\ NTasks - 1 - 0 + 1 = NTasks
      BY <1>0
    <3>2. /\ IsFiniteSet(0 .. NTasks - 1)
          /\ Cardinality(0 .. NTasks - 1) =
               IF 0 > NTasks - 1 THEN 0 ELSE NTasks - 1 - 0 + 1
      BY <3>1, FS_Interval
    <3> QED BY <3>1, <3>2 DEF Task
  <2> QED BY <2>1, FS_RemoveElement
<1>5. IsFiniteSet(Later) /\ Cardinality(Later) = IF head > Claimed - 1 THEN 0 ELSE Claimed - head
  BY <1>0, <1>1, FS_Interval
<1>6. ~(Cardinality(Others) < Cardinality(Later))
  <2> SUFFICES ASSUME Cardinality(Others) < Cardinality(Later) PROVE FALSE
    OBVIOUS
  <2> DEFINE f == [q \in Later |-> CHOOSE u \in Others : request_id[u] = Request(q)]
  <2>1. f \in [Later -> Others] /\ \A q \in Later : request_id[f[q]] = Request(q)
    BY <1>2
  <2> HIDE DEF f, Later, Others
  <2>2. PICK p \in Later, q \in Later : p # q /\ f[p] = f[q]
    BY <1>4, <1>5, <2>1, FS_PigeonHole
  <2> QED BY <1>3, <2>1, <2>2
<1> HIDE DEF Later, Others
<1>7. Claimed - head <= NTasks - 1
  BY <1>0, <1>1, <1>4, <1>5, <1>6
<1> QED BY <1>0, <1>7

-----------------------------------------------------------------------------
(* Steps that change neither the requests nor valet's tasks.               *)

Matched == IdsInv /\ OwnersInv /\ OrderInv /\ HeadInv

(* They keep what is said of ids, owners and order if no response is taken. *)
LEMMA MatchedKept ==
  ASSUME UNCHANGED <<resp_read_idx, req_ring, ready, handler_state, claimed_slot,
                     request_id, next_request_id>>,
         Claimed' = Claimed,
         vpc' = vpc \/ (vpc \in Submitting /\ vpc' \in Submitting),
         \A q \in Unswept : Taken(q)' <=> Taken(q),
         Matched
  PROVE  Matched'
<1>1. /\ Unswept' = Unswept
      /\ \A q : Request(q)' = Request(q) /\ SlotIndex(q)' = SlotIndex(q)
      /\ \A t, q : Holds(t, q)' <=> Holds(t, q)
  BY DEF Unswept, Request, SlotIndex, Holds
<1>2. /\ \A t : Polled(t)' <=> Polled(t)
      /\ vpc' = "sweep" <=> vpc = "sweep"
      /\ vpc' \in Submitting <=> vpc \in Submitting
      /\ vpc' \in Taking <=> vpc \in Taking
      /\ vpc' = "poll" <=> vpc = "poll"
  BY DEF Polled, Submitting, Taking
<1>3. /\ \A t : Awaits(t)' <=> Awaits(t)
      /\ Left' = Left
      /\ \A t, u : After(u, t)' <=> After(u, t)
  BY <1>2 DEF Awaits, Left, After
<1>4. IdsInv'
  BY <1>1 DEF Matched, IdsInv
<1>5. OwnersInv'
  BY <1>1, <1>2, <1>3 DEF Matched, OwnersInv, Request
<1>6. OrderInv'
  BY <1>1, <1>3 DEF Matched, OrderInv
<1>7. HeadInv'
  BY <1>1, <1>2 DEF Matched, HeadInv
<1> QED BY <1>4, <1>5, <1>6, <1>7 DEF Matched

(* What valet's tasks and the request ring are made of.                    *)
Requests == <<resp_read_idx, req_ring, ready, handler_state, claimed_slot,
              request_id, next_request_id, answer>>

(* Nothing changes but the places of the two threads.                      *)
LEMMA PairKept ==
  ASSUME Roomy, IInv, PairInv,
         UNCHANGED <<Requests, req_read_idx, resp_write_idx, resp_ring, arena>>,
         Claimed' = Claimed,
         vpc' = vpc \/ (vpc \in Submitting /\ vpc' \in Submitting),
         wpc' = "ack" <=> wpc = "ack", wpc' = "commit" <=> wpc = "commit",
         wpc' = "complete" => wpc = "complete",
         wpc' \in {"route", "fill"} => wpc \in {"route", "fill"}
  PROVE  PairInv'
<1> USE DEF Requests
<1>1. /\ Unswept' = Unswept
      /\ \A q : Request(q)' = Request(q) /\ SlotIndex(q)' = SlotIndex(q)
      /\ \A q : (Answered(q)' <=> Answered(q)) /\ (Taken(q)' <=> Taken(q))
  BY DEF Unswept, Request, SlotIndex, Answered, Taken
<1>2. Matched'
  BY <1>1, MatchedKept DEF PairInv, Matched
<1>3. InStep'
  BY DEF PairInv, InStep
<1>4. ResponsesInv'
  BY <1>1 DEF PairInv, ResponsesInv
<1>5. AnswersInv'
  <2>1. /\ vpc' \in Taking <=> vpc \in Taking
        /\ \A t : Polled(t)' <=> Polled(t)
    BY DEF Polled, Taking, Submitting
  <2> QED BY <1>1, <2>1 DEF PairInv, AnswersInv
<1> QED BY <1>2, <1>3, <1>4, <1>5 DEF PairInv, Matched

-----------------------------------------------------------------------------
(* The worker.                                                             *)

LEMMA WorkerPairs ==
  ASSUME Roomy, IInv, PairInv, Worker
  PROVE  PairInv'
<1> USE DEF valetVars, tasks, Requests
<1> DEFINE next == resp_write_idx   at == SlotIndex(resp_write_idx)
<1>0. /\ TypeOK /\ RequestRingInv /\ ResponseRingInv /\ InStep /\ Matched
      /\ ResponsesInv /\ AnswersInv
      /\ Capacity \in Nat \ {0} /\ NTasks \in Nat /\ req_write_idx \in Nat
      /\ resp_ring \in [Slot -> [id : Id, complete : BOOLEAN]]
      /\ arena \in [Slot -> Bytes]
      /\ at \in Slot
  BY CapacityAssumption, NTasksAssumption, SlotIndexType
  DEF IInv, PairInv, Matched, TypeOK
<1>1. /\ resp_read_idx \in Nat /\ req_read_idx \in Nat /\ resp_write_idx \in Nat
      /\ Claimed \in Nat /\ req_write_idx <= Claimed /\ resp_write_idx <= req_write_idx
      /\ \A q \in Unswept : /\ q \in Nat /\ resp_read_idx <= q /\ q < Claimed
                            /\ Claimed - q <= Capacity /\ SlotIndex(q) \in Slot
      /\ \A p, q \in Unswept : p # q => SlotIndex(p) # SlotIndex(q)
  BY <1>0, WindowFits
<1>a. \A q : SlotIndex(q)' = SlotIndex(q)
  BY DEF SlotIndex
\* The request being handled is unswept, and its number is the response's.
<1>2. ASSUME wpc \in Handling \ {"ack"}
      PROVE  /\ req_read_idx = next /\ current_req_idx = next /\ next < req_write_idx
             /\ next \in Unswept /\ Current = at
  BY <1>0, <1>1, <1>2 DEF InStep, RequestRingInv, ResponseRingInv, Handling, Unswept, Current
\* Steps that write to the response ring or to the partition of that request only.
<1>3. ASSUME wpc \in Handling \ {"ack", "commit"}, wpc' # "ack",
             UNCHANGED <<Requests, vpc, req_write_idx, req_read_idx, resp_write_idx>>,
             \A s \in Slot \ {at} : resp_ring'[s] = resp_ring[s] /\ arena'[s] = arena[s],
             wpc' = "commit" => resp_ring'[at].id # 0
      PROVE  /\ Claimed' = Claimed /\ Unswept' = Unswept
             /\ \A q : Request(q)' = Request(q)
             /\ \A q \in Unswept \ {next} :
                  /\ Answered(q)' <=> Answered(q)
                  /\ Taken(q)' <=> Taken(q)
                  /\ resp_ring'[SlotIndex(q)] = resp_ring[SlotIndex(q)]
                  /\ arena'[SlotIndex(q)] = arena[SlotIndex(q)]
             /\ \A q \in Unswept : q = next =>
                  ~Taken(q) /\ ~Taken(q)' /\ (Answered(q)' => wpc' = "commit")
             /\ Matched' /\ InStep' /\ AnswersInv'
  <2>1. Claimed' = Claimed /\ Unswept' = Unswept /\ \A q : Request(q)' = Request(q)
    BY <1>3 DEF Claimed, Unswept, Request, SlotIndex
  <2>2. ASSUME NEW q \in Unswept \ {next}
        PROVE  /\ Answered(q)' <=> Answered(q)
               /\ resp_ring'[SlotIndex(q)] = resp_ring[SlotIndex(q)]
               /\ arena'[SlotIndex(q)] = arena[SlotIndex(q)]
    <3>1. SlotIndex(q) \in Slot \ {at}
      BY <1>1, <1>2, <1>3
    <3> QED BY <1>3, <3>1 DEF Answered
  <2>3. \A q \in Unswept \ {next} : Taken(q)' <=> Taken(q)
    BY <2>2, <1>a DEF Taken
  <2>4. \A q \in Unswept : q = next =>
          ~Taken(q) /\ ~Taken(q)' /\ (Answered(q)' => wpc' = "commit")
    BY <1>1, <1>3, <1>a DEF Answered, Taken
  <2>5. Matched'
    <3>1. \A q \in Unswept : Taken(q)' <=> Taken(q)
      BY <2>3, <2>4
    <3> QED BY <1>0, <1>3, <2>1, <3>1, MatchedKept
  <2>6. InStep'
    BY <1>0, <1>3, <2>1 DEF InStep, Handling
  <2>7. AnswersInv'
    <3>1. ASSUME NEW q \in 0 .. Claimed - 1, Answered(q), Claimed - q <= Capacity
          PROVE  Answered(q)' /\ arena'[SlotIndex(q)] = arena[SlotIndex(q)]
      <4>1. q \in Nat /\ q < next /\ next - q < Capacity
        BY <1>0, <1>1, <1>2, <1>3, <3>1 DEF Answered
      <4>2. SlotIndex(q) \in Slot /\ SlotIndex(q) # at
        BY <1>1, <4>1, SlotsDiffer, SlotIndexType
      <4> QED BY <1>1, <1>3, <4>1, <4>2 DEF Answered
    <3>2. \A t : Polled(t)' <=> Polled(t)
      BY <1>3 DEF Polled
    <3> QED BY <1>0, <1>3, <1>a, <2>1, <3>1, <3>2 DEF AnswersInv
  <2> QED BY <2>1, <2>2, <2>3, <2>4, <2>5, <2>6, <2>7
<1>4. CASE SpinHit \/ SpinOver \/ LoadFutex \/ CheckEmpty \/ FutexWait
           \/ FutexTimeout \/ PollNone \/ PollRequest
  BY <1>4, PairKept DEF SpinHit, SpinOver, LoadFutex, CheckEmpty, FutexWait,
    FutexTimeout, PollNone, PollRequest, Goto, control, slots, Claimed
<1>5. CASE SetRunning \/ ReadRequest
  BY <1>5, PairKept DEF SetRunning, ReadRequest, Goto, control, slots, Claimed
<1>6. CASE BeginResponse
  <2>1. wpc = "begin" /\ next \in Unswept /\ next < req_write_idx
    BY <1>2, <1>6 DEF BeginResponse, Goto, Handling
  <2>2. ~RespFull
    BY <1>0, <1>1, <2>1 DEF RespFull, InStep, Roomy
  <2>3. /\ wpc' = "setid" /\ UNCHANGED <<Requests, vpc, arena, req_write_idx, req_read_idx, resp_write_idx>>
        /\ \A s \in Slot \ {at} : resp_ring'[s] = resp_ring[s]
    BY <1>0, <1>6, <2>2 DEF BeginResponse, Goto
  <2>4. ResponsesInv'
    BY <1>0, <1>a, <1>3, <2>1, <2>3 DEF ResponsesInv, Handling
  <2> QED BY <1>3, <2>1, <2>3, <2>4 DEF PairInv, Matched, Handling
<1>7. CASE SetResponseId
  <2>1. /\ wpc = "setid" /\ wpc' = "route" /\ Current = at
        /\ UNCHANGED <<Requests, vpc, arena, req_write_idx, req_read_idx, resp_write_idx>>
        /\ \A s \in Slot \ {at} : resp_ring'[s] = resp_ring[s]
        /\ resp_ring'[at].id = Request(next)
    BY <1>0, <1>2, <1>7 DEF SetResponseId, Goto, control, Request, Handling
  <2>2. ResponsesInv'
    BY <1>0, <1>a, <1>3, <2>1 DEF ResponsesInv, Handling
  <2> QED BY <1>3, <2>1, <2>2 DEF PairInv, Matched, Handling
<1>8. CASE FillResponse
  <2>1. /\ wpc = "fill" /\ wpc' = "complete" /\ Current = at
        /\ UNCHANGED <<Requests, vpc, resp_ring, req_write_idx, req_read_idx, resp_write_idx>>
        /\ \A s \in Slot \ {at} : arena'[s] = arena[s]
        /\ arena'[at] = [kind |-> "response", id |-> Request(next)]
    BY <1>0, <1>2, <1>8 DEF FillResponse, Goto, control, Request, Handling
  <2>2. ResponsesInv'
    BY <1>0, <1>a, <1>3, <2>1 DEF ResponsesInv, Handling
  <2> QED BY <1>3, <2>1, <2>2 DEF PairInv, Matched, Handling
<1>9. CASE CompleteResponse
  <2>1. /\ wpc = "complete" /\ wpc' = "commit"
        /\ UNCHANGED <<Requests, vpc, arena, req_write_idx, req_read_idx, resp_write_idx>>
        /\ \A s \in Slot \ {at} : resp_ring'[s] = resp_ring[s]
        /\ resp_ring'[at].id = Request(next) /\ resp_ring'[at].complete = TRUE
        /\ arena[at] = [kind |-> "response", id |-> Request(next)]
    BY <1>0, <1>9 DEF CompleteResponse, Goto, control, ResponsesInv
  <2>2. next \in Unswept /\ Request(next) # 0
    BY <1>0, <1>2, <2>1 DEF Matched, IdsInv, Handling
  <2>3. resp_ring'[at] = [id |-> Request(next), complete |-> TRUE]
    BY <1>0, <1>9, <2>1 DEF CompleteResponse, Goto, ResponsesInv
  <2>4. ResponsesInv'
    BY <1>0, <1>a, <1>3, <2>1, <2>2, <2>3 DEF ResponsesInv, Handling
  <2> QED BY <1>3, <2>1, <2>2, <2>4 DEF PairInv, Matched, Handling
<1>10. CASE CommitResponse \/ AckRequest
  <2>1. /\ UNCHANGED <<Requests, vpc, arena, resp_ring, req_write_idx>>
        /\ wpc' \in {"ack", "running"} /\ Claimed' = Claimed /\ Unswept' = Unswept
        /\ \/ /\ wpc = "commit" /\ wpc' = "ack"
              /\ resp_write_idx' = resp_write_idx + 1 /\ req_read_idx' = req_read_idx
           \/ /\ wpc = "ack" /\ wpc' = "running"
              /\ resp_write_idx' = resp_write_idx /\ req_read_idx' = req_read_idx + 1
    BY <1>10 DEF CommitResponse, AckRequest, Goto, control, slots, Claimed, Unswept
  <2>2. /\ \A q \in Int : (Answered(q)' <=> Answered(q)) /\ (Taken(q)' <=> Taken(q))
        /\ \A q : Request(q)' = Request(q)
    BY <1>1, <2>1 DEF Answered, Taken, Request, SlotIndex
  <2>3. Matched'
    BY <1>0, <1>1, <2>1, <2>2, MatchedKept
  <2>4. InStep'
    BY <1>0, <1>1, <2>1 DEF InStep
  <2>5. ResponsesInv'
    BY <1>0, <1>1, <1>a, <2>1, <2>2 DEF ResponsesInv
  <2>6. AnswersInv'
    <3>1. \A t : Polled(t)' <=> Polled(t)
      BY <2>1 DEF Polled
    <3> QED BY <1>0, <1>1, <1>a, <2>1, <2>2, <3>1 DEF AnswersInv
  <2> QED BY <2>3, <2>4, <2>5, <2>6 DEF PairInv, Matched
<1> QED BY <1>4, <1>5, <1>6, <1>7, <1>8, <1>9, <1>10 DEF Worker, WorkerStep

-----------------------------------------------------------------------------
(* Valet.                                                                  *)

(* Publishing a request, bumping the word, waking the worker.              *)
LEMMA SignalPairs ==
  ASSUME Roomy, IInv, PairInv, SubmitPublish \/ SignalBump \/ SignalWake
  PROVE  PairInv'
<1> USE DEF Requests, Submitting, Claimed, control, slots, tasks, workerVars
<1>1. CASE SubmitPublish
  BY <1>1, PairKept DEF SubmitPublish
<1>2. CASE SignalBump
  BY <1>2, PairKept DEF SignalBump
<1>3. CASE SignalWake
  BY <1>3, PairKept DEF SignalWake
<1> QED BY <1>1, <1>2, <1>3

(* A waiting task is in every pass, so the order of polls outlives a pass. *)
LEMMA NewPassPairs ==
  ASSUME Roomy, IInv, PairInv, NewPass
  PROVE  PairInv'
<1>1. /\ UNCHANGED <<req_write_idx, req_read_idx, resp_write_idx, resp_read_idx, req_ring,
                     resp_ring, arena, vpc, wpc, handler_state, claimed_slot,
                     request_id, answer, next_request_id>>
      /\ vpc = "poll" /\ ready = {}
      /\ \A t \in Task : handler_state[t] = "PROXY_WAIT" => t \in ready'
  BY DEF NewPass, control, slots, tasks, workerVars
<1>2. /\ Claimed' = Claimed /\ Unswept' = Unswept
      /\ \A q : /\ Request(q)' = Request(q) /\ SlotIndex(q)' = SlotIndex(q)
                /\ (Answered(q)' <=> Answered(q)) /\ (Taken(q)' <=> Taken(q))
      /\ \A t, q : Holds(t, q)' <=> Holds(t, q)
      /\ \A t : (Awaits(t)' <=> Awaits(t)) /\ (Awaits(t) <=> handler_state[t] = "PROXY_WAIT")
      /\ Left = {} /\ Left' = ready'
  BY <1>1 DEF Claimed, Unswept, Request, SlotIndex, Answered, Taken, Holds, Awaits,
    Left, Taking
<1>3. InStep' /\ IdsInv' /\ HeadInv'
  BY <1>1, <1>2 DEF PairInv, InStep, IdsInv, HeadInv
<1>4. ResponsesInv'
  BY <1>1, <1>2 DEF PairInv, ResponsesInv
<1>5. OwnersInv'
  BY <1>1, <1>2 DEF PairInv, OwnersInv, Submitting
<1>6. OrderInv'
  <2>1. \A t, u : Awaits(t) /\ t \in Task /\ After(u, t) => After(u, t)'
    BY <1>1, <1>2 DEF After
  <2> QED BY <1>1, <1>2, <2>1 DEF PairInv, OrderInv
<1>7. AnswersInv'
  BY <1>1, <1>2 DEF PairInv, AnswersInv, Taking
<1> QED BY <1>3, <1>4, <1>5, <1>6, <1>7 DEF PairInv

(* A handler returns, its task waiting for a response if it did before.    *)
LEMMA ReturnMatched ==
  ASSUME Roomy, IInv, PairInv, NEW t \in Task, NEW hs, Polled(t), Return(t, hs),
         vpc \in {"poll", "arm", "copy"}, hs = "PROXY_WAIT" <=> Awaits(t),
         UNCHANGED <<control, wpc, req_ring, resp_ring>>,
         next_request_id' \in Nat, next_request_id <= next_request_id',
         \/ UNCHANGED <<request_id, claimed_slot>>
         \/ /\ ~Awaits(t) /\ vpc = "poll"
            /\ request_id' = [request_id EXCEPT ![t] = 0]
            /\ claimed_slot' = [claimed_slot EXCEPT ![t] = 0],
         \A p, q \in Unswept :
           Awaits(t) /\ Holds(t, p) /\ p < q /\ ~Taken(p) => ~Taken(q)
  PROVE  InStep' /\ Matched'
<1>0. /\ request_id \in [Task -> Id] /\ claimed_slot \in [Task -> Slot]
      /\ handler_state \in [Task -> {"RECV", "PROXY_WAIT", "SEND"}]
      /\ next_request_id \in Nat /\ req_ring \in [Slot -> Id] /\ Id \subseteq Nat
      /\ ready \subseteq Task /\ Task \subseteq Nat
      /\ t \in ready /\ \A u \in ready : t <= u
  BY BoundsAssumption DEF IInv, TypeOK, Polled, Id, Task
<1>1. /\ Claimed' = Claimed /\ Unswept' = Unswept
      /\ \A q : /\ Request(q)' = Request(q) /\ SlotIndex(q)' = SlotIndex(q)
                /\ (Answered(q)' <=> Answered(q)) /\ (Taken(q)' <=> Taken(q))
      /\ \A q \in Unswept : Request(q) \in Nat
  <2>1. \A q \in Unswept : SlotIndex(q) \in Slot
    BY WindowFits DEF PairInv
  <2> QED BY <1>0, <2>1 DEF Return, Claimed, Unswept, Request, SlotIndex, Answered,
        Taken, control
<1>2. /\ \A u \in Task \ {t} : /\ request_id'[u] = request_id[u]
                               /\ \A q : Holds(u, q)' <=> Holds(u, q)
      /\ Awaits(t) => request_id' = request_id /\ \A q : Holds(t, q)' <=> Holds(t, q)
      /\ vpc # "poll" => request_id' = request_id /\ \A q : Holds(t, q)' <=> Holds(t, q)
      /\ \A u \in Task : request_id'[u] = request_id[u] \/ request_id'[u] = 0
  BY <1>0, <1>1 DEF Holds
<1>3. \A u \in Task : Awaits(u)' <=> Awaits(u)
  <2>1. \A u \in Task : u # t => ~Polled(u) \/ vpc = "poll"
    BY <1>0 DEF Polled
  <2>2. \A u \in Task : Awaits(u)' <=> handler_state'[u] = "PROXY_WAIT"
    BY DEF Awaits, Return
  <2>3. \A u \in Task \ {t} : Awaits(u) <=> handler_state[u] = "PROXY_WAIT"
    BY <2>1 DEF Awaits
  <2> QED BY <1>0, <2>2, <2>3 DEF Return
<1>4. /\ vpc' = "poll" /\ ready' = ready \ {t} /\ Left' = ready'
      /\ vpc # "copy" => Left = ready
      /\ vpc = "copy" => Left = ready \ {t}
  <2>1. \A u \in ready : Polled(u) <=> u = t
    BY <1>0 DEF Polled
  <2>2. {u \in ready : ~Polled(u)} = ready \ {t}
    BY <2>1
  <2>3. vpc' = "poll" /\ ready' = ready \ {t}
    BY DEF Return
  <2> QED BY <2>2, <2>3 DEF Left, Taking
<1>5. InStep'
  BY <1>1 DEF PairInv, InStep, control
<1>6. IdsInv'
  <2>1. \A u \in Task : request_id'[u] < next_request_id'
    <3>1. \A u \in Task : request_id[u] \in Nat /\ request_id[u] < next_request_id
      BY <1>0 DEF PairInv, IdsInv
    <3> QED BY <1>0, <1>2, <3>1
  <2>2. \A q \in Unswept : Request(q) # 0 /\ Request(q) < next_request_id'
    BY <1>0, <1>1 DEF PairInv, IdsInv
  <2> QED BY <1>1, <2>1, <2>2 DEF PairInv, IdsInv
<1>7. OwnersInv'
  <2>1. \A u \in Task : Awaits(u) => \A q : (Holds(u, q)' <=> Holds(u, q))
    BY <1>2
  <2>2. \A u \in Task : Awaits(u) => request_id'[u] = request_id[u]
    BY <1>2
  <2> QED BY <1>1, <1>3, <1>4, <2>1, <2>2 DEF PairInv, OwnersInv, Submitting
<1>8. OrderInv'
  <2>1. \A v \in Task, u \in ready' : handler_state'[v] = "PROXY_WAIT" /\ v \notin ready' => v < u
    <3>1. \A u \in ready' : u \in Nat /\ t \in Nat /\ t < u
      BY <1>0, <1>4
    <3>2. \A v \in Task \ {t} : handler_state'[v] = handler_state[v]
      BY <1>0 DEF Return
    <3> QED BY <1>4, <3>1, <3>2 DEF PairInv, OrderInv
  <2>2. ASSUME NEW p \in Unswept, NEW q \in Unswept, p < q, ~Taken(p), Taken(q)
        PROVE  \E u \in Task : /\ Holds(u, q)'
                               /\ \A v \in Task : Awaits(v) /\ Holds(v, p) => After(u, v)'
    <3>1. PICK u \in Task : /\ Holds(u, q) /\ Holds(u, q)'
                            /\ \A v \in Task : Awaits(v) /\ Holds(v, p) => After(u, v)
      <4>1. CASE vpc = "copy"
        BY <1>2, <2>2, <4>1 DEF PairInv, OrderInv
      <4>2. CASE vpc # "copy"
        BY <1>2, <2>2, <4>2, PolledTookNoneAhead DEF Taking
      <4> QED BY <4>1, <4>2
    <3>2. ASSUME NEW v \in Task, Awaits(v), Holds(v, p)
          PROVE  After(u, v)'
      <4>1. v # t
        BY <2>2, <3>2
      <4>2. After(u, v)
        BY <3>1, <3>2
      <4> QED BY <1>4, <4>1, <4>2 DEF After
    <3> QED BY <3>1, <3>2
  <2>3. \A v \in Task : Awaits(v) => \A q : (Holds(v, q)' <=> Holds(v, q))
    BY <1>2
  <2> QED BY <1>1, <1>3, <2>1, <2>2, <2>3 DEF OrderInv
<1>9. HeadInv'
  BY <1>1, <1>4 DEF PairInv, HeadInv, control
<1> QED BY <1>5, <1>6, <1>7, <1>8, <1>9 DEF Matched

(* A handler's return changes no response.                                 *)
LEMMA ReturnResponses ==
  ASSUME ResponsesInv, vpc \notin {"publish"}, vpc' # "publish",
         UNCHANGED <<control, wpc, req_ring, resp_ring, arena>>
  PROVE  ResponsesInv'
BY DEF ResponsesInv, Unswept, Claimed, Request, SlotIndex, Answered, Taken, control

(* Send buffers after a return: nothing is being copied then.              *)
LEMMA ReturnAnswers ==
  ASSUME NEW t \in Task, NEW hs, AnswersInv, Return(t, hs),
         handler_state \in [Task -> {"RECV", "PROXY_WAIT", "SEND"}],
         request_id \in [Task -> Id],
         \/ answer' = answer /\ request_id' = request_id /\ handler_state[t] # "SEND"
         \/ /\ hs = "SEND" /\ request_id' = request_id
            /\ answer' = [answer EXCEPT ![t] = [kind |-> "response", id |-> request_id[t]]]
         \/ /\ answer' = [answer EXCEPT ![t] = NoBytes]
            /\ request_id' = [request_id EXCEPT ![t] = 0],
         answer \in [Task -> Bytes]
  PROVE  AnswersInv'
<1>1. /\ vpc' = "poll"
      /\ \A u \in Task \ {t} : /\ handler_state'[u] = handler_state[u]
                               /\ answer'[u] = answer[u] /\ request_id'[u] = request_id[u]
      /\ handler_state'[t] = hs
  BY DEF Return
<1>2. answer'[t] # NoBytes =>
        handler_state'[t] = "SEND" /\ answer'[t] = [kind |-> "response", id |-> request_id'[t]]
  BY <1>1 DEF AnswersInv
<1> QED BY <1>1, <1>2 DEF AnswersInv, Taking

(* Handlers that return without having taken a response in this poll.      *)
LEMMA ReturnPairs ==
  ASSUME Roomy, IInv, PairInv, NEW t \in Task,
         \/ RecvEof(t) \/ ProxyRingFull(t) \/ ProxyUnavailable(t) \/ ProxyReject(t)
         \/ ProxyArm(t) \/ PeekMiss(t) \/ CopyResponse(t) \/ SendDone(t)
  PROVE  PairInv'
<1>0. /\ handler_state \in [Task -> {"RECV", "PROXY_WAIT", "SEND"}]
      /\ request_id \in [Task -> Id] /\ claimed_slot \in [Task -> Slot]
      /\ answer \in [Task -> Bytes]
      /\ arena \in [Slot -> Bytes] /\ next_request_id \in Nat
      /\ InStep /\ Matched /\ ResponsesInv /\ AnswersInv
  BY DEF IInv, TypeOK, PairInv, Matched
<1>1. CASE RecvEof(t) \/ ProxyRingFull(t) \/ ProxyUnavailable(t)
  <2>1. PICK hs : /\ Return(t, hs) /\ Polled(t) /\ hs # "PROXY_WAIT"
                  /\ vpc = "poll" /\ handler_state[t] = "RECV"
                  /\ UNCHANGED <<control, wpc, req_ring, resp_ring, arena, claimed_slot,
                                 request_id, answer, next_request_id>>
    BY <1>1 DEF RecvEof, ProxyRingFull, ProxyUnavailable, Begins, slots, workerVars
  <2>2. ~Awaits(t)
    BY <2>1 DEF Awaits
  <2>3. InStep' /\ Matched'
    BY <1>0, <2>1, <2>2, ReturnMatched
  <2>4. vpc' = "poll"
    BY <2>1 DEF Return
  <2>5. ResponsesInv'
    BY <1>0, <2>1, <2>4, ReturnResponses
  <2>6. AnswersInv'
    BY <1>0, <2>1, ReturnAnswers
  <2> QED BY <2>3, <2>5, <2>6 DEF PairInv, Matched
<1>2. CASE ProxyReject(t)
  <2>1. /\ Return(t, "SEND") /\ Polled(t) /\ ~ReqFull /\ CopyPath
        /\ vpc = "poll" /\ handler_state[t] = "RECV"
        /\ UNCHANGED <<control, wpc, req_ring, resp_ring, claimed_slot,
                       request_id, answer>>
        /\ next_request_id' \in Nat /\ next_request_id <= next_request_id'
    BY <1>0, <1>2 DEF ProxyReject, Begins, workerVars
  <2>2. ~Awaits(t)
    BY <2>1 DEF Awaits
  <2>3. InStep' /\ Matched'
    BY <1>0, <2>1, <2>2, ReturnMatched
  <2>4. vpc' = "poll"
    BY <2>1 DEF Return
  <2>5. ResponsesInv'
    <3>1. /\ Claimed - resp_read_idx <= NTasks /\ Claimed = req_write_idx
          /\ NTasks < Capacity /\ NTasks \in Nat /\ Capacity \in Nat
      BY <2>1, RoomToClaim, NTasksAssumption, CapacityAssumption
      DEF Begins, Claimed, Roomy
    <3>2. /\ Unswept' = Unswept
          /\ \A q : /\ Request(q)' = Request(q) /\ SlotIndex(q)' = SlotIndex(q)
                    /\ (Answered(q)' <=> Answered(q)) /\ (Taken(q)' <=> Taken(q))
      BY <2>1, <2>4 DEF Claimed, Unswept, Request, SlotIndex, Answered, Taken, control
    <3>3. ASSUME NEW q \in Nat, q < req_write_idx, req_write_idx - q < Capacity
          PROVE  arena'[SlotIndex(q)] = arena[SlotIndex(q)]
      <4>1. req_write_idx \in Nat
        BY <3>1, WindowFits DEF PairInv
      <4>2. /\ SlotIndex(q) # SlotIndex(req_write_idx)
            /\ SlotIndex(q) \in Slot /\ SlotIndex(req_write_idx) \in Slot
        BY <3>3, <4>1, SlotsDiffer, SlotIndexType
      <4> QED BY <1>0, <2>1, <4>2 DEF CopyPath
    <3>4. \A q \in Unswept : q \in Nat /\ q < req_write_idx /\ req_write_idx - q < Capacity
      BY <3>1, WindowFits DEF PairInv, Unswept
    <3>5. wpc = "complete" => /\ resp_write_idx \in Nat /\ resp_write_idx < req_write_idx
                              /\ req_write_idx - resp_write_idx < Capacity
      <4>1. /\ req_write_idx \in Nat /\ req_read_idx \in Nat
            /\ wpc = "complete" => resp_write_idx = req_read_idx /\ req_read_idx < req_write_idx
        BY DEF IInv, TypeOK, PairInv, InStep, RequestRingInv, Handling
      <4> QED BY <2>1, <3>1, <4>1 DEF ReqFull
    <3>6. UNCHANGED <<wpc, resp_ring, resp_write_idx>>
      BY <2>1 DEF control
    <3> QED BY <1>0, <3>2, <3>3, <3>4, <3>5, <3>6 DEF ResponsesInv
  <2>6. AnswersInv'
    BY <1>0, <2>1, ReturnAnswers
  <2> QED BY <2>3, <2>5, <2>6 DEF PairInv, Matched
<1>3. CASE ProxyArm(t)
  <2>1. /\ Return(t, "PROXY_WAIT") /\ Polled(t) /\ vpc = "arm"
        /\ UNCHANGED <<control, wpc, req_ring, resp_ring, arena, claimed_slot,
                       request_id, answer, next_request_id>>
    BY <1>3 DEF ProxyArm, slots, workerVars
  <2>2. /\ Awaits(t) /\ handler_state[t] = "RECV"
        /\ request_id[t] = Request(Claimed - 1)
    BY <1>0, <2>1 DEF Awaits, Submitting, Matched, OwnersInv
  \* Its request is the last, so none after it has been taken.
  <2>3. ASSUME NEW p \in Unswept, NEW q \in Unswept, Holds(t, p), p < q PROVE FALSE
    <3>1. /\ p \in Nat /\ q \in Nat /\ q < Claimed /\ Claimed \in Nat
          /\ resp_read_idx \in Nat /\ resp_read_idx <= p
      BY <1>0, WindowFits
    <3>2. Claimed - 1 \in Unswept /\ p < Claimed - 1
      BY <2>3, <3>1 DEF Unswept
    <3>3. Request(p) < Request(Claimed - 1) /\ Request(p) = Request(Claimed - 1)
      BY <1>0, <2>2, <2>3, <3>2 DEF Matched, IdsInv, Holds
    <3>4. Request(p) \in Nat
      BY <1>0, <2>2, <2>3, BoundsAssumption DEF Holds, Id
    <3> QED BY <3>3, <3>4
  <2>4. InStep' /\ Matched'
    BY <1>0, <2>1, <2>2, <2>3, ReturnMatched
  <2>5. ResponsesInv'
    BY <1>0, <2>1, ReturnResponses DEF Return
  <2>6. AnswersInv'
    BY <1>0, <2>1, <2>2, ReturnAnswers
  <2> QED BY <2>4, <2>5, <2>6 DEF PairInv, Matched
<1>4. CASE PeekMiss(t)
  <2>1. /\ Return(t, "PROXY_WAIT") /\ Polled(t) /\ vpc = "poll"
        /\ handler_state[t] = "PROXY_WAIT" /\ ~ResponseIn(t)
        /\ UNCHANGED <<control, wpc, req_ring, resp_ring, arena, claimed_slot,
                       request_id, answer, next_request_id>>
    BY <1>4 DEF PeekMiss, Begins, slots, workerVars
  <2>2. Awaits(t)
    BY <2>1 DEF Awaits
  \* Its response is not there, so no later one is.
  <2>3. ASSUME NEW p \in Unswept, NEW q \in Unswept, Holds(t, p), p < q, ~Taken(p), Taken(q)
        PROVE  FALSE
    <3>1. Answered(p)
      BY <1>0, <2>3, WindowFits DEF Taken, Answered
    <3>2. resp_ring[SlotIndex(p)] = [id |-> Request(p), complete |-> TRUE]
      BY <1>0, <2>3, <3>1 DEF ResponsesInv
    <3> QED BY <2>1, <2>3, <3>2 DEF ResponseIn, Holds
  <2>4. InStep' /\ Matched'
    BY <1>0, <2>1, <2>2, <2>3, ReturnMatched
  <2>5. ResponsesInv'
    BY <1>0, <2>1, ReturnResponses DEF Return
  <2>6. AnswersInv'
    BY <1>0, <2>1, ReturnAnswers
  <2> QED BY <2>4, <2>5, <2>6 DEF PairInv, Matched
<1>5. CASE CopyResponse(t)
  <2>1. /\ Return(t, "SEND") /\ Polled(t) /\ vpc = "copy"
        /\ UNCHANGED <<control, wpc, req_ring, resp_ring, arena, claimed_slot,
                       request_id, next_request_id>>
        /\ answer' = [answer EXCEPT ![t] = arena[claimed_slot[t]]]
    BY <1>5 DEF CopyResponse, slots, workerVars
  <2>2. ~Awaits(t) /\ arena[claimed_slot[t]] = [kind |-> "response", id |-> request_id[t]]
    BY <1>0, <2>1 DEF Awaits, Submitting, Taking, AnswersInv
  <2>3. InStep' /\ Matched'
    BY <1>0, <2>1, <2>2, ReturnMatched
  <2>4. ResponsesInv'
    BY <1>0, <2>1, ReturnResponses DEF Return
  <2>5. AnswersInv'
    BY <1>0, <2>1, <2>2, ReturnAnswers
  <2> QED BY <2>3, <2>4, <2>5 DEF PairInv, Matched
<1>6. CASE SendDone(t)
  <2>1. /\ Return(t, "RECV") /\ Polled(t) /\ vpc = "poll" /\ handler_state[t] = "SEND"
        /\ UNCHANGED <<control, wpc, req_ring, resp_ring, arena, next_request_id>>
        /\ answer' = [answer EXCEPT ![t] = NoBytes]
        /\ request_id' = [request_id EXCEPT ![t] = 0]
        /\ claimed_slot' = [claimed_slot EXCEPT ![t] = 0]
    BY <1>6 DEF SendDone, Begins, slots, workerVars
  <2>2. ~Awaits(t)
    BY <2>1 DEF Awaits
  <2>3. InStep' /\ Matched'
    <3>1. next_request_id' \in Nat /\ next_request_id <= next_request_id'
      BY <1>0, <2>1
    <3>2. UNCHANGED <<control, wpc, req_ring, resp_ring>>
      BY <2>1
    <3> QED BY <2>1, <2>2, <3>1, <3>2, ReturnMatched
  <2>4. ResponsesInv'
    BY <1>0, <2>1, ReturnResponses DEF Return
  <2>5. AnswersInv'
    BY <1>0, <2>1, ReturnAnswers
  <2> QED BY <2>3, <2>4, <2>5 DEF PairInv, Matched
<1> QED BY <1>1, <1>2, <1>3, <1>4, <1>5, <1>6

(* Claiming a slot: the new request is the last of the window, which has   *)
(* room for it.                                                            *)
LEMMA ClaimPairs ==
  ASSUME Roomy, IInv, PairInv, NEW t \in Task, ProxyClaim(t)
  PROVE  PairInv'
<1> DEFINE new == Claimed   at == SlotIndex(new)
<1>0. /\ request_id \in [Task -> Id] /\ claimed_slot \in [Task -> Slot]
      /\ req_ring \in [Slot -> Id] /\ arena \in [Slot -> Bytes]
      /\ next_request_id \in 1 .. MaxRequests + 1 /\ MaxRequests \in Nat
      /\ InStep /\ IdsInv /\ ResponsesInv /\ OwnersInv /\ OrderInv /\ HeadInv /\ AnswersInv
  BY BoundsAssumption DEF IInv, TypeOK, PairInv
<1>1. /\ vpc = "poll" /\ vpc' = "publish" /\ Polled(t) /\ handler_state[t] = "RECV"
      /\ ~ReqFull /\ new = req_write_idx
      /\ UNCHANGED <<req_write_idx, req_read_idx, resp_write_idx, resp_read_idx, wpc,
                     resp_ring, ready, handler_state, answer>>
      /\ arena' = [arena EXCEPT ![at] = [kind |-> "request", id |-> next_request_id]]
      /\ req_ring' = [req_ring EXCEPT ![at] = next_request_id]
      /\ request_id' = [request_id EXCEPT ![t] = next_request_id]
      /\ claimed_slot' = [claimed_slot EXCEPT ![t] = at]
      /\ next_request_id' = next_request_id + 1
  BY DEF ProxyClaim, Begins, CopyPath, Claimed, control, workerVars
<1>2. /\ resp_read_idx \in Nat /\ new \in Nat /\ resp_write_idx \in Nat
      /\ resp_write_idx <= new
      /\ \A q \in Unswept : /\ q \in Nat /\ resp_read_idx <= q /\ q < new
                            /\ SlotIndex(q) \in Slot
      /\ ~Answered(new) /\ at \in Slot
  BY <1>0, <1>1, WindowFits, SlotIndexType
<1>3. new - resp_read_idx <= NTasks /\ NTasks < Capacity /\ NTasks \in Nat /\ Capacity \in Nat
  BY <1>1, RoomToClaim, NTasksAssumption, CapacityAssumption DEF Begins, Roomy
<1>4. Claimed' = new + 1 /\ Unswept' = Unswept \cup {new} /\ new \notin Unswept
  <2>1. Claimed' = new + 1
    BY <1>1 DEF Claimed
  <2>2. resp_read_idx <= new
    BY <1>2 DEF IInv, ResponseRingInv
  <2> QED BY <1>1, <1>2, <2>1, <2>2 DEF Unswept
<1>5. ASSUME NEW q \in Unswept
      PROVE  /\ SlotIndex(q) # at
             /\ req_ring'[SlotIndex(q)] = req_ring[SlotIndex(q)]
             /\ arena'[SlotIndex(q)] = arena[SlotIndex(q)]
             /\ Request(q)' = Request(q)
             /\ (Answered(q)' <=> Answered(q)) /\ (Taken(q)' <=> Taken(q))
  <2>1. SlotIndex(q) # at /\ SlotIndex(q) \in Slot
    <3>1. q \in Nat /\ new \in Nat /\ q < new /\ new - q < Capacity
      BY <1>2, <1>3
    <3> QED BY <1>2, <3>1, SlotsDiffer
  <2> QED BY <1>0, <1>1, <2>1 DEF Request, SlotIndex, Answered, Taken
<1>6. \A q : q = new => /\ Request(q)' = next_request_id /\ SlotIndex(q)' = at
                        /\ ~Answered(q)' /\ ~Taken(q)'
  BY <1>0, <1>1, <1>2 DEF Request, SlotIndex, Answered, Taken
<1>7. /\ ~Awaits(t) /\ Awaits(t)'
      /\ \A u \in Task \ {t} : Awaits(u)' <=> Awaits(u)
      /\ \A u \in Task \ {t}, q \in Unswept : Holds(u, q)' <=> Holds(u, q)
      /\ \A q : q = new => Holds(t, q)'
      /\ \A q \in Unswept : ~Holds(t, q)'
  <2>1. \A u \in Task : Polled(u)' <=> u = t
    BY <1>1 DEF Polled, Task, IInv, TypeOK
  <2>2. \A q \in Unswept : Request(q) # next_request_id
    BY <1>0, <1>2 DEF IdsInv
  <2> QED BY <1>0, <1>1, <1>5, <1>6, <2>1, <2>2 DEF Awaits, Holds, Submitting, SlotIndex
<1>8. InStep'
  BY <1>0, <1>1, <1>2, <1>3, <1>4 DEF InStep
<1>9. IdsInv'
  <2>1. \A q \in Unswept : Request(q)' = Request(q) /\ Request(q) < next_request_id /\ Request(q) # 0
                           /\ Request(q) \in Nat
    BY <1>0, <1>2, <1>5 DEF IdsInv, Request, Id
  <2>2. \A u \in Task : request_id'[u] < next_request_id'
    BY <1>0, <1>1, BoundsAssumption DEF IdsInv, Id
  <2>3. \A p, q \in Unswept' : p < q => p # new
    BY <1>2, <1>4
  <2> QED BY <1>0, <1>1, <1>4, <1>6, <2>1, <2>2, <2>3 DEF IdsInv
<1>10. ResponsesInv'
  <2>1. wpc \in {"route", "fill", "complete"} => resp_write_idx \in Unswept
    BY <1>0, <1>2, <1>1 DEF InStep, Unswept, IInv, RequestRingInv, ResponseRingInv, Handling
  <2>2. \A q : SlotIndex(q)' = SlotIndex(q)
    BY DEF SlotIndex
  <2>3. \A q \in Unswept : req_ring'[SlotIndex(q)] = Request(q)
    BY <1>5 DEF Request
  <2> QED BY <1>0, <1>1, <1>4, <1>5, <1>6, <2>1, <2>2, <2>3 DEF ResponsesInv, Request
<1>11. OwnersInv'
  <2>1. \A q \in Unswept' : ~Taken(q)' => \E u \in Task : Awaits(u)' /\ Holds(u, q)'
    BY <1>0, <1>4, <1>5, <1>6, <1>7 DEF OwnersInv
  <2>2. \A u \in Task : Awaits(u)' => \E q \in Unswept' : ~Taken(q)' /\ Holds(u, q)'
    BY <1>0, <1>4, <1>5, <1>6, <1>7 DEF OwnersInv
  <2>3. \A u, v \in Task : Awaits(u)' /\ Awaits(v)' /\ u # v => request_id'[u] # request_id'[v]
    <3>1. \A u \in Task : request_id[u] # next_request_id
      BY <1>0 DEF IdsInv
    <3> QED BY <1>0, <1>1, <1>7, <3>1 DEF OwnersInv
  <2>4. \A u \in Task : Polled(u)' => u = t
    BY <1>1 DEF Polled, Task, IInv, TypeOK
  <2>5. Request(Claimed - 1)' = next_request_id
    <3>1. Claimed' - 1 = new
      BY <1>2, <1>4
    <3> QED BY <1>0, <1>1, <1>2, <3>1 DEF Request, SlotIndex
  <2> QED BY <1>0, <1>1, <2>1, <2>2, <2>3, <2>4, <2>5 DEF OwnersInv
<1>12. OrderInv'
  <2>1. ASSUME NEW p \in Unswept', NEW q \in Unswept', p < q, ~Taken(p)', Taken(q)'
        PROVE  \E u \in Task : /\ Holds(u, q)'
                               /\ \A v \in Task : Awaits(v)' /\ Holds(v, p)' => After(u, v)'
    <3>1. p \in Unswept /\ q \in Unswept /\ ~Taken(p) /\ Taken(q)
      BY <1>2, <1>4, <1>5, <1>6, <2>1
    <3>2. PICK u \in Task \ {t} :
            /\ Holds(u, q)
            /\ \A v \in Task : Awaits(v) /\ Holds(v, p) => After(u, v)
      BY <1>1, <2>1, <3>1, PolledTookNoneAhead DEF Taking
    <3>3. Left' = Left /\ \A v : After(u, v)' <=> After(u, v)
      BY <1>1 DEF Left, Taking, After
    <3> QED BY <1>7, <3>1, <3>2, <3>3
  <2> QED BY <1>0, <1>1, <2>1 DEF OrderInv
<1>13. HeadInv'
  BY <1>0, <1>1, <1>4, <1>5, <1>6 DEF HeadInv
<1>14. AnswersInv'
  BY <1>0, <1>1 DEF AnswersInv, Taking
<1> QED BY <1>8, <1>9, <1>10, <1>11, <1>12, <1>13, <1>14 DEF PairInv

(* A task finds its response: it is the response to the request it holds,  *)
(* and no task polled before it waits for an earlier one that is there.    *)
LEMMA PeekHitPairs ==
  ASSUME Roomy, IInv, PairInv, NEW t \in Task, PeekHit(t)
  PROVE  PairInv'
<1>0. /\ request_id \in [Task -> Id] /\ claimed_slot \in [Task -> Slot]
      /\ resp_ring \in [Slot -> [id : Id, complete : BOOLEAN]]
      /\ ready \subseteq Task /\ Task \subseteq Int /\ req_write_idx \in Nat
      /\ InStep /\ IdsInv /\ ResponsesInv /\ OwnersInv /\ OrderInv /\ HeadInv /\ AnswersInv
  BY DEF IInv, TypeOK, PairInv, Task
<1>1. /\ vpc = "poll" /\ vpc' = "sweep" /\ Polled(t) /\ handler_state[t] = "PROXY_WAIT"
      /\ ResponseIn(t)
      /\ UNCHANGED <<req_write_idx, req_read_idx, resp_write_idx, resp_read_idx, wpc,
                     req_ring, arena, ready, handler_state, claimed_slot, request_id,
                     answer, next_request_id>>
      /\ resp_ring' = [resp_ring EXCEPT ![claimed_slot[t]].id = 0]
  BY DEF PeekHit, Begins, control, tasks, workerVars
<1>2. Awaits(t)
  BY <1>1 DEF Awaits
<1>3. PICK own \in Unswept : ~Taken(own) /\ Holds(t, own)
  BY <1>0, <1>2 DEF OwnersInv
<1>4. /\ resp_read_idx \in Nat /\ Claimed \in Nat /\ resp_write_idx \in Nat
      /\ resp_write_idx <= Claimed
      /\ \A q \in Unswept : /\ q \in Nat /\ resp_read_idx <= q /\ q < Claimed
                            /\ Claimed - q <= Capacity /\ SlotIndex(q) \in Slot
      /\ \A p, q \in Unswept : p # q => SlotIndex(p) # SlotIndex(q)
  BY <1>0, WindowFits
<1>5. wpc \in Handling \ {"ack"} => resp_write_idx \in Unswept
  <2>1. /\ wpc \in Handling => req_read_idx < req_write_idx
        /\ wpc # "ack" => resp_write_idx = req_read_idx
        /\ resp_read_idx <= resp_write_idx
    BY <1>0 DEF InStep, IInv, RequestRingInv, ResponseRingInv
  <2>2. Claimed = req_write_idx
    BY <1>1 DEF Claimed
  <2> QED BY <1>4, <2>1, <2>2 DEF Unswept
<1>6. Answered(own)
  <2>1. resp_ring[SlotIndex(own)].id # 0 /\ resp_ring[SlotIndex(own)].complete
    BY <1>0, <1>1, <1>3 DEF ResponseIn, Holds, IdsInv
  <2>2. CASE \E q \in resp_read_idx .. resp_write_idx - 1 : SlotIndex(q) = SlotIndex(own)
    <3>1. PICK q \in resp_read_idx .. resp_write_idx - 1 : SlotIndex(q) = SlotIndex(own)
      BY <2>2
    <3>2. q \in Unswept /\ q < resp_write_idx
      BY <1>4, <3>1 DEF Unswept
    <3>3. q = own
      BY <1>4, <3>1, <3>2
    <3> QED BY <3>2, <3>3 DEF Answered
  <2>3. CASE wpc \in Writing /\ SlotIndex(own) = SlotIndex(resp_write_idx)
    <3>1. own = resp_write_idx
      BY <1>4, <1>5, <2>3 DEF Writing, Handling
    <3>2. wpc = "commit"
      BY <2>1, <2>3 DEF IInv, ResponseRingInv
    <3> QED BY <3>1, <3>2 DEF Answered
  <2> QED BY <1>4, <2>1, <2>2, <2>3 DEF IInv, ResponseRingInv
<1>7. /\ Claimed' = Claimed /\ Unswept' = Unswept
      /\ \A q : /\ Request(q)' = Request(q) /\ SlotIndex(q)' = SlotIndex(q)
                /\ (Answered(q)' <=> Answered(q))
      /\ \A u, q : Holds(u, q)' <=> Holds(u, q)
      /\ \A u : Polled(u)' <=> Polled(u)
  BY <1>1 DEF Claimed, Unswept, Request, SlotIndex, Answered, Holds, Polled
<1>8. /\ claimed_slot[t] = SlotIndex(own)
      /\ \A q \in Unswept \ {own} : resp_ring'[SlotIndex(q)] = resp_ring[SlotIndex(q)]
      /\ \A q \in Unswept : Taken(q)' <=> (Taken(q) \/ q = own)
  <2>1. claimed_slot[t] = SlotIndex(own)
    BY <1>3 DEF Holds
  <2>2. \A q \in Unswept \ {own} : resp_ring'[SlotIndex(q)] = resp_ring[SlotIndex(q)]
    BY <1>0, <1>1, <1>4, <2>1
  <2>3. resp_ring'[SlotIndex(own)].id = 0
    BY <1>0, <1>1, <1>4, <2>1
  <2> QED BY <1>6, <1>7, <2>1, <2>2, <2>3 DEF Taken
<1>9. /\ \A u \in ready : Polled(u) <=> u = t
      /\ \A u \in Task \ {t} : Awaits(u)' <=> Awaits(u)
      /\ \A u \in Task : Awaits(u) <=> handler_state[u] = "PROXY_WAIT"
      /\ ~Awaits(t)'
      /\ t \in ready
  <2>1. t \in ready /\ \A u \in ready : Polled(u) <=> u = t
    <3>1. t \in ready /\ \A u \in ready : t <= u /\ u \in Int /\ t \in Int
      BY <1>0, <1>1 DEF Polled
    <3>2. \A u \in ready : Polled(u) => u <= t
      BY <3>1 DEF Polled
    <3> QED BY <1>1, <3>1, <3>2
  <2>2. \A u \in Task \ {t} : ~Polled(u)
    BY <2>1 DEF Polled
  <2> QED BY <1>1, <1>7, <2>1, <2>2 DEF Awaits, Submitting
<1>10. Left = ready /\ Left' = ready \ {t}
  <2>1. {u \in ready : ~Polled(u)} = ready \ {t}
    BY <1>9
  <2> QED BY <1>1, <1>7, <2>1 DEF Left, Taking
\* It holds no other request, and no other waiting task holds this one.
<1>11. /\ \A q \in Unswept : Holds(t, q) => q = own
       /\ \A u \in Task \ {t} : Awaits(u) => ~Holds(u, own)
  <2>1. ASSUME NEW q \in Unswept, Holds(t, q), q # own PROVE FALSE
    <3>1. Request(q) = Request(own) /\ Request(own) \in Nat
      BY <1>0, <1>3, <2>1, BoundsAssumption DEF Holds, Id
    <3>2. Request(q) < Request(own) \/ Request(own) < Request(q)
      BY <1>0, <1>4, <2>1 DEF IdsInv
    <3> QED BY <3>1, <3>2
  <2> QED BY <1>0, <1>2, <1>3, <2>1 DEF OwnersInv, Holds
<1>12. InStep' /\ IdsInv'
  BY <1>0, <1>1, <1>7 DEF InStep, IdsInv
<1>13. ResponsesInv'
  <2>1. wpc \in {"route", "fill", "complete"} => resp_write_idx \in Unswept /\ resp_write_idx # own
    BY <1>4, <1>5, <1>6 DEF Answered, Handling
  <2> QED BY <1>0, <1>1, <1>7, <1>8, <2>1 DEF ResponsesInv
<1>14. OwnersInv'
  <2>1. \A q \in Unswept : ~Taken(q)' => \E u \in Task : Awaits(u)' /\ Holds(u, q)
    BY <1>0, <1>8, <1>9, <1>11 DEF OwnersInv
  <2>2. \A u \in Task : Awaits(u)' => \E q \in Unswept : ~Taken(q)' /\ Holds(u, q)
    BY <1>0, <1>8, <1>9, <1>11 DEF OwnersInv
  <2>3. \A u, v \in Task : Awaits(u)' /\ Awaits(v)' /\ u # v => request_id[u] # request_id[v]
    BY <1>0, <1>9 DEF OwnersInv
  <2> QED BY <1>1, <1>7, <2>1, <2>2, <2>3 DEF OwnersInv, Submitting
<1>15. OrderInv'
  <2>1. ASSUME NEW p \in Unswept, NEW q \in Unswept, p < q, ~Taken(p)', Taken(q)'
        PROVE  \E u \in Task : /\ Holds(u, q)
                               /\ \A v \in Task : Awaits(v)' /\ Holds(v, p) => After(u, v)'
    <3>1. ~Taken(p)
      BY <1>8, <2>1
    <3>2. CASE q = own
      <4>1. ASSUME NEW v \in Task, Awaits(v)' PROVE After(t, v)'
        <5>1. v # t /\ handler_state[v] = "PROXY_WAIT"
          BY <1>9, <4>1
        <5>2. v \in ready \/ v < t
          BY <1>0, <1>9, <5>1 DEF OrderInv
        <5> QED BY <1>10, <5>1, <5>2 DEF After
      <4> QED BY <1>3, <3>2, <4>1
    <3>3. CASE q # own
      <4>1. PICK u \in Task : /\ Holds(u, q)
                              /\ \A v \in Task : Awaits(v) /\ Holds(v, p) => After(u, v)
        BY <1>0, <1>8, <2>1, <3>1, <3>3 DEF OrderInv
      <4>2. ASSUME NEW v \in Task, Awaits(v)', Holds(v, p) PROVE After(u, v)'
        <5>1. v # t /\ After(u, v)
          BY <1>9, <4>1, <4>2
        <5> QED BY <1>10, <5>1 DEF After
      <4> QED BY <4>1, <4>2
    <3> QED BY <3>2, <3>3
  <2> QED BY <1>0, <1>1, <1>7, <2>1 DEF OrderInv
<1>16. HeadInv'
  BY <1>1 DEF HeadInv
<1>17. AnswersInv'
  <2>1. ASSUME NEW u \in Task, Polled(u)
        PROVE  /\ handler_state[u] = "PROXY_WAIT"
               /\ \E q \in 0 .. Claimed - 1 :
                    /\ Answered(q) /\ Claimed - q <= Capacity /\ claimed_slot[u] = SlotIndex(q)
                    /\ arena[SlotIndex(q)] = [kind |-> "response", id |-> request_id[u]]
    <3>1. u = t
      BY <1>9, <2>1 DEF Polled
    <3>2. own \in 0 .. Claimed - 1 /\ Claimed - own <= Capacity
      BY <1>4
    <3>3. arena[SlotIndex(own)] = [kind |-> "response", id |-> request_id[t]]
      BY <1>0, <1>3, <1>6 DEF ResponsesInv, Holds
    <3> QED BY <1>1, <1>6, <1>8, <3>1, <3>2, <3>3
  <2> QED BY <1>0, <1>1, <1>7, <2>1 DEF AnswersInv
<1> QED BY <1>12, <1>13, <1>14, <1>15, <1>16, <1>17 DEF PairInv

(* The sweep drops taken responses only, and leaves none at the head that  *)
(* was committed.                                                          *)
LEMMA SweepPairs ==
  ASSUME Roomy, IInv, PairInv, Sweep \/ SweepDone
  PROVE  PairInv'
<1>0. /\ resp_read_idx \in Nat /\ Claimed \in Nat /\ resp_write_idx \in Nat
      /\ resp_write_idx <= Claimed /\ req_read_idx \in Nat
      /\ \A q \in Unswept : q \in Nat /\ resp_read_idx <= q
      /\ InStep /\ IdsInv /\ ResponsesInv /\ OwnersInv /\ OrderInv /\ HeadInv /\ AnswersInv
  BY WindowFits DEF PairInv, IInv, TypeOK
<1>1. /\ vpc = "sweep" /\ vpc' \in Taking
      /\ UNCHANGED <<req_write_idx, req_read_idx, resp_write_idx, wpc, req_ring, resp_ring,
                     arena, ready, handler_state, claimed_slot, request_id, answer,
                     next_request_id>>
      /\ \/ /\ vpc' = "sweep" /\ Swept /\ resp_read_idx' = resp_read_idx + 1
         \/ /\ vpc' = "copy" /\ ~Swept /\ resp_read_idx' = resp_read_idx
  BY DEF Sweep, SweepDone, Taking, control, slots, tasks, valetVars, workerVars
<1>2. /\ Claimed' = Claimed /\ Unswept' \subseteq Unswept
      /\ \A q : /\ Request(q)' = Request(q) /\ SlotIndex(q)' = SlotIndex(q)
                /\ (Answered(q)' <=> Answered(q)) /\ (Taken(q)' <=> Taken(q))
      /\ \A u, q : Holds(u, q)' <=> Holds(u, q)
      /\ \A u : (Polled(u)' <=> Polled(u)) /\ (Awaits(u)' <=> Awaits(u))
      /\ Left' = Left
      /\ \A u, v : After(u, v)' <=> After(u, v)
  <2>1. Claimed' = Claimed
    BY <1>1 DEF Claimed, Taking
  <2>2. Unswept' \subseteq Unswept
    BY <1>0, <1>1, <2>1 DEF Unswept
  <2>3. \A q : /\ Request(q)' = Request(q) /\ SlotIndex(q)' = SlotIndex(q)
               /\ (Answered(q)' <=> Answered(q)) /\ (Taken(q)' <=> Taken(q))
    BY <1>1 DEF Request, SlotIndex, Answered, Taken
  <2>4. /\ \A u, q : Holds(u, q)' <=> Holds(u, q)
        /\ \A u : (Polled(u)' <=> Polled(u)) /\ (Awaits(u)' <=> Awaits(u))
        /\ Left' = Left
    BY <1>1 DEF Holds, Request, SlotIndex, Polled, Awaits, Submitting, Taking, Left
  <2> QED BY <2>1, <2>2, <2>3, <2>4 DEF After
<1>3. \A q \in Unswept : ~Taken(q) => q \in Unswept'
  <2>1. ASSUME NEW q \in Unswept, q \notin Unswept' PROVE Taken(q)
    <3>1. q = resp_read_idx /\ Swept
      BY <1>0, <1>1, <1>2, <2>1 DEF Unswept
    <3> QED BY <3>1 DEF Swept, Taken, Answered
  <2> QED BY <2>1
<1>4. InStep'
  BY <1>0, <1>1, <1>2, NTasksAssumption DEF InStep
<1>5. IdsInv' /\ ResponsesInv'
  BY <1>0, <1>1, <1>2 DEF IdsInv, ResponsesInv
<1>6. OwnersInv'
  <2>1. vpc \notin Submitting /\ vpc' \notin Submitting
    BY <1>1 DEF Submitting, Taking
  <2> QED BY <1>0, <1>1, <1>2, <1>3, <2>1 DEF OwnersInv
<1>7. OrderInv'
  BY <1>0, <1>1, <1>2 DEF OrderInv
<1>8. HeadInv'
  <2>1. ASSUME vpc' = "copy", NEW p \in Unswept, NEW q \in Unswept,
               p = resp_read_idx, Taken(p), Taken(q)
        PROVE  q = p
    <3>1. ~(resp_read_idx < resp_write_idx)
      BY <1>1, <2>1 DEF Swept, Taken
    <3> QED BY <1>0, <2>1, <3>1 DEF Taken, Answered
  <2> QED BY <1>1, <1>2, <2>1 DEF HeadInv
<1>9. AnswersInv'
  <2>1. vpc \in Taking
    BY <1>1 DEF Taking
  <2> QED BY <1>0, <1>1, <1>2, <2>1 DEF AnswersInv
<1> QED BY <1>4, <1>5, <1>6, <1>7, <1>8, <1>9 DEF PairInv

-----------------------------------------------------------------------------
(* The theorems.                                                           *)

LEMMA InitPairInv ==
  ASSUME Roomy, Init
  PROVE  PairInv
<1>1. Unswept = {} /\ Claimed = 0 /\ NTasks \in Nat
  BY NTasksAssumption DEF Init, Unswept, Claimed
<1>2. \A t \in Task : ~Awaits(t) /\ ~Polled(t)
  BY DEF Init, Awaits, Polled
<1>3. InStep /\ IdsInv /\ OwnersInv
  BY <1>1, <1>2 DEF Init, InStep, IdsInv, OwnersInv
<1>4. ResponsesInv /\ OrderInv /\ HeadInv /\ AnswersInv
  BY <1>1, <1>2 DEF Init, ResponsesInv, OrderInv, HeadInv, AnswersInv
<1> QED BY <1>3, <1>4 DEF PairInv

LEMMA ValetPairs ==
  ASSUME Roomy, IInv, PairInv, Valet
  PROVE  PairInv'
<1>1. ASSUME NEW t \in Task, ProxyArmFails(t) \/ PeekGiveUp(t) \/ CopyFails(t)
      PROVE  FALSE
  <2>1. abandoned < MaxAbandoned /\ abandoned \in 0 .. MaxAbandoned
    BY <1>1 DEF ProxyArmFails, PeekGiveUp, CopyFails, GiveUp, IInv, TypeOK
  <2> QED BY <2>1 DEF Roomy
<1> QED
  BY <1>1, SignalPairs, NewPassPairs, ReturnPairs, ClaimPairs, PeekHitPairs, SweepPairs
  DEF Valet

LEMMA StutterPairInv ==
  ASSUME PairInv, UNCHANGED vars
  PROVE  PairInv'
<1>1. UNCHANGED <<req_write_idx, req_read_idx, resp_write_idx, resp_read_idx, wpc, vpc,
                  req_ring, resp_ring, arena, ready, handler_state, claimed_slot,
                  request_id, answer, next_request_id>>
  BY DEF vars, control, slots, tasks, valetVars, workerVars
<1>2. /\ Claimed' = Claimed /\ Unswept' = Unswept
      /\ \A q : /\ Request(q)' = Request(q) /\ SlotIndex(q)' = SlotIndex(q)
                /\ (Answered(q)' <=> Answered(q)) /\ (Taken(q)' <=> Taken(q))
      /\ \A u, q : Holds(u, q)' <=> Holds(u, q)
      /\ \A u : (Polled(u)' <=> Polled(u)) /\ (Awaits(u)' <=> Awaits(u))
      /\ Left' = Left
  BY <1>1 DEF Claimed, Unswept, Request, SlotIndex, Answered, Taken, Holds, Polled, Awaits, Left
<1>3. \A u, v : After(u, v)' <=> After(u, v)
  BY <1>2 DEF After
<1>4. InStep' /\ IdsInv' /\ ResponsesInv'
  BY <1>1, <1>2 DEF PairInv, InStep, IdsInv, ResponsesInv
<1>5. OwnersInv' /\ OrderInv' /\ HeadInv'
  BY <1>1, <1>2, <1>3 DEF PairInv, OwnersInv, OrderInv, HeadInv, Request, SlotIndex
<1>6. AnswersInv'
  BY <1>1, <1>2 DEF PairInv, AnswersInv
<1> QED BY <1>4, <1>5, <1>6 DEF PairInv

(* The pairing of tasks, requests and responses holds in every run.        *)
THEOREM Pairing ==
  ASSUME Roomy
  PROVE  Spec => [](IInv /\ PairInv)
<1>1. Init => PairInv
  BY InitPairInv
<1>2. IInv /\ PairInv /\ [Next]_vars => PairInv'
  BY ValetPairs, WorkerPairs, StutterPairInv DEF Next
<1> QED BY <1>1, <1>2, Invariance, PTL DEF Spec

(* With fewer tasks than slots, and nobody giving up, the worker never     *)
(* acknowledges a request that it has not answered: it cannot meet a full  *)
(* response ring, whatever the order in which tasks are polled and sweep.  *)
THEOREM AckedRequestsAreAnswered ==
  ASSUME Roomy
  PROVE  Spec => []AckedIsAnswered
<1>1. IInv /\ PairInv => AckedIsAnswered
  BY DEF IInv, TypeOK, PairInv, InStep, AckedIsAnswered
<1> QED BY <1>1, Pairing, PTL

(* In the same cases every client is sent the response to its own request, *)
(* whole, although tasks copy from partitions that others will use next.   *)
THEOREM AnswersAreOwn ==
  ASSUME Roomy
  PROVE  Spec => []AnswerIsOwn
<1>1. IInv /\ PairInv => AnswerIsOwn
  BY DEF PairInv, AnswersInv, AnswerIsOwn
<1> QED BY <1>1, Pairing, PTL

-----------------------------------------------------------------------------
(* The refinement: what the mapping needs beside IInv and PairInv.         *)

(* No two tasks have one id, and ids are submitted in ascending order;     *)
(* valet's thread is inside a task's handler whenever it is not polling.   *)
FreshInv ==
  /\ \A t, u \in Task : t # u /\ request_id[t] # 0 => request_id[t] # request_id[u]
  /\ LastSubmitted < IF vpc = "publish" THEN Request(req_write_idx) ELSE next_request_id
SomeonePolled == vpc # "poll" => \E t \in Task : Polled(t)

RefInv == IInv /\ PairInv /\ FreshInv /\ SomeonePolled

(* The slot of the last request is not the one that is claimed next.       *)
LEMMA LastIsKept ==
  ASSUME Roomy, TypeOK, req_write_idx # 0
  PROVE  /\ req_write_idx - 1 \in Nat
         /\ SlotIndex(req_write_idx - 1) # SlotIndex(req_write_idx)
         /\ SlotIndex(req_write_idx - 1) \in Slot
<1>1. req_write_idx \in Nat /\ req_write_idx - 1 \in Nat /\ Capacity \in Nat /\ 1 < Capacity
  BY NTasksAssumption, CapacityAssumption DEF TypeOK, Roomy
<1> QED BY <1>1, SlotsDiffer, SlotIndexType

LEMMA NobodyGivesUp ==
  ASSUME Roomy, TypeOK, NEW t \in Task
  PROVE  ~(ProxyArmFails(t) \/ PeekGiveUp(t) \/ CopyFails(t))
BY DEF ProxyArmFails, PeekGiveUp, CopyFails, GiveUp, TypeOK, Roomy

(* The steps that hand out an id, use it or forget it.                     *)
LEMMA FreshStep ==
  ASSUME Roomy, RefInv, [Next]_vars
  PROVE  FreshInv'
<1> DEFINE old == IF vpc = "publish" THEN Request(req_write_idx) ELSE next_request_id
<1>0. /\ TypeOK /\ FreshInv /\ IdsInv /\ request_id \in [Task -> Id] /\ Id \subseteq Nat
      /\ next_request_id \in Nat /\ req_ring \in [Slot -> Id] /\ req_write_idx \in Nat
      /\ SlotIndex(req_write_idx) \in Slot
      /\ \A t \in Task : request_id[t] < next_request_id
  BY BoundsAssumption, SlotIndexType DEF RefInv, IInv, PairInv, IdsInv, TypeOK, Id
<1>a. LastSubmitted \in Nat
  BY <1>0, LastIsKept DEF LastSubmitted
<1>1. ASSUME UNCHANGED <<req_write_idx, req_ring>>, request_id' = request_id,
             next_request_id' \in Nat, next_request_id <= next_request_id',
             vpc' = vpc \/ (vpc # "publish" /\ vpc' # "publish")
      PROVE  FreshInv'
  <2>1. /\ LastSubmitted' = LastSubmitted
        /\ Request(req_write_idx)' = Request(req_write_idx)
    BY <1>1 DEF LastSubmitted, Request, SlotIndex
  <2>2. next_request_id' = next_request_id \/ next_request_id < next_request_id'
    BY <1>0, <1>1
  <2>3. CASE vpc = "publish"
    BY <1>0, <1>1, <2>1, <2>3 DEF FreshInv
  <2>4. CASE vpc # "publish"
    <3>1. LastSubmitted < next_request_id'
      BY <1>0, <1>a, <1>1, <2>4 DEF FreshInv
    <3> QED BY <1>0, <1>1, <2>1, <2>4, <3>1 DEF FreshInv
  <2> QED BY <2>3, <2>4
<1>2. CASE Worker
  BY <1>0, <1>1, <1>2 DEF Worker, WorkerStep, SpinHit, SpinOver, LoadFutex, CheckEmpty,
    FutexWait, FutexTimeout, PollNone, PollRequest, BeginResponse, SetResponseId,
    ReadRequest, FillResponse, CompleteResponse, CommitResponse, AckRequest, SetRunning,
    control, slots, valetVars, tasks
<1>3. CASE NewPass \/ SignalBump \/ SignalWake \/ Sweep \/ SweepDone
  BY <1>0, <1>1, <1>3 DEF NewPass, SignalBump, SignalWake, Sweep, SweepDone, control,
    slots, valetVars, tasks
<1>4. CASE SubmitPublish
  <2>1. /\ vpc = "publish" /\ vpc' = "bump" /\ req_write_idx' = req_write_idx + 1
        /\ UNCHANGED <<req_ring, request_id, next_request_id>>
    BY <1>4 DEF SubmitPublish, slots, tasks
  <2>2. LastSubmitted' = Request(req_write_idx)
    BY <1>0, <2>1 DEF LastSubmitted, Request, SlotIndex
  <2>3. req_write_idx \in Unswept
    BY <1>0, <2>1 DEF Unswept, Claimed, RefInv, IInv, TypeOK, RequestRingInv, PairInv,
      InStep, ResponseRingInv, Handling
  <2> QED BY <1>0, <2>1, <2>2, <2>3 DEF FreshInv, IdsInv
<1>5. ASSUME NEW t \in Task, ProxyClaim(t) PROVE FreshInv'
  <2>1. /\ vpc = "poll" /\ vpc' = "publish" /\ req_write_idx' = req_write_idx
        /\ req_ring' = [req_ring EXCEPT ![SlotIndex(req_write_idx)] = next_request_id]
        /\ request_id' = [request_id EXCEPT ![t] = next_request_id]
    BY <1>5 DEF ProxyClaim, Begins, control
  <2>2. LastSubmitted' = LastSubmitted
    BY <1>0, <2>1, LastIsKept DEF LastSubmitted, SlotIndex
  <2>3. Request(req_write_idx)' = next_request_id
    BY <1>0, <2>1 DEF Request, SlotIndex
  <2>4. \A u, v \in Task : u # v /\ request_id'[u] # 0 => request_id'[u] # request_id'[v]
    BY <1>0, <2>1 DEF FreshInv
  <2> QED BY <1>0, <2>1, <2>2, <2>3, <2>4 DEF FreshInv
<1>6. ASSUME NEW t \in Task, SendDone(t) PROVE FreshInv'
  <2>1. /\ vpc = "poll" /\ vpc' = "poll"
        /\ UNCHANGED <<req_write_idx, req_ring, next_request_id>>
        /\ request_id' = [request_id EXCEPT ![t] = 0]
    BY <1>6 DEF SendDone, Begins, Return, control, slots
  <2>2. LastSubmitted' = LastSubmitted
    BY <2>1 DEF LastSubmitted, SlotIndex
  <2>3. \A u, v \in Task : u # v /\ request_id'[u] # 0 => request_id'[u] # request_id'[v]
    BY <1>0, <2>1 DEF FreshInv
  <2> QED BY <1>0, <2>1, <2>2, <2>3 DEF FreshInv
<1>7. ASSUME NEW t \in Task,
             \/ RecvEof(t) \/ ProxyRingFull(t) \/ ProxyUnavailable(t) \/ ProxyReject(t)
             \/ ProxyArm(t) \/ PeekHit(t) \/ PeekMiss(t) \/ CopyResponse(t)
      PROVE  FreshInv'
  BY <1>0, <1>1, <1>7 DEF RecvEof, ProxyRingFull, ProxyUnavailable, ProxyReject, ProxyArm,
    PeekHit, PeekMiss, CopyResponse, Begins, Return, control, slots, tasks
<1>8. \A t \in Task : ~(ProxyArmFails(t) \/ PeekGiveUp(t) \/ CopyFails(t))
  BY <1>0, NobodyGivesUp
<1>9. CASE UNCHANGED vars
  BY <1>0, <1>1, <1>9 DEF vars, control, slots, valetVars, tasks
<1> QED BY <1>2, <1>3, <1>4, <1>5, <1>6, <1>7, <1>8, <1>9 DEF Next, Valet

-----------------------------------------------------------------------------
(* Queues as functions.                                                    *)

LEMMA QueueIsSeq ==
  ASSUME NEW n \in Nat, NEW s \in [1 .. n -> Id]
  PROVE  s \in Seq(Id) /\ Len(s) = n
<1>1. s \in Seq(Id)
  BY SeqDef
<1>2. Len(s) \in Nat /\ DOMAIN s = 1 .. Len(s)
  BY <1>1, LenProperties
<1>3. 1 .. Len(s) = 1 .. n
  BY <1>2
<1>4. Len(s) = n
  BY <1>2, <1>3
<1> QED BY <1>1, <1>4

LEMMA QueueAppend ==
  ASSUME NEW n \in Nat, NEW s \in [1 .. n -> Id], NEW t \in [1 .. n + 1 -> Id],
         \A i \in 1 .. n : t[i] = s[i]
  PROVE  t = Append(s, t[n + 1])
<1>1. s \in Seq(Id) /\ Len(s) = n /\ t \in Seq(Id) /\ Len(t) = n + 1 /\ t[n + 1] \in Id
  BY QueueIsSeq
<1> DEFINE a == Append(s, t[n + 1])
<1>2. /\ a \in Seq(Id) /\ Len(a) = n + 1
      /\ \A i \in 1 .. n : a[i] = s[i]
      /\ a[n + 1] = t[n + 1]
  BY <1>1, AppendProperties
<1>3. \A i \in 1 .. n + 1 : i \in 1 .. n \/ i = n + 1
  OBVIOUS
<1> HIDE DEF a
<1>4. \A i \in 1 .. Len(t) : t[i] = a[i]
  BY <1>1, <1>2, <1>3
<1>5. t = a
  BY <1>1, <1>2, <1>4, SeqEqual
<1> QED BY <1>5 DEF a

LEMMA QueueTail ==
  ASSUME NEW n \in Nat, NEW s \in [1 .. n + 1 -> Id], NEW t \in [1 .. n -> Id],
         \A i \in 1 .. n : t[i] = s[i + 1]
  PROVE  s # <<>> /\ Head(s) = s[1] /\ t = Tail(s)
<1>1. s \in Seq(Id) /\ Len(s) = n + 1 /\ t \in Seq(Id) /\ Len(t) = n
  BY QueueIsSeq
<1>2. s # <<>>
  BY <1>1, EmptySeq
<1>3. /\ Tail(s) \in Seq(Id) /\ Len(Tail(s)) = n
      /\ \A i \in 1 .. n : Tail(s)[i] = s[i + 1]
  BY <1>1, <1>2, HeadTailProperties
<1>4. t = Tail(s)
  BY <1>1, <1>3, SeqEqual
<1>5. Head(s) = s[1]
  BY <1>1, <1>2
<1> QED BY <1>2, <1>4, <1>5

-----------------------------------------------------------------------------
(* The mapped state.                                                       *)

(* The requests between the first unexecuted one and the write index.      *)
LEMMA QueueShape ==
  ASSUME RefInv
  PROVE  /\ FirstUnexecuted \in Nat /\ req_write_idx \in Nat
         /\ FirstUnexecuted <= req_write_idx
         /\ req_write_idx - FirstUnexecuted \in Nat
         /\ Unexecuted \in [1 .. req_write_idx - FirstUnexecuted -> Id]
         /\ \A i \in 1 .. req_write_idx - FirstUnexecuted :
              Unexecuted[i] = Request(FirstUnexecuted + i - 1)
<1>1. /\ req_write_idx \in Nat /\ req_read_idx \in Nat /\ req_ring \in [Slot -> Id]
      /\ req_read_idx <= req_write_idx
      /\ wpc \in {"commit", "ack"} => req_read_idx < req_write_idx
  BY DEF RefInv, IInv, TypeOK, RequestRingInv, Handling
<1>2. /\ FirstUnexecuted \in Nat /\ FirstUnexecuted <= req_write_idx
      /\ req_write_idx - FirstUnexecuted \in Nat
  BY <1>1 DEF FirstUnexecuted
<1> HIDE DEF FirstUnexecuted
<1>3. \A i \in 1 .. req_write_idx - FirstUnexecuted :
        SlotIndex(FirstUnexecuted + i - 1) \in Slot
  BY <1>2, SlotIndexType
<1> QED BY <1>1, <1>2, <1>3 DEF Unexecuted, Request

(* Steps that leave what the mapping looks at alone.                       *)
LEMMA QueueKept ==
  ASSUME UNCHANGED <<req_write_idx, req_ring>>, FirstUnexecuted' = FirstUnexecuted
  PROVE  Unexecuted' = Unexecuted /\ LastSubmitted' = LastSubmitted
BY DEF Unexecuted, LastSubmitted, SlotIndex

LEMMA TasksKept ==
  ASSUME UNCHANGED <<handler_state, request_id, answer, ready>>,
         vpc' = vpc \/ (vpc \in {"bump", "wake", "arm"} /\ vpc' \in {"bump", "wake", "arm"})
           \/ (vpc \in Taking /\ vpc' \in Taking)
  PROVE  Pending' = Pending /\ Reply' = Reply /\ BeingTaken' = BeingTaken
<1>1. \A t : (Polled(t)' <=> Polled(t)) /\ (Waiting(t)' <=> Waiting(t))
  BY DEF Polled, Waiting, Taking
<1> QED BY <1>1 DEF Pending, Reply, BeingTaken, Taking

(* A worker's step.                                                        *)
LEMMA WorkerSimulates ==
  ASSUME Roomy, RefInv, RefInv', Worker
  PROVE  [Service!Next]_(Service!vars)
<1> DEFINE at == SlotIndex(resp_write_idx)
<1>0. /\ resp_ring \in [Slot -> [id : Id, complete : BOOLEAN]] /\ at \in Slot
      /\ resp_write_idx \in Nat /\ resp_read_idx \in Nat /\ req_read_idx \in Nat
      /\ req_write_idx \in Nat
      /\ TypeOK /\ ResponseRingInv /\ RequestRingInv /\ InStep /\ ResponsesInv /\ IdsInv
  BY SlotIndexType DEF RefInv, IInv, TypeOK, PairInv
<1>1. UNCHANGED <<req_write_idx, req_ring, vpc, handler_state, request_id, answer, ready>>
  BY DEF Worker, WorkerStep, SpinHit, SpinOver, LoadFutex, CheckEmpty, FutexWait,
    FutexTimeout, PollNone, PollRequest, BeginResponse, SetResponseId, ReadRequest,
    FillResponse, CompleteResponse, CommitResponse, AckRequest, SetRunning, control,
    slots, valetVars, tasks
<1>2. Pending' = Pending /\ Reply' = Reply /\ BeingTaken' = BeingTaken
  BY <1>1, TasksKept
<1>3. ASSUME FirstUnexecuted' = FirstUnexecuted, Complete' = Complete
      PROVE  UNCHANGED Service!vars
  BY <1>1, <1>2, <1>3, QueueKept DEF Service!vars, Uncollected
<1>4. CASE SpinHit \/ SpinOver \/ LoadFutex \/ CheckEmpty \/ FutexWait \/ FutexTimeout
           \/ PollNone \/ PollRequest \/ ReadRequest \/ FillResponse \/ SetRunning
  BY <1>3, <1>4 DEF SpinHit, SpinOver, LoadFutex, CheckEmpty, FutexWait, FutexTimeout,
    PollNone, PollRequest, ReadRequest, FillResponse, SetRunning, Goto, control, slots,
    FirstUnexecuted, Complete
<1>5. CASE CommitResponse \/ AckRequest
  <2>1. FirstUnexecuted' = FirstUnexecuted
    BY <1>0, <1>5 DEF CommitResponse, AckRequest, Goto, FirstUnexecuted
  <2>2. Complete' = Complete
    BY <1>5 DEF CommitResponse, AckRequest, slots, Complete
  <2> QED BY <1>3, <2>1, <2>2
<1>6. CASE BeginResponse \/ SetResponseId
  <2>1. ~RespFull \/ wpc # "begin"
    <3>1. wpc = "begin" => req_read_idx < req_write_idx /\ resp_write_idx = req_read_idx
      BY <1>0 DEF RequestRingInv, InStep, Handling
    <3>2. Claimed - resp_read_idx <= NTasks + 1 /\ NTasks < Capacity /\ req_write_idx <= Claimed
          /\ NTasks \in Nat /\ Capacity \in Nat /\ Claimed \in Nat
      BY <1>0, NTasksAssumption, CapacityAssumption DEF InStep, Roomy, Claimed
    <3> QED BY <1>0, <3>1, <3>2 DEF RespFull
  <2>2. /\ \A s \in Slot \ {at} : resp_ring'[s] = resp_ring[s]
        /\ wpc \in {"begin", "setid"} /\ wpc' \in {"setid", "route"}
        /\ req_read_idx' = req_read_idx
    BY <1>0, <1>6, <2>1 DEF BeginResponse, SetResponseId, Goto, control
  <2>3. \A id \in Id \ {0} : /\ resp_ring[at] # [id |-> id, complete |-> TRUE]
                             /\ resp_ring'[at] # [id |-> id, complete |-> TRUE]
    <3>1. CASE BeginResponse
      <4>1. resp_ring'[at].id = 0 /\ wpc = "begin" /\ ~RespFull
        BY <1>0, <2>1, <3>1 DEF BeginResponse, RespSlotInit, Goto
      <4>2. resp_ring[at].id = 0
        <5>1. ~Unread(at)
          BY <1>0, <4>1, FreshSlot
        <5> QED BY <1>0, <4>1, <5>1 DEF ResponseRingInv, Unread, Writing
      <4> QED BY <4>1, <4>2
    <3>2. CASE SetResponseId
      <4>1. wpc = "setid" /\ resp_ring'[at].complete = resp_ring[at].complete
        BY <1>0, <3>2 DEF SetResponseId, Goto
      <4>2. ~resp_ring[at].complete
        BY <1>0, <4>1 DEF ResponseRingInv, Writing
      <4> QED BY <4>1, <4>2
    <3> QED BY <1>6, <3>1, <3>2
  <2>4. Complete' = Complete
    BY <1>0, <2>2, <2>3 DEF Complete
  <2>5. FirstUnexecuted' = FirstUnexecuted
    BY <2>2 DEF FirstUnexecuted
  <2> QED BY <1>3, <2>4, <2>5
<1>7. CASE CompleteResponse
  <2> DEFINE n == req_write_idx - FirstUnexecuted
  <2>1. /\ wpc = "complete" /\ wpc' = "commit" /\ req_read_idx' = req_read_idx
        /\ \A s \in Slot \ {at} : resp_ring'[s] = resp_ring[s]
        /\ resp_ring'[at] = [id |-> resp_ring[at].id, complete |-> TRUE]
    BY <1>0, <1>7 DEF CompleteResponse, Goto, control
  <2>2. /\ FirstUnexecuted = resp_write_idx /\ FirstUnexecuted' = resp_write_idx + 1
        /\ resp_write_idx < req_write_idx
    BY <1>0, <2>1 DEF FirstUnexecuted, InStep, RequestRingInv, Handling
  <2>3. /\ n \in Nat /\ Unexecuted \in [1 .. n -> Id]
        /\ \A i \in 1 .. n : Unexecuted[i] = Request(FirstUnexecuted + i - 1)
    BY QueueShape
  <2>4. n - 1 \in Nat /\ n - 1 + 1 = n /\ FirstUnexecuted \in Nat
    BY <1>0, <2>2
  <2>5. Unexecuted' = [i \in 1 .. n - 1 |-> Request(FirstUnexecuted + i)]
    <3>1. req_write_idx' - FirstUnexecuted' = n - 1
      BY <1>0, <1>1, <2>2
    <3>2. \A i \in 1 .. n - 1 : FirstUnexecuted' + i - 1 = FirstUnexecuted + i
      BY <1>0, <2>2
    <3> QED BY <1>1, <3>1, <3>2 DEF Unexecuted, Request, SlotIndex
  <2>6. \A i \in 1 .. n - 1 : /\ i + 1 \in 1 .. n
                              /\ FirstUnexecuted + (i + 1) - 1 = FirstUnexecuted + i
    BY <2>4
  <2>7. /\ Unexecuted' \in [1 .. n - 1 -> Id]
        /\ \A i \in 1 .. n - 1 : Unexecuted'[i] = Unexecuted[i + 1]
    <3>1. \A i \in 1 .. n - 1 : /\ Unexecuted[i + 1] = Request(FirstUnexecuted + i)
                                /\ Unexecuted[i + 1] \in Id
      BY <2>3, <2>6
    <3> HIDE DEF n
    <3> QED BY <2>5, <3>1
  <2>8. Unexecuted # <<>> /\ Head(Unexecuted) = Unexecuted[1] /\ Unexecuted' = Tail(Unexecuted)
    BY <2>3, <2>4, <2>7, QueueTail
  <2>9. Head(Unexecuted) = Request(resp_write_idx)
    <3>1. 1 \in 1 .. n /\ FirstUnexecuted + 1 - 1 = resp_write_idx
      BY <2>2, <2>4
    <3> QED BY <2>3, <2>8, <3>1
  <2>10. resp_ring[at].id = Request(resp_write_idx) /\ ~resp_ring[at].complete
    BY <1>0, <2>1 DEF ResponsesInv, ResponseRingInv, Writing
  <2>a. resp_ring'[at] = [id |-> Request(resp_write_idx), complete |-> TRUE]
    BY <2>1, <2>10
  <2>11. Request(resp_write_idx) \in Id \ {0}
    <3>1. resp_write_idx \in Unswept
      BY <1>0, <2>2 DEF Unswept, Claimed, ResponseRingInv
    <3> QED BY <1>0, <2>10, <3>1 DEF IdsInv
  <2>12. Complete' = Complete \cup {Request(resp_write_idx)}
    <3>1. ASSUME NEW id \in Id \ {0}
          PROVE  id \in Complete' <=> id \in Complete \/ id = Request(resp_write_idx)
      <4>1. resp_ring'[at] = [id |-> id, complete |-> TRUE] <=> id = Request(resp_write_idx)
        <5> DEFINE r == Request(resp_write_idx)
        <5>1. resp_ring'[at] = [id |-> r, complete |-> TRUE]
          BY <2>a
        <5> HIDE DEF r
        <5>2. [id |-> r, complete |-> TRUE].id = r /\ [id |-> id, complete |-> TRUE].id = id
          OBVIOUS
        <5>3. ASSUME resp_ring'[at] = [id |-> id, complete |-> TRUE] PROVE id = r
          BY <5>1, <5>2, <5>3
        <5>4. ASSUME id = r PROVE resp_ring'[at] = [id |-> id, complete |-> TRUE]
          BY <5>1, <5>4
        <5> QED BY <5>3, <5>4 DEF r
      <4>2. resp_ring[at] # [id |-> id, complete |-> TRUE]
        BY <2>10
      <4> QED BY <1>0, <2>1, <4>1, <4>2 DEF Complete
    <3>2. Complete \subseteq Id \ {0} /\ Complete' \subseteq Id \ {0}
      BY DEF Complete
    <3> QED BY <2>11, <3>1, <3>2
  <2>13. Uncollected' = Uncollected \cup {Head(Unexecuted)}
    BY <1>2, <2>9, <2>12 DEF Uncollected
  <2>14. LastSubmitted' = LastSubmitted
    BY <1>1 DEF LastSubmitted, SlotIndex
  <2>15. Service!Execute
    BY <1>2, <2>8, <2>13, <2>14 DEF Service!Execute
  <2> QED BY <2>15 DEF Service!Next
<1> QED BY <1>4, <1>5, <1>6, <1>7 DEF Worker, WorkerStep

-----------------------------------------------------------------------------
(* The steps of valet's thread.                                            *)

LEMMA PolledStep ==
  ASSUME SomeonePolled, [Next]_vars
  PROVE  SomeonePolled'
<1>1. ASSUME vpc' = vpc, ready' = ready PROVE SomeonePolled'
  BY <1>1 DEF SomeonePolled, Polled
<1>2. CASE Worker
  BY <1>1, <1>2 DEF Worker, WorkerStep, SpinHit, SpinOver, LoadFutex, CheckEmpty,
    FutexWait, FutexTimeout, PollNone, PollRequest, BeginResponse, SetResponseId,
    ReadRequest, FillResponse, CompleteResponse, CommitResponse, AckRequest, SetRunning,
    valetVars
<1>3. CASE UNCHANGED vars
  BY <1>1, <1>3 DEF vars, valetVars
<1>4. CASE NewPass \/ SubmitPublish \/ SignalBump \/ SignalWake \/ Sweep \/ SweepDone
  BY <1>4 DEF NewPass, SubmitPublish, SignalBump, SignalWake, Sweep, SweepDone, valetVars,
    SomeonePolled, Polled
<1>5. ASSUME NEW t \in Task,
             \/ RecvEof(t) \/ ProxyRingFull(t) \/ ProxyUnavailable(t) \/ ProxyReject(t)
             \/ ProxyArm(t) \/ ProxyArmFails(t) \/ PeekMiss(t) \/ PeekGiveUp(t)
             \/ CopyResponse(t) \/ CopyFails(t) \/ SendDone(t)
      PROVE  SomeonePolled'
  <2>1. vpc' = "poll"
    BY <1>5 DEF RecvEof, ProxyRingFull, ProxyUnavailable, ProxyReject, ProxyArm,
      ProxyArmFails, PeekMiss, PeekGiveUp, CopyResponse, CopyFails, GiveUp, SendDone, Return
  <2> QED BY <2>1 DEF SomeonePolled
<1>6. ASSUME NEW t \in Task, ProxyClaim(t) \/ PeekHit(t) PROVE SomeonePolled'
  BY <1>6 DEF ProxyClaim, PeekHit, Begins, SomeonePolled, Polled
<1> QED BY <1>2, <1>3, <1>4, <1>5, <1>6 DEF Next, Valet

(* A pass begins, or a handler returns, and no request moves.              *)
LEMMA TasksStay ==
  ASSUME vpc = "poll", vpc' = "poll", UNCHANGED <<request_id, answer>>,
         \A u \in Task : handler_state'[u] = "PROXY_WAIT" <=> handler_state[u] = "PROXY_WAIT"
  PROVE  Pending' = Pending /\ Reply' = Reply /\ BeingTaken' = BeingTaken
<1>1. \A u \in Task : Waiting(u)' <=> Waiting(u)
  BY DEF Waiting
<1> QED BY <1>1 DEF Pending, Reply, BeingTaken

(* The steps the service does not see.                                     *)
LEMMA ReturnStutters ==
  ASSUME RefInv, NEW t \in Task,
         \/ RecvEof(t) \/ ProxyRingFull(t) \/ ProxyUnavailable(t) \/ ProxyReject(t)
         \/ PeekMiss(t) \/ ProxyArm(t)
  PROVE  UNCHANGED Service!vars
<1>1. /\ UNCHANGED <<control, req_ring, resp_ring, request_id, answer, wpc>>
      /\ vpc' = "poll" /\ handler_state \in [Task -> {"RECV", "PROXY_WAIT", "SEND"}]
  BY DEF RecvEof, ProxyRingFull, ProxyUnavailable, ProxyReject, PeekMiss, ProxyArm, Return,
    slots, workerVars, RefInv, IInv, TypeOK
<1>2. Unexecuted' = Unexecuted /\ LastSubmitted' = LastSubmitted /\ Complete' = Complete
  BY <1>1, QueueKept DEF control, FirstUnexecuted, Complete
<1>3. Pending' = Pending /\ Reply' = Reply /\ BeingTaken' = BeingTaken
  <2>1. CASE ~ProxyArm(t)
    <3>1. vpc = "poll" /\ \A u \in Task :
            handler_state'[u] = "PROXY_WAIT" <=> handler_state[u] = "PROXY_WAIT"
      BY <1>1, <2>1 DEF RecvEof, ProxyRingFull, ProxyUnavailable, ProxyReject, PeekMiss,
        Begins, Return
    <3> QED BY <1>1, <3>1, TasksStay
  <2>2. CASE ProxyArm(t)
    <3>1. /\ vpc = "arm" /\ Polled(t)
          /\ handler_state' = [handler_state EXCEPT ![t] = "PROXY_WAIT"]
      BY <2>2 DEF ProxyArm, Return
    <3>2. \A u \in Task : Waiting(u)' <=> Waiting(u)
      BY <1>1, <3>1 DEF Waiting, Polled, Task
    <3> QED BY <1>1, <3>1, <3>2 DEF Pending, Reply, BeingTaken
  <2> QED BY <2>1, <2>2
<1> QED BY <1>2, <1>3 DEF Service!vars, Uncollected

LEMMA OtherStepsStutter ==
  ASSUME NewPass \/ SignalBump \/ SignalWake \/ Sweep \/ SweepDone
  PROVE  UNCHANGED Service!vars
<1>1. UNCHANGED <<req_write_idx, req_read_idx, slots, tasks>>
  BY DEF NewPass, SignalBump, SignalWake, Sweep, SweepDone, control, valetVars
<1>2. FirstUnexecuted' = FirstUnexecuted
  BY <1>1 DEF NewPass, SignalBump, SignalWake, Sweep, SweepDone, workerVars, FirstUnexecuted
<1>3. Unexecuted' = Unexecuted /\ LastSubmitted' = LastSubmitted /\ Complete' = Complete
  BY <1>1, <1>2, QueueKept DEF slots, Complete
<1>4. Pending' = Pending /\ Reply' = Reply /\ BeingTaken' = BeingTaken
  <2>1. CASE NewPass
    BY <1>1, <2>1, TasksStay DEF NewPass, tasks
  <2>2. CASE SignalBump \/ SignalWake \/ Sweep \/ SweepDone
    BY <1>1, <2>2, TasksKept DEF SignalBump, SignalWake, Sweep, SweepDone, valetVars,
      tasks, Taking
  <2> QED BY <2>1, <2>2
<1> QED BY <1>3, <1>4 DEF Service!vars, Uncollected

(* The claim fills a slot that no published request is in.                 *)
LEMMA ClaimStutters ==
  ASSUME Roomy, RefInv, NEW t \in Task, ProxyClaim(t)
  PROVE  UNCHANGED Service!vars
<1>1. /\ vpc = "poll" /\ vpc' = "publish" /\ handler_state[t] = "RECV" /\ ~ReqFull
      /\ req_ring' = [req_ring EXCEPT ![SlotIndex(req_write_idx)] = next_request_id]
      /\ request_id' = [request_id EXCEPT ![t] = next_request_id]
      /\ UNCHANGED <<control, resp_ring, handler_state, answer, ready, wpc>>
  BY DEF ProxyClaim, Begins, workerVars
<1>2. /\ req_ring \in [Slot -> Id] /\ req_write_idx \in Nat /\ req_read_idx \in Nat
      /\ SlotIndex(req_write_idx) \in Slot /\ request_id \in [Task -> Id]
      /\ TypeOK /\ Capacity \in Nat /\ req_read_idx <= FirstUnexecuted
  BY CapacityAssumption, SlotIndexType DEF RefInv, IInv, TypeOK, FirstUnexecuted
<1>3. LastSubmitted' = LastSubmitted
  BY <1>1, <1>2, LastIsKept DEF LastSubmitted, SlotIndex, control
<1>4. Unexecuted' = Unexecuted
  <2> DEFINE n == req_write_idx - FirstUnexecuted
  <2>1. /\ FirstUnexecuted' = FirstUnexecuted /\ req_write_idx' = req_write_idx
        /\ FirstUnexecuted \in Nat /\ n \in Nat
    BY <1>1, QueueShape DEF FirstUnexecuted, control
  <2>2. ASSUME NEW i \in 1 .. n
        PROVE  req_ring'[SlotIndex(FirstUnexecuted + i - 1)]
                 = req_ring[SlotIndex(FirstUnexecuted + i - 1)]
    <3>1. /\ FirstUnexecuted + i - 1 \in Nat /\ FirstUnexecuted + i - 1 < req_write_idx
          /\ req_write_idx - (FirstUnexecuted + i - 1) < Capacity
      BY <1>1, <1>2, <2>1 DEF ReqFull
    <3>2. SlotIndex(FirstUnexecuted + i - 1) # SlotIndex(req_write_idx)
      BY <1>2, <3>1, SlotsDiffer
    <3>3. SlotIndex(FirstUnexecuted + i - 1) \in Slot
      BY <3>1, SlotIndexType
    <3> QED BY <1>1, <1>2, <3>2, <3>3
  <2>3. \A i : SlotIndex(i)' = SlotIndex(i)
    BY DEF SlotIndex
  <2> QED BY <2>1, <2>2, <2>3 DEF Unexecuted, SlotIndex
<1>5. \A u \in Task : /\ Waiting(u)' <=> Waiting(u)
                      /\ Waiting(u) => request_id'[u] = request_id[u]
  BY <1>1, <1>2 DEF Waiting
<1>6. Pending' = Pending /\ Reply' = Reply /\ BeingTaken' = BeingTaken /\ Complete' = Complete
  BY <1>1, <1>5 DEF Pending, Reply, BeingTaken, Complete
<1> QED BY <1>3, <1>4, <1>6 DEF Service!vars, Uncollected

(* The response moves from the ring into the task's hands.                 *)
LEMMA PeekStutters ==
  ASSUME RefInv, NEW t \in Task, PeekHit(t)
  PROVE  UNCHANGED Service!vars
<1>1. /\ vpc = "poll" /\ vpc' = "sweep" /\ handler_state[t] = "PROXY_WAIT" /\ Polled(t)
      /\ resp_ring[claimed_slot[t]] = [id |-> request_id[t], complete |-> TRUE]
      /\ resp_ring' = [resp_ring EXCEPT ![claimed_slot[t]].id = 0]
      /\ UNCHANGED <<req_write_idx, req_ring, handler_state, request_id, answer, ready>>
      /\ FirstUnexecuted' = FirstUnexecuted
  BY DEF PeekHit, Begins, ResponseIn, control, workerVars, tasks, FirstUnexecuted
<1>2. /\ resp_ring \in [Slot -> [id : Id, complete : BOOLEAN]] /\ claimed_slot[t] \in Slot
      /\ request_id[t] \in Id
  BY DEF RefInv, IInv, TypeOK
<1>3. request_id[t] # 0
  <2>1. PICK q \in Unswept : Holds(t, q)
    BY <1>1 DEF RefInv, PairInv, OwnersInv, Awaits
  <2> QED BY <2>1 DEF RefInv, PairInv, IdsInv, Holds
<1>4. \A u \in Task : Polled(u)' <=> u = t
  BY <1>1 DEF Polled, Task
<1>5. BeingTaken = {} /\ BeingTaken' = {request_id[t]}
  BY <1>1, <1>4 DEF BeingTaken
<1>6. request_id[t] \in Complete
  BY <1>1, <1>2, <1>3 DEF Complete
<1>7. Complete' \subseteq Complete /\ Complete \subseteq Complete' \cup {request_id[t]}
  <2>1. \A s \in Slot \ {claimed_slot[t]} : resp_ring'[s] = resp_ring[s]
    BY <1>1, <1>2
  <2>2. resp_ring'[claimed_slot[t]].id = 0
    BY <1>1, <1>2
  <2>3. \A id \in Id \ {0} : resp_ring'[claimed_slot[t]] # [id |-> id, complete |-> TRUE]
    BY <2>2
  <2>4. \A id \in Id : resp_ring[claimed_slot[t]] = [id |-> id, complete |-> TRUE]
                         => id = request_id[t]
    BY <1>1
  <2> QED BY <1>2, <2>1, <2>3, <2>4 DEF Complete
<1>8. Uncollected' = Uncollected
  BY <1>5, <1>6, <1>7 DEF Uncollected
<1>9. Pending' = Pending /\ Reply' = Reply
  <2>1. \A u \in Task : Waiting(u)' <=> Waiting(u)
    BY <1>1 DEF Waiting
  <2> QED BY <1>1, <2>1 DEF Pending, Reply
<1> QED BY <1>1, <1>8, <1>9, QueueKept DEF Service!vars

(* The publication of a request submits it.                                *)
LEMMA PublishSubmits ==
  ASSUME Roomy, RefInv, RefInv', SubmitPublish
  PROVE  \E t \in Task : Service!Submit(t)
<1> DEFINE id == Request(req_write_idx)
           n == req_write_idx - FirstUnexecuted
<1>1. /\ vpc = "publish" /\ vpc' = "bump" /\ req_write_idx' = req_write_idx + 1
      /\ UNCHANGED <<req_read_idx, wpc, req_ring, resp_ring, ready, handler_state,
                     request_id, answer>>
  BY DEF SubmitPublish, slots, tasks, workerVars
<1>2. PICK t \in Task : Polled(t)
  BY <1>1 DEF RefInv, SomeonePolled
<1>3. /\ req_write_idx \in Nat /\ req_ring \in [Slot -> Id] /\ id \in Id
      /\ SlotIndex(req_write_idx) \in Slot /\ answer \in [Task -> Bytes]
  BY SlotIndexType DEF RefInv, IInv, TypeOK, Request
<1>4. handler_state[t] = "RECV" /\ request_id[t] = id
  BY <1>1, <1>2, <1>3 DEF RefInv, PairInv, OwnersInv, Submitting, Claimed
<1>5. Pending[t] = 0 /\ Reply[t] = 0
  <2>1. answer[t] = NoBytes
    BY <1>4 DEF RefInv, PairInv, AnswersInv
  <2>2. ~Waiting(t)
    BY <1>1, <1>4 DEF Waiting
  <2> QED BY <2>1, <2>2 DEF Pending, Reply, NoBytes
<1>6. Pending' = [Pending EXCEPT ![t] = id]
  <2>1. \A u \in Task : Waiting(u)' <=> Waiting(u) \/ u = t
    BY <1>1, <1>2 DEF Waiting, Polled, Task
  <2> QED BY <1>1, <1>4, <2>1 DEF Pending
<1>7. id \in LastSubmitted + 1 .. MaxRequests
  <2>1. LastSubmitted < id
    BY <1>1 DEF RefInv, FreshInv
  <2>2. LastSubmitted \in Nat
    BY <1>3, LastIsKept DEF RefInv, IInv, LastSubmitted, Id
  <2> QED BY <1>3, <2>1, <2>2, BoundsAssumption DEF Id
<1>8. LastSubmitted' = id
  BY <1>1, <1>3 DEF LastSubmitted, Request, SlotIndex
<1>9. Unexecuted' = Append(Unexecuted, id)
  <2>1. FirstUnexecuted' = FirstUnexecuted
    BY <1>1 DEF FirstUnexecuted
  <2>2. /\ n \in Nat /\ Unexecuted \in [1 .. n -> Id] /\ FirstUnexecuted \in Nat
        /\ \A i \in 1 .. n : Unexecuted[i] = Request(FirstUnexecuted + i - 1)
    BY QueueShape
  <2>3. Unexecuted' = [i \in 1 .. n + 1 |-> Request(FirstUnexecuted + i - 1)]
    <3>1. req_write_idx' - FirstUnexecuted' = n + 1
      BY <1>1, <1>3, <2>1, <2>2
    <3> QED BY <1>1, <2>1, <3>1 DEF Unexecuted, Request, SlotIndex
  <2> HIDE DEF n
  <2>4. \A i \in 1 .. n + 1 : Request(FirstUnexecuted + i - 1) \in Id
    <3>1. \A i \in 1 .. n + 1 : FirstUnexecuted + i - 1 \in Nat
      BY <2>2
    <3> QED BY <1>3, <3>1, SlotIndexType DEF Request
  <2>5. /\ Unexecuted' \in [1 .. n + 1 -> Id]
        /\ \A i \in 1 .. n + 1 : Unexecuted'[i] = Request(FirstUnexecuted + i - 1)
    BY <2>3, <2>4
  <2>6. Unexecuted'[n + 1] = id
    <3>1. n + 1 \in 1 .. n + 1 /\ FirstUnexecuted + (n + 1) - 1 = req_write_idx
      BY <1>3, <2>2 DEF n
    <3> QED BY <2>5, <3>1
  <2>7. \A i \in 1 .. n : i \in 1 .. n + 1
    BY <2>2
  <2>8. \A i \in 1 .. n : Unexecuted'[i] = Unexecuted[i]
    BY <2>2, <2>5, <2>7
  <2> QED BY <2>2, <2>5, <2>6, <2>8, QueueAppend
<1>10. Uncollected' = Uncollected /\ Reply' = Reply
  BY <1>1 DEF Uncollected, Complete, BeingTaken, Reply
<1>11. Service!Submit(t)
  BY <1>5, <1>6, <1>7, <1>8, <1>9, <1>10 DEF Service!Submit
<1> QED BY <1>11

(* The copy out of the partition delivers the response.                    *)
LEMMA CopyDelivers ==
  ASSUME Roomy, RefInv, NEW t \in Task, CopyResponse(t)
  PROVE  Service!Deliver(t)
<1>1. /\ vpc = "copy" /\ vpc' = "poll" /\ Polled(t)
      /\ handler_state' = [handler_state EXCEPT ![t] = "SEND"]
      /\ answer' = [answer EXCEPT ![t] = arena[claimed_slot[t]]]
      /\ UNCHANGED <<req_write_idx, req_read_idx, wpc, req_ring, resp_ring, request_id>>
  BY DEF CopyResponse, Return, control, slots, workerVars
<1>2. /\ handler_state[t] = "PROXY_WAIT"
      /\ arena[claimed_slot[t]] = [kind |-> "response", id |-> request_id[t]]
  BY <1>1 DEF RefInv, PairInv, AnswersInv, Taking
<1>3. /\ handler_state \in [Task -> {"RECV", "PROXY_WAIT", "SEND"}]
      /\ answer \in [Task -> Bytes] /\ TypeOK /\ ResponseRingInv /\ InStep
  BY DEF RefInv, IInv, TypeOK, PairInv
<1>4. Pending[t] = request_id[t]
  BY <1>2 DEF Pending, Waiting
<1>5. BeingTaken = {request_id[t]} /\ BeingTaken' = {}
  <2>1. \A u \in Task : Polled(u) <=> u = t
    BY <1>1 DEF Polled, Task
  <2> QED BY <1>1, <2>1 DEF BeingTaken
<1>6. request_id[t] \notin Complete
  <2>1. SUFFICES ASSUME NEW s \in Slot, request_id[t] # 0,
                        resp_ring[s] = [id |-> request_id[t], complete |-> TRUE]
                 PROVE  FALSE
    BY DEF Complete
  <2>2. resp_ring[s].id = request_id[t] /\ resp_ring[s].complete
    BY <2>1
  <2>3. PICK q \in resp_read_idx .. resp_write_idx :
          SlotIndex(q) = s /\ (q < resp_write_idx \/ (q = resp_write_idx /\ wpc = "commit"))
    BY <1>3, <2>1, <2>2 DEF ResponseRingInv, Writing, TypeOK
  <2>4. q \in Unswept /\ Answered(q)
    <3>1. Answered(q) /\ q \in Int
      BY <2>3 DEF Answered
    <3>2. q < req_write_idx /\ req_write_idx <= Claimed /\ Claimed \in Nat
          /\ req_write_idx \in Nat /\ resp_read_idx \in Nat
      BY <1>3, <3>1, WindowFits DEF RefInv, TypeOK
    <3> QED BY <2>3, <3>1, <3>2 DEF Unswept
  <2>5. ~Taken(q)
    BY <2>1, <2>2, <2>3 DEF Taken
  <2>6. resp_ring[s].id = Request(q)
    <3>1. resp_ring[SlotIndex(q)] = [id |-> Request(q), complete |-> TRUE]
      BY <2>4, <2>5 DEF RefInv, PairInv, ResponsesInv
    <3> QED BY <2>3, <3>1
  <2>7. PICK u \in Task : Awaits(u) /\ Holds(u, q)
    BY <2>4, <2>5 DEF RefInv, PairInv, OwnersInv
  <2>8. u # t
    BY <1>1, <2>7 DEF Awaits, Submitting
  <2>9. request_id[u] = request_id[t]
    BY <2>2, <2>6, <2>7 DEF Holds
  <2> QED BY <2>1, <2>8, <2>9 DEF RefInv, FreshInv
<1>7. Uncollected' = Uncollected \ {Pending[t]} /\ Pending[t] \in Uncollected
  <2>1. Complete' = Complete
    BY <1>1 DEF Complete
  <2> QED BY <1>4, <1>5, <1>6, <2>1 DEF Uncollected
<1>8. Pending' = [Pending EXCEPT ![t] = 0]
  <2>1. \A u \in Task : Waiting(u)' <=> Waiting(u) /\ u # t
    BY <1>1, <1>3 DEF Waiting
  <2> QED BY <1>1, <2>1 DEF Pending
<1>9. Reply' = [Reply EXCEPT ![t] = Pending[t]]
  <2>1. answer'[t].id = request_id[t]
    BY <1>1, <1>2, <1>3
  <2>2. \A u \in Task \ {t} : answer'[u] = answer[u]
    BY <1>1, <1>3
  <2> QED BY <1>4, <2>1, <2>2 DEF Reply
<1>10. Unexecuted' = Unexecuted /\ LastSubmitted' = LastSubmitted
  BY <1>1, QueueKept DEF FirstUnexecuted
<1> QED BY <1>7, <1>8, <1>9, <1>10 DEF Service!Deliver

(* The end of a send: the client has its answer, if that is what was sent. *)
LEMMA SendDoneSends ==
  ASSUME RefInv, NEW t \in Task, SendDone(t)
  PROVE  Service!Sent(t) \/ UNCHANGED Service!vars
<1>1. /\ vpc = "poll" /\ vpc' = "poll" /\ handler_state[t] = "SEND"
      /\ handler_state' = [handler_state EXCEPT ![t] = "RECV"]
      /\ answer' = [answer EXCEPT ![t] = NoBytes]
      /\ request_id' = [request_id EXCEPT ![t] = 0]
      /\ UNCHANGED <<req_write_idx, req_read_idx, wpc, req_ring, resp_ring>>
  BY DEF SendDone, Begins, Return, control, slots, workerVars
<1>2. /\ handler_state \in [Task -> {"RECV", "PROXY_WAIT", "SEND"}]
      /\ answer \in [Task -> Bytes] /\ request_id \in [Task -> Id]
  BY DEF RefInv, IInv, TypeOK
<1>3. Unexecuted' = Unexecuted /\ LastSubmitted' = LastSubmitted /\ Complete' = Complete
  BY <1>1, QueueKept DEF FirstUnexecuted, Complete
<1>4. Pending' = Pending /\ BeingTaken' = BeingTaken
  <2>1. \A u \in Task : /\ Waiting(u)' <=> Waiting(u)
                        /\ Waiting(u) => request_id'[u] = request_id[u]
    BY <1>1, <1>2 DEF Waiting
  <2> QED BY <1>1, <2>1 DEF Pending, BeingTaken
<1>5. Reply' = [Reply EXCEPT ![t] = 0]
  <2>1. answer'[t].id = 0 /\ \A u \in Task \ {t} : answer'[u] = answer[u]
    BY <1>1, <1>2 DEF NoBytes
  <2> QED BY <2>1 DEF Reply
<1>6. CASE Reply[t] = 0
  <2>1. Reply' = Reply
    BY <1>5, <1>6 DEF Reply
  <2> QED BY <1>3, <1>4, <2>1 DEF Service!vars, Uncollected
<1>7. CASE Reply[t] # 0
  BY <1>3, <1>4, <1>5, <1>7 DEF Service!Sent, Uncollected
<1> QED BY <1>6, <1>7

-----------------------------------------------------------------------------
(* The refinement.                                                         *)

LEMMA ValetSimulates ==
  ASSUME Roomy, RefInv, RefInv', Valet
  PROVE  [Service!Next]_(Service!vars)
<1>1. CASE SubmitPublish
  BY <1>1, PublishSubmits DEF Service!Next
<1>2. CASE NewPass \/ SignalBump \/ SignalWake \/ Sweep \/ SweepDone
  BY <1>2, OtherStepsStutter
<1>3. ASSUME NEW t \in Task,
             \/ RecvEof(t) \/ ProxyRingFull(t) \/ ProxyUnavailable(t) \/ ProxyReject(t)
             \/ PeekMiss(t) \/ ProxyArm(t)
      PROVE  UNCHANGED Service!vars
  BY <1>3, ReturnStutters
<1>4. ASSUME NEW t \in Task, ProxyClaim(t) \/ PeekHit(t)
      PROVE  UNCHANGED Service!vars
  BY <1>4, ClaimStutters, PeekStutters
<1>5. ASSUME NEW t \in Task, CopyResponse(t) PROVE Service!Next
  BY <1>5, CopyDelivers DEF Service!Next
<1>6. ASSUME NEW t \in Task, SendDone(t) PROVE [Service!Next]_(Service!vars)
  BY <1>6, SendDoneSends DEF Service!Next
<1>7. \A t \in Task : ~(ProxyArmFails(t) \/ PeekGiveUp(t) \/ CopyFails(t))
  BY NobodyGivesUp DEF RefInv, IInv
<1> QED BY <1>1, <1>2, <1>3, <1>4, <1>5, <1>6, <1>7 DEF Valet

LEMMA InitSimulates ==
  ASSUME Roomy, Init
  PROVE  Service!Init /\ FreshInv /\ SomeonePolled
<1>1. Unexecuted = <<>> /\ LastSubmitted = 0
  BY DEF Init, Unexecuted, FirstUnexecuted, LastSubmitted
<1>2. Uncollected = {}
  BY DEF Init, Uncollected, Complete, BeingTaken, RespSlotInit
<1>3. Pending = [t \in Task |-> 0] /\ Reply = [t \in Task |-> 0]
  BY DEF Init, Pending, Reply, Waiting, NoBytes
<1>4. FreshInv /\ SomeonePolled
  BY <1>1 DEF Init, FreshInv, SomeonePolled
<1> QED BY <1>1, <1>2, <1>3, <1>4 DEF Service!Init

(* The rings, slots, partitions and futex implement the plain queue: every *)
(* request is executed once, in submission order, and the response is      *)
(* delivered once, to the task that submitted it, whatever the interleaving *)
(* of valet and the worker.                                                *)
THEOREM ProxyImplementsService ==
  ASSUME Roomy
  PROVE  Spec => Service!SafeSpec
<1>1. Init => Service!Init /\ FreshInv /\ SomeonePolled
  BY InitSimulates
<1>2. RefInv /\ [Next]_vars => FreshInv' /\ SomeonePolled'
  BY FreshStep, PolledStep DEF RefInv
<1>3. RefInv /\ RefInv' /\ [Next]_vars => [Service!Next]_(Service!vars)
  <2>1. ASSUME UNCHANGED vars PROVE UNCHANGED Service!vars
    BY <2>1, QueueKept, TasksKept DEF vars, control, slots, tasks, valetVars, workerVars,
      Service!vars, FirstUnexecuted, Uncollected, Complete
  <2> QED BY <2>1, ValetSimulates, WorkerSimulates DEF Next
<1>4. Spec => [](IInv /\ PairInv)
  BY Pairing
<1> QED BY <1>1, <1>2, <1>3, <1>4, PTL DEF Spec, Service!SafeSpec, RefInv

=============================================================================
