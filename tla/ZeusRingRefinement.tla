------------------------ MODULE ZeusRingRefinement ------------------------
(***************************************************************************)
(* The shared-memory proxy implements RequestService, as long as the task  *)
(* pool is smaller than the rings and nobody gives up on a request.        *)
(***************************************************************************)
EXTENDS ZeusRing, Sequences

(* The task has published its request and not yet copied the response.     *)
Waiting(t) ==
  \/ handler_state[t] = "PROXY_WAIT"
  \/ Polled(t) /\ vpc \in {"bump", "wake", "arm"}

(* The current request counts as executed from RESP_FLAG_COMPLETE on.      *)
FirstUnexecuted ==
  req_read_idx + (IF wpc \in {"commit", "ack"} THEN 1 ELSE 0)

Unexecuted ==
  [i \in 1 .. req_write_idx - FirstUnexecuted |->
     req_ring[SlotIndex(FirstUnexecuted + i - 1)]]

Complete ==
  {id \in Id \ {0} : \E s \in Slot : resp_ring[s] = [id |-> id, complete |-> TRUE]}
BeingTaken ==
  {request_id[t] : t \in {u \in Task : Polled(u) /\ vpc \in {"sweep", "copy"}}}
Uncollected == Complete \cup BeingTaken

LastSubmitted ==
  IF req_write_idx = 0 THEN 0 ELSE req_ring[SlotIndex(req_write_idx - 1)]

Pending == [t \in Task |-> IF Waiting(t) THEN request_id[t] ELSE 0]
Reply   == [t \in Task |-> answer[t].id]

Service == INSTANCE RequestService WITH
  pending  <- Pending,
  queue    <- Unexecuted,
  executed <- Uncollected,
  reply    <- Reply,
  last     <- LastSubmitted

(* Every request is executed once, in submission order; its response goes  *)
(* to the task that submitted it, and does go to it.                       *)
ImplementsService == Service!Spec

=============================================================================
