--------------------------- MODULE RequestService ---------------------------
(***************************************************************************)
(* What the shared-memory proxy promises, without rings, slots, futexes or *)
(* partitions: requests are executed once each, in the order in which they *)
(* were submitted, and a task gets the response to its own request.        *)
(***************************************************************************)
EXTENDS Naturals, Sequences

CONSTANTS Task, MaxRequests

VARIABLES
  pending,    \* the request each task waits for, 0 if none
  queue,      \* requests submitted and not executed
  executed,   \* requests executed whose response nobody has taken
  reply,      \* the request whose response the task is sending, 0 if none
  last        \* the last request submitted

vars == <<pending, queue, executed, reply, last>>

Init ==
  /\ pending = [t \in Task |-> 0]
  /\ queue = <<>>
  /\ executed = {}
  /\ reply = [t \in Task |-> 0]
  /\ last = 0

(* Ids grow; a request rejected before it is submitted may use one up.     *)
Submit(t) ==
  /\ pending[t] = 0 /\ reply[t] = 0
  /\ \E id \in last + 1 .. MaxRequests :
       /\ pending' = [pending EXCEPT ![t] = id]
       /\ queue' = Append(queue, id)
       /\ last' = id
  /\ UNCHANGED <<executed, reply>>

Execute ==
  /\ queue # <<>>
  /\ executed' = executed \cup {Head(queue)}
  /\ queue' = Tail(queue)
  /\ UNCHANGED <<pending, reply, last>>

Deliver(t) ==
  /\ pending[t] \in executed
  /\ executed' = executed \ {pending[t]}
  /\ reply' = [reply EXCEPT ![t] = pending[t]]
  /\ pending' = [pending EXCEPT ![t] = 0]
  /\ UNCHANGED <<queue, last>>

Sent(t) ==
  /\ reply[t] # 0
  /\ reply' = [reply EXCEPT ![t] = 0]
  /\ UNCHANGED <<pending, queue, executed, last>>

Next == Execute \/ \E t \in Task : Submit(t) \/ Deliver(t) \/ Sent(t)

SafeSpec == Init /\ [][Next]_vars

Spec == /\ SafeSpec
        /\ WF_vars(Execute) /\ \A t \in Task : WF_vars(Deliver(t))

=============================================================================
