----------------------------- MODULE MsgChannel -----------------------------
(* What a host may rely on when it talks to the SMC over one message queue:  *)
(* a first-in first-out channel that answers every request once, in order,   *)
(* with the answer that it and the serial number determine; the requests     *)
(* answered before it determine that number.  It says nothing of rings,      *)
(* pointers, doorbells or work items.                                        *)
EXTENDS Naturals, Sequences

CONSTANTS Queues,               \* the queues of the channel
          Message,              \* the requests a host may submit
          Answer(_, _),         \* Answer(m, serial): the response to m
          After(_, _)           \* After(m, serial): the serial number after m

VARIABLES pending,              \* pending[q]: submitted, not yet answered
          ready,                \* ready[q]: answered, not yet collected
          serial                \* serial[q]: the number of the last answer

vars == <<pending, ready, serial>>

Init == /\ pending = [q \in Queues |-> <<>>]
        /\ ready = [q \in Queues |-> <<>>]
        /\ serial = [q \in Queues |-> 0]

Submit(q, m) == /\ pending' = [pending EXCEPT ![q] = Append(@, m)]
                /\ UNCHANGED <<ready, serial>>

Serve(q) ==
  /\ pending[q] # <<>>
  /\ pending' = [pending EXCEPT ![q] = Tail(@)]
  /\ ready' = [ready EXCEPT ![q] =
                  Append(@, Answer(Head(pending[q]), serial[q]))]
  /\ serial' = [serial EXCEPT ![q] = After(Head(pending[q]), @)]

Collect(q) == /\ ready[q] # <<>>
              /\ ready' = [ready EXCEPT ![q] = Tail(@)]
              /\ UNCHANGED <<pending, serial>>

Next == \E q \in Queues : \/ \E m \in Message : Submit(q, m)
                          \/ Serve(q)
                          \/ Collect(q)

Spec == Init /\ [][Next]_vars
=============================================================================
