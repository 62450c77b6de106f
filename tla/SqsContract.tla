----------------------------- MODULE SqsContract -----------------------------
(***************************************************************************)
(* What the SqsAdapter protocol promises: a message is waiting until it is *)
(* received, in flight until it is deleted or its visibility timeout ends, *)
(* and never gone before it is deleted.  A FIFO queue drops a message      *)
(* whose deduplication id it knows.                                        *)
(***************************************************************************)
CONSTANT Messages

VARIABLE state      \* where each message is

Init == state = [m \in Messages |-> "unsent"]

Moves(sent, from, to) ==
    /\ \A m \in sent : state[m] = from
    /\ state' = [m \in Messages |-> IF m \in sent THEN to ELSE state[m]]

Send(m) == Moves({m}, "unsent", "waiting") \/ Moves({m}, "unsent", "dropped")

Receive == \E batch \in SUBSET Messages : Moves(batch, "waiting", "inFlight")

\* The visibility timeout ends.
Return(m) == Moves({m}, "inFlight", "waiting")

Delete(m) == Moves({m}, "inFlight", "deleted")

Next == Receive \/ \E m \in Messages : Send(m) \/ Return(m) \/ Delete(m)

Spec == Init /\ [][Next]_state
=============================================================================
