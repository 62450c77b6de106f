------------------------------- MODULE FakeSqs -------------------------------
(***************************************************************************)
(* The in-memory SqsAdapter, the only implementation of the protocol in    *)
(* the repository: lists of waiting messages, and one table of messages in *)
(* flight for all queues, keyed by receipt handle.  A message keeps its    *)
(* handle for life, so the message itself stands for it.  No method awaits *)
(* anything: each is atomic.  Consumers work on one queue and may die; the *)
(* table keeps what they had received.                                     *)
(***************************************************************************)
EXTENDS Integers, SequencesExt

CONSTANTS
    Messages,       \* messages that may be sent, named after their message_id
    Queues,         \* queue URLs
    Consumers,      \* coroutines that receive and delete
    DedupIds,       \* deduplication ids producers use
    None,           \* no deduplication id, no queue, no deadline
    MaxMessages     \* the largest max_messages of a receive

ASSUME SqsAssumption == MaxMessages \in Nat \ {0} /\ None \notin Queues

VARIABLES
    queues,         \* _queues: the waiting messages of each queue
    inFlight,       \* _in_flight
    dedupId,        \* dedup_id of each message
    attempt,        \* attempt of each message
    deadline,       \* visibility_deadline of each message
    sentTo,         \* the queue each message was sent to, None before
    holding,        \* messages each consumer has received and not deleted
    log,            \* history: what was appended to each queue, in order
    handed,         \* history: the lists each queue answered, end to end
    deleted         \* history: messages deleted

vars ==
    <<queues, inFlight, dedupId, attempt, deadline, sentTo, holding, log, handed, deleted>>

Init ==
    /\ queues = [q \in Queues |-> << >>]
    /\ inFlight = {}
    /\ dedupId = [m \in Messages |-> None]
    /\ attempt = [m \in Messages |-> 1]
    /\ deadline = [m \in Messages |-> None]
    /\ sentTo = [m \in Messages |-> None]
    /\ holding = [c \in Consumers |-> {}]
    /\ log = [q \in Queues |-> << >>]
    /\ handed = [q \in Queues |-> << >>]
    /\ deleted = {}

-----------------------------------------------------------------------------
\* Mutant of HasDedup: only messages in flight are looked at.
HasDedupInFlight(q, id) == \E m \in inFlight : dedupId[m] = id

\* Only waiting messages are looked at.
HasDedup(q, id) == \E m \in Range(queues[q]) : dedupId[m] = id

\* A duplicate is dropped, and its sender given an id all the same.
Send(m, q, id) ==
    /\ sentTo[m] = None
    /\ sentTo' = [sentTo EXCEPT ![m] = q]
    /\ dedupId' = [dedupId EXCEPT ![m] = id]
    /\ IF id # None /\ HasDedup(q, id)
       THEN UNCHANGED <<queues, log>>
       ELSE /\ queues' = [queues EXCEPT ![q] = Append(@, m)]
            /\ log' = [log EXCEPT ![q] = Append(@, m)]
    /\ UNCHANGED <<inFlight, attempt, deadline, holding, handed, deleted>>

\* queue[:max_messages]
Taken(q, max) == SubSeq(queues[q], 1, IF max < Len(queues[q]) THEN max ELSE Len(queues[q]))

Rest(q, max) == SubSeq(queues[q], max + 1, Len(queues[q]))

\* Queue q answers consumer c with a list of messages.
Hand(c, q, batch) ==
    /\ attempt' = [m \in Messages |-> attempt[m] + (IF m \in Range(batch) THEN 1 ELSE 0)]
    /\ holding' = [holding EXCEPT ![c] = @ \union Range(batch)]
    /\ handed' = [handed EXCEPT ![q] = @ \o batch]
    /\ UNCHANGED <<dedupId, deadline, sentTo, log, deleted>>

\* Mutant of Receive: messages are popped and not kept.
ReceiveForgetting(c, q, max) ==
    /\ queues' = [queues EXCEPT ![q] = Rest(q, max)]
    /\ Hand(c, q, Taken(q, max))
    /\ UNCHANGED inFlight

\* Mutant of Receive: messages stay in the queue.
ReceiveKeeping(c, q, max) ==
    /\ inFlight' = inFlight \union Range(Taken(q, max))
    /\ Hand(c, q, Taken(q, max))
    /\ UNCHANGED queues

\* Mutant of Receive: the batch is popped message by message and answered
\* from its end.
ReceiveReversed(c, q, max) ==
    /\ queues' = [queues EXCEPT ![q] = Rest(q, max)]
    /\ inFlight' = inFlight \union Range(Taken(q, max))
    /\ Hand(c, q, Reverse(Taken(q, max)))

Receive(c, q, max) ==
    /\ queues' = [queues EXCEPT ![q] = Rest(q, max)]
    /\ inFlight' = inFlight \union Range(Taken(q, max))
    /\ Hand(c, q, Taken(q, max))

\* An unknown handle raises InfraError; the queue URL is not looked at.
Delete(c, m) ==
    /\ m \in holding[c] /\ m \in inFlight
    /\ inFlight' = inFlight \ {m}
    /\ holding' = [holding EXCEPT ![c] = @ \ {m}]
    /\ deleted' = deleted \union {m}
    /\ UNCHANGED <<queues, dedupId, attempt, deadline, sentTo, log, handed>>

\* The deadline is recorded; nothing reads it.
ChangeVisibility(c, m) ==
    /\ m \in holding[c] /\ m \in inFlight
    /\ \E seconds \in {0, 1} : deadline' = [deadline EXCEPT ![m] = seconds]
    /\ UNCHANGED <<queues, inFlight, dedupId, attempt, sentTo, holding, log, handed, deleted>>

\* The consumer dies and forgets its receipt handles.
Die(c) ==
    /\ holding' = [holding EXCEPT ![c] = {}]
    /\ UNCHANGED <<queues, inFlight, dedupId, attempt, deadline, sentTo, log, handed, deleted>>

Next ==
    \/ \E m \in Messages, q \in Queues, id \in DedupIds \union {None} : Send(m, q, id)
    \/ \E c \in Consumers :
          \/ \E q \in Queues, max \in 1..MaxMessages : Receive(c, q, max)
          \/ \E m \in Messages : Delete(c, m) \/ ChangeVisibility(c, m)
          \/ Die(c)

Spec == Init /\ [][Next]_vars

-----------------------------------------------------------------------------
\* Every variable has the shape the code gives it.
TypeOK ==
    /\ queues \in [Queues -> Seq(Messages)]
    /\ log \in [Queues -> Seq(Messages)] /\ handed \in [Queues -> Seq(Messages)]
    /\ inFlight \subseteq Messages /\ deleted \subseteq Messages
    /\ dedupId \in [Messages -> DedupIds \union {None}]
    /\ attempt \in [Messages -> 1..2]
    /\ deadline \in [Messages -> {0, 1, None}]
    /\ sentTo \in [Messages -> Queues \union {None}]
    /\ holding \in [Consumers -> SUBSET Messages]

\* A queue hands out its messages in the order they were appended, each once
\* and none skipped, whichever consumers take them, in batches of whatever size
\* and inside a batch as well.
DeliveredInOrder == \A q \in Queues : log[q] = handed[q] \o queues[q]

\* No two consumers hold one message, and none holds one that still waits.
OneHolder ==
    /\ \A c, d \in Consumers : c # d => holding[c] \intersect holding[d] = {}
    /\ \A c \in Consumers, q \in Queues : holding[c] \intersect Range(queues[q]) = {}

\* A queue never has two waiting messages of one deduplication id.
DuplicatesAreDropped ==
    \A q \in Queues : \A i, j \in DOMAIN queues[q] :
        i # j => \/ dedupId[queues[q][i]] = None
                 \/ dedupId[queues[q][i]] # dedupId[queues[q][j]]

\* Where a message is, read off the tables.
StateOf(m) ==
    IF sentTo[m] = None THEN "unsent"
    ELSE IF m \in Range(queues[sentTo[m]]) THEN "waiting"
    ELSE IF m \in inFlight THEN "inFlight"
    ELSE IF m \in deleted THEN "deleted"
    ELSE "dropped"

\* The adapter keeps the protocol's promises: no message is lost between
\* receive and delete, the death of its consumer included, none is delivered
\* after it was deleted, and none is dropped once it was waiting.
Contract == INSTANCE SqsContract WITH state <- [m \in Messages |-> StateOf(m)]
ContractSpec == Contract!Spec

-----------------------------------------------------------------------------
(***************************************************************************)
(* The inductive invariant.                                                *)
(***************************************************************************)

\* A message is in one place at a time, and in the queue it was sent to.
PlacesAreDisjoint ==
    /\ \A q \in Queues : IsInjective(queues[q])
    /\ \A q \in Queues : \A m \in Range(queues[q]) :
          sentTo[m] = q /\ attempt[m] = 1 /\ m \notin inFlight \union deleted
    /\ inFlight \intersect deleted = {}
    /\ \A c \in Consumers : holding[c] \subseteq inFlight
    /\ \A m \in Messages : sentTo[m] = None =>
          attempt[m] = 1 /\ m \notin inFlight \union deleted

SqsInv ==
    TypeOK /\ DeliveredInOrder /\ OneHolder /\ DuplicatesAreDropped /\ PlacesAreDisjoint
=============================================================================
