--------------------------- MODULE UploadContract ----------------------------
(***************************************************************************)
(* What the upload endpoint promises, without its steps or its stores: the *)
(* durable record of an upload only grows, one level at a time, and only   *)
(* while its caller waits; each kind of answer is given at the levels at   *)
(* which it is true.                                                       *)
(***************************************************************************)
CONSTANT Requests

VARIABLES
    file,           \* the file of each request, tenant included
    durable,        \* how much of each upload is durable
    reply           \* what the caller of each request was told

vars == <<file, durable, reply>>

\* Nothing, the original, also its job, also its message.
DurableLevels == {"nothing", "stored", "registered", "queued"}

Grows(from, to) ==
    <<from, to>> \in {<<"nothing", "stored">>, <<"stored", "registered">>,
                      <<"registered", "queued">>}

Init ==
    /\ durable = [r \in Requests |-> "nothing"]
    /\ reply = [r \in Requests |-> "none"]

\* One more part of the upload has become durable.
Grow(r) ==
    /\ reply[r] = "none"
    /\ \E level \in DurableLevels :
          /\ Grows(durable[r], level)
          /\ durable' = [durable EXCEPT ![r] = level]
    /\ UNCHANGED <<file, reply>>

Tell(r, what) ==
    /\ reply[r] = "none"
    /\ reply' = [reply EXCEPT ![r] = what]
    /\ UNCHANGED file

\* 202: all of it is durable.
Accept(r) ==
    /\ durable[r] = "queued"
    /\ Tell(r, "accepted")
    /\ UNCHANGED durable

\* 4xx: none of it is.
Refuse(r) ==
    /\ durable[r] = "nothing"
    /\ Tell(r, "refused")
    /\ UNCHANGED durable

\* 409: none of it is, and another upload of the file is at least stored.
RefuseDuplicate(r) ==
    /\ durable[r] = "nothing"
    /\ \E q \in Requests \ {r} : file[q] = file[r] /\ durable[q] # "nothing"
    /\ Tell(r, "duplicate")
    /\ UNCHANGED durable

\* 5xx: the outcome of the last write is unknown.
Fail(r) ==
    /\ Tell(r, "failed")
    /\ \/ UNCHANGED durable
       \/ \E level \in DurableLevels :
             /\ Grows(durable[r], level)
             /\ durable' = [durable EXCEPT ![r] = level]

\* The caller lost the connection and is told nothing.
Lose(r) ==
    /\ Tell(r, "lost")
    /\ UNCHANGED durable

Next ==
    \E r \in Requests :
        Grow(r) \/ Accept(r) \/ Refuse(r) \/ RefuseDuplicate(r) \/ Fail(r) \/ Lose(r)

Spec == Init /\ [][Next]_vars
=============================================================================
