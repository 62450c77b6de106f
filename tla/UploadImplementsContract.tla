---------------------- MODULE UploadImplementsContract -----------------------
(***************************************************************************)
(* UploadPipeline implements UploadContract: the level of an upload is read *)
(* off the stores, the reply off the answer.  The sentinel and the cache    *)
(* are invisible in the contract.                                           *)
(***************************************************************************)
EXTENDS UploadPipeline

DurableLevel(r) ==
    IF r \in queue THEN "queued"
    ELSE IF r \in jobs THEN "registered"
    ELSE IF r \in original THEN "stored"
    ELSE "nothing"

ReplyMeant(status) ==
    CASE status = 0   -> "none"
      [] status = 202 -> "accepted"
      [] status = 409 -> "duplicate"
      [] status = 500 -> "failed"
      [] OTHER        -> "refused"

ReplyTo(r) == IF step[r] = "crashed" THEN "lost" ELSE ReplyMeant(answer[r].status)

Contract == INSTANCE UploadContract WITH
    file <- [r \in Requests |-> <<input[r].tenant, input[r].body>>],
    durable <- [r \in Requests |-> DurableLevel(r)],
    reply <- [r \in Requests |-> ReplyTo(r)]

\* Every behaviour of the handler is one the contract allows: nothing of an
\* upload appears in the stores after its caller was answered or lost, nothing
\* is skipped or undone, and each answer is true of the stores when it is given.
ContractSpec == Contract!Spec
=============================================================================
