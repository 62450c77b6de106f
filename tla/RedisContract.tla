---------------------------- MODULE RedisContract ----------------------------
(***************************************************************************)
(* What the RedisAdapter and RedisPipeline protocols promise: a map whose  *)
(* keys disappear when their time to live is over, and counters that are   *)
(* created at 1.  Values are numbers: counters are, and the contents of    *)
(* other keys are opaque.  Every method is atomic for its callers, a       *)
(* pipeline's execute included.                                            *)
(***************************************************************************)
EXTENDS Integers, Sequences

CONSTANTS
    Keys,           \* keys of the naming convention
    Clients,        \* coroutines that use the adapter
    Commands,       \* what they send: [op, key, value, ttl] records
    NoTtl,          \* the ttl of a value that never expires
    NoValue,        \* no entry, and the reply of SET and DEL
    MaxBatch,       \* bound on the commands of a pipeline
    MaxValue,       \* bound on the value of a counter
    MaxTime         \* bound on the clock

VARIABLES
    live,           \* the entries that exist: [value, expires] or NoValue
    time,           \* seconds
    batch,          \* the commands queued in the pipeline of each client
    reply           \* the replies of the last call of each client

vars == <<live, time, batch, reply>>

Init ==
    /\ live = [k \in Keys |-> NoValue]
    /\ time = 0
    /\ batch = [c \in Clients |-> << >>]
    /\ reply = [c \in Clients |-> << >>]

-----------------------------------------------------------------------------
Entry(value, ttl) ==
    [value |-> value, expires |-> IF ttl = NoTtl THEN NoTtl ELSE time + ttl]

\* INCR creates the key at 1, without expiry, and keeps the expiry it finds.
Incremented(entry) ==
    IF entry = NoValue THEN Entry(1, NoTtl) ELSE [entry EXCEPT !.value = @ + 1]

\* The entries and the replies after one command more.
Perform(done, cmd) ==
    LET db == done[1]
        new == CASE cmd.op = "set"    -> Entry(cmd.value, cmd.ttl)
                 [] cmd.op = "delete" -> NoValue
                 [] cmd.op = "incr"   -> Incremented(db[cmd.key])
    IN  << [db EXCEPT ![cmd.key] = new],
           Append(done[2], IF cmd.op = "incr" THEN new.value ELSE NoValue) >>

Get(c, k) ==
    /\ reply' = [reply EXCEPT ![c] =
                    << IF live[k] = NoValue THEN NoValue ELSE live[k].value >>]
    /\ UNCHANGED <<live, time, batch>>

\* The entries and the replies before and after each of the commands.
Performed(cmds) ==
    LET done[i \in 0..Len(cmds)] ==
            IF i = 0 THEN <<live, << >>>> ELSE Perform(done[i - 1], cmds[i])
    IN  done

\* A single command, and the commands of a pipeline in their order.
Call(c, cmds) ==
    LET done == Performed(cmds)[Len(cmds)]
    IN  live' = done[1] /\ reply' = [reply EXCEPT ![c] = done[2]]

Do(c) ==
    /\ \E cmd \in Commands : Call(c, <<cmd>>)
    /\ UNCHANGED <<time, batch>>

Queue(c) ==
    /\ \E cmd \in Commands : batch' = [batch EXCEPT ![c] = Append(@, cmd)]
    /\ UNCHANGED <<live, time, reply>>

Execute(c) ==
    /\ Call(c, batch[c])
    /\ batch' = [batch EXCEPT ![c] = << >>]
    /\ UNCHANGED time

Tick ==
    /\ time' = time + 1
    /\ live' = [k \in Keys |-> IF live[k] # NoValue /\ live[k].expires = time'
                               THEN NoValue ELSE live[k]]
    /\ UNCHANGED <<batch, reply>>

Next ==
    \/ Tick
    \/ \E c \in Clients : Do(c) \/ Queue(c) \/ Execute(c) \/ \E k \in Keys : Get(c, k)

Spec == Init /\ [][Next]_vars
=============================================================================
