------------------------------ MODULE FakeRedis ------------------------------
(***************************************************************************)
(* The in-memory RedisAdapter, the only implementation of the protocol in  *)
(* the repository.  An entry keeps the time it expires at and stays in the *)
(* store after it: each method decides for itself whether to look at it,   *)
(* and only get removes it.  A pipeline collects commands and runs them in *)
(* one go, on code of its own.  No method awaits anything: each is atomic. *)
(***************************************************************************)
EXTENDS Integers, Sequences, FiniteSetsExt

CONSTANTS
    Keys,           \* keys _validate_key_format accepts
    Clients,        \* coroutines that use the adapter
    Commands,       \* what they send: [op, key, value, ttl] records
    NoTtl,          \* ttl_s is None, and expires_at of such an entry
    NoValue,        \* no entry, and the reply of SET and DEL
    MaxBatch,       \* bound on the commands of a pipeline
    MaxValue,       \* bound on the value of a counter
    MaxTime         \* bound on the clock

\* A ttl is positive.  A counter may have one: set gives it, incr keeps it.
ASSUME CommandsAssumption ==
    /\ \A cmd \in Commands :
          /\ cmd.op \in {"set", "delete", "incr"}
          /\ cmd.key \in Keys /\ cmd.value \in Int /\ cmd.ttl \in (Nat \ {0}) \union {NoTtl}
    /\ NoTtl \notin Nat
    /\ NoValue \notin [value : Int, expires : Nat \union {NoTtl}]

VARIABLES
    store,          \* _store: [value, expires] records, live or not, or NoValue
    now,            \* _clock.now(), in seconds
    batch,          \* _commands of the pipeline of each client
    reply           \* what the last call of each client returned, as a sequence

vars == <<store, now, batch, reply>>

Init ==
    /\ store = [k \in Keys |-> NoValue]
    /\ now = 0
    /\ batch = [c \in Clients |-> << >>]
    /\ reply = [c \in Clients |-> << >>]

-----------------------------------------------------------------------------
IsAlive(entry) ==
    entry # NoValue /\ (entry.expires # NoTtl => now < entry.expires)

Entry(value, ttl) ==
    [value |-> value, expires |-> IF ttl = NoTtl THEN NoTtl ELSE now + ttl]

\* incr of the adapter: an expired value counts as 0, but its expiry is kept.
Incr(entry) ==
    [value   |-> IF IsAlive(entry) THEN entry.value + 1 ELSE 1,
     expires |-> IF entry = NoValue THEN NoTtl ELSE entry.expires]

\* incr of the pipeline does not ask whether the entry has expired.
PipelineIncr(entry) ==
    IF entry = NoValue THEN [value |-> 1, expires |-> NoTtl]
                       ELSE [entry EXCEPT !.value = @ + 1]

\* The store and the replies after one command more of a pipeline.
ExecuteCommand(done, cmd) ==
    LET new == CASE cmd.op = "set"    -> Entry(cmd.value, cmd.ttl)
                 [] cmd.op = "delete" -> NoValue
                 [] cmd.op = "incr"   -> PipelineIncr(done[1][cmd.key])
    IN  << [done[1] EXCEPT ![cmd.key] = new],
           Append(done[2], IF cmd.op = "incr" THEN new.value ELSE NoValue) >>

\* What the commands of a pipeline make of the store, one after another.
Outcomes(cmds) ==
    LET done[i \in 0..Len(cmds)] ==
            IF i = 0 THEN <<store, << >>>> ELSE ExecuteCommand(done[i - 1], cmds[i])
    IN  done

Returns(c, value) == reply' = [reply EXCEPT ![c] = <<value>>]

-----------------------------------------------------------------------------
Get(c, k) ==
    /\ IF IsAlive(store[k])
       THEN Returns(c, store[k].value) /\ UNCHANGED store
       ELSE Returns(c, NoValue) /\ store' = [store EXCEPT ![k] = NoValue]
    /\ UNCHANGED <<now, batch>>

Set(c, k, value, ttl) ==
    /\ store' = [store EXCEPT ![k] = Entry(value, ttl)]
    /\ Returns(c, NoValue)
    /\ UNCHANGED <<now, batch>>

Delete(c) ==
    /\ \E cmd \in Commands :
          /\ cmd.op = "delete"
          /\ store' = [store EXCEPT ![cmd.key] = NoValue]
    /\ Returns(c, NoValue)
    /\ UNCHANGED <<now, batch>>

Increment(c) ==
    /\ \E cmd \in Commands :
          /\ cmd.op = "incr"
          /\ store[cmd.key] # NoValue => store[cmd.key].value < MaxValue
          /\ store' = [store EXCEPT ![cmd.key] = Incr(@)]
          /\ Returns(c, Incr(store[cmd.key]).value)
    /\ UNCHANGED <<now, batch>>

\* set, delete and incr of a pipeline only queue.
Queue(c) ==
    /\ Len(batch[c]) < MaxBatch
    /\ \E cmd \in Commands : batch' = [batch EXCEPT ![c] = Append(@, cmd)]
    /\ UNCHANGED <<store, now, reply>>

\* Mutant of Execute: every command reads the store as it was before the batch.
ExecuteOnSnapshot(c) ==
    /\ LET each == [i \in DOMAIN batch[c] |-> ExecuteCommand(<<store, << >>>>, batch[c][i])]
           On(k) == {i \in DOMAIN batch[c] : batch[c][i].key = k}
       IN  /\ store' = [k \in Keys |-> IF On(k) = {} THEN store[k]
                                       ELSE each[Max(On(k))][1][k]]
           /\ reply' = [reply EXCEPT ![c] = [i \in DOMAIN batch[c] |-> each[i][2][1]]]
    /\ batch' = [batch EXCEPT ![c] = << >>]
    /\ UNCHANGED now

Execute(c) ==
    /\ LET done == Outcomes(batch[c])[Len(batch[c])]
       IN  store' = done[1] /\ reply' = [reply EXCEPT ![c] = done[2]]
    /\ \A k \in Keys : store'[k] # NoValue => store'[k].value <= MaxValue
    /\ batch' = [batch EXCEPT ![c] = << >>]
    /\ UNCHANGED now

AdvanceTime ==
    /\ now < MaxTime
    /\ now' = now + 1
    /\ UNCHANGED <<store, batch, reply>>

Next ==
    \/ AdvanceTime
    \/ \E c \in Clients :
          \/ \E k \in Keys : Get(c, k)
          \/ \E cmd \in Commands : cmd.op = "set" /\ Set(c, cmd.key, cmd.value, cmd.ttl)
          \/ Delete(c) \/ Increment(c) \/ Queue(c) \/ Execute(c)

Spec == Init /\ [][Next]_vars

-----------------------------------------------------------------------------
\* The entries a caller can see.
Live == [k \in Keys |-> IF IsAlive(store[k]) THEN store[k] ELSE NoValue]

\* Keys whose entry has expired and is still in the store.
Spent == {k \in Keys : store[k] # NoValue /\ ~IsAlive(store[k])}

\* Spent keys that a pipeline of these commands increments.
SpoiltBy(cmds) ==
    {k \in Spent : \E i \in DOMAIN cmds : cmds[i].op = "incr" /\ cmds[i].key = k}

Contract == INSTANCE RedisContract WITH live <- Live, time <- now

\* The methods keep the protocol's promises: expired entries do not show, and a
\* pipeline does what its commands would do one by one.  infra/redis.py:158-164
\* says of incr that a key that does not exist is created with the value 1.
ContractSpec == Contract!Spec

\* A single increment of a spent key answers 1 and creates nothing: the entry
\* keeps the expiry that is over.
SpentStaysSpent(c) ==
    /\ \E cmd \in Commands : cmd.op = "incr" /\ cmd.key \in Spent
    /\ reply' = [reply EXCEPT ![c] = <<1>>]
    /\ UNCHANGED <<Live, now, batch>>

\* A pipeline that increments spent keys fails for these only: what is seen of
\* every other key, and every reply about one, is what the commands promise.
OthersAsPromised(c) ==
    LET spoilt   == SpoiltBy(batch[c])
        promised == Contract!Performed(batch[c])[Len(batch[c])]
    IN  /\ spoilt # {}
        /\ \A k \in Keys \ spoilt : Live'[k] = promised[1][k]
        /\ Len(reply'[c]) = Len(batch[c])
        /\ \A i \in DOMAIN batch[c] :
              batch[c][i].key \notin spoilt => reply'[c][i] = promised[2][i]
        /\ \A d \in Clients \ {c} : reply'[d] = reply[d]
        /\ batch' = [batch EXCEPT ![c] = << >>]
        /\ UNCHANGED now

\* The adapter keeps the protocol's promises in every step but those that
\* increment a key whose entry has expired; such a step answers or counts wrongly
\* for that key and for no other (fake_redis.py:152-158, 290-295).
ContractButForSpent ==
    Contract!Init /\
    [][Contract!Next \/ \E c \in Clients : SpentStaysSpent(c) \/ OthersAsPromised(c)]_<<Live, now, batch, reply>>
=============================================================================
