----------------------------- MODULE MCFakeRedis -----------------------------
(***************************************************************************)
(* Instances of FakeRedis for TLC.                                         *)
(***************************************************************************)
EXTENDS FakeRedis, TLC

Cmd(op, key, ttl) == [op |-> op, key |-> key, value |-> 1, ttl |-> ttl]

\* The keys of docs/04-data-stores.md 4.1: an epoch counter lives for good, the
\* counter of repeated questions is one with a ttl.
CounterCommands ==
    {Cmd("incr", "epoch", NoTtl), Cmd("delete", "dup", NoTtl),
     Cmd("set", "dup", 1), Cmd("incr", "dup", NoTtl)}

\* A counter with a ttl and nothing else.
DupCommands == {Cmd("set", "dup", 1), Cmd("incr", "dup", NoTtl)}

ClientSymmetry == Permutations(Clients)

=============================================================================
