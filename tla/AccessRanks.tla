------------------------------ MODULE AccessRanks ------------------------------
(***************************************************************************)
(* The ranks of levels: what is written next to a document at indexing     *)
(* time and compared with the caller's at query time.                      *)
(***************************************************************************)
EXTENDS Integers, FiniteSetsExt

CONSTANT NoRank     \* the None of a level or a list of levels without rank

\* From the lowest to the highest; LEVEL_RANK numbers them from 1.
LevelOrder ==
    <<"SAWON", "JUIM", "DAERI", "GWAJANG", "CHAJANG",
      "BUJANG", "ISA", "SANGMU", "JUNMU", "SAJANG">>
Level == {LevelOrder[i] : i \in 1..10}
LEVEL_RANK == [l \in Level |-> CHOOSE i \in 1..10 : LevelOrder[i] = l]

\* Fail-closed: a level that is not known has no rank.
level_rank_of(l) == IF l \in Level THEN LEVEL_RANK[l] ELSE NoRank

\* Mutant of min_level_rank: the highest rank of the allowed levels.
MaxLevelRank(allowed) ==
    LET ranks == {level_rank_of(l) : l \in allowed} \ {NoRank}
    IN  IF ranks = {} THEN NoRank ELSE Max(ranks)

min_level_rank(allowed) ==
    LET ranks == {level_rank_of(l) : l \in allowed} \ {NoRank}
    IN  IF ranks = {} THEN NoRank ELSE Min(ranks)
=============================================================================
