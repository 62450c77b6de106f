---------------------------- MODULE FakeSqsProofs ----------------------------
(***************************************************************************)
(* Proofs about FakeSqs, for any messages, queues, consumers and ids.      *)
(* What a send and a receive do to one list is proved first, of sequences; *)
(* a step of the specification then changes one list that way.             *)
(***************************************************************************)
EXTENDS FakeSqs, SequenceTheorems, TLAPS

\* s is the end of l.
IsTail(s, l) ==
    /\ Len(l) - Len(s) >= 0
    /\ \A i \in 1..Len(s) : s[i] = l[(Len(l) - Len(s)) + i]

\* No two messages of s have the same id in ids.
NoTwins(s, ids) ==
    \A i, j \in 1..Len(s) :
        i # j => ids[s[i]] = None \/ ids[s[i]] # ids[s[j]]

\* No message is twice in s.
NoRepeats(s) == \A i, j \in 1..Len(s) : s[i] = s[j] => i = j

\* The properties of the model say these of every list.
LEMMA ListProperties ==
    ASSUME queues \in [Queues -> Seq(Messages)]
    PROVE  /\ DuplicatesAreDropped <=> \A q \in Queues : NoTwins(queues[q], dedupId)
           /\ (\A q \in Queues : IsInjective(queues[q]))
                 <=> (\A q \in Queues : NoRepeats(queues[q]))
<1>1. \A q \in Queues : DOMAIN queues[q] = 1..Len(queues[q])
  OBVIOUS
<1>2. DuplicatesAreDropped <=> \A q \in Queues : NoTwins(queues[q], dedupId)
  BY <1>1 DEF DuplicatesAreDropped, NoTwins
<1>3. \A q \in Queues : IsInjective(queues[q]) <=> NoRepeats(queues[q])
  BY <1>1 DEF IsInjective, NoRepeats
<1>. QED
  BY <1>2, <1>3

\* The same, after a step.
LEMMA ListPropertiesNext ==
    ASSUME queues' \in [Queues -> Seq(Messages)]
    PROVE  /\ DuplicatesAreDropped' <=> \A q \in Queues : NoTwins(queues'[q], dedupId')
           /\ (\A q \in Queues : IsInjective(queues'[q]))
                 <=> (\A q \in Queues : NoRepeats(queues'[q]))
<1>1. \A q \in Queues : DOMAIN queues'[q] = 1..Len(queues'[q])
  OBVIOUS
<1>2. DuplicatesAreDropped' <=> \A q \in Queues : NoTwins(queues'[q], dedupId')
  BY <1>1 DEF DuplicatesAreDropped, NoTwins
<1>3. \A q \in Queues : IsInjective(queues'[q]) <=> NoRepeats(queues'[q])
  BY <1>1 DEF IsInjective, NoRepeats
<1>. QED
  BY <1>2, <1>3

-----------------------------------------------------------------------------
\* The members of a sequence, and of the sequence with one more.
LEMMA RangeOfAppend ==
    ASSUME NEW S, NEW s \in Seq(S)
    PROVE  /\ Range(s) = {s[i] : i \in 1..Len(s)} /\ Range(s) \subseteq S
           /\ \A x \in S : Range(Append(s, x)) = Range(s) \union {x}
<1>1. Range(s) = {s[i] : i \in 1..Len(s)}
  BY DEF Range
<1>2. ASSUME NEW x \in S PROVE Range(Append(s, x)) = Range(s) \union {x}
  <2>1. /\ DOMAIN Append(s, x) = 1..(Len(s) + 1)
        /\ \A i \in 1..Len(s) : Append(s, x)[i] = s[i]
        /\ Append(s, x)[Len(s) + 1] = x
    BY AppendProperties
  <2>. QED
    BY <2>1 DEF Range
<1>. QED
  BY <1>1, <1>2

\* What was handed out and what waits, with one new message at the end.
LEMMA AppendKeepsOrder ==
    \A h, s \in Seq(Messages) : \A x \in Messages :
        Append(h \o s, x) = h \o Append(s, x)
<1>. SUFFICES ASSUME NEW h \in Seq(Messages), NEW s \in Seq(Messages), NEW x \in Messages
              PROVE  Append(h \o s, x) = h \o Append(s, x)
  OBVIOUS
<1>. DEFINE one == << x >>
            list == h \o s
<1>1. one \in Seq(Messages)
  OBVIOUS
<1>2. list \in Seq(Messages) /\ Append(s, x) = s \o one
  BY ConcatProperties, AppendIsConcat
<1>. HIDE DEF list
<1>3. Append(list, x) = list \o one
  BY <1>2, AppendIsConcat DEF one
<1>. HIDE DEF one
<1>4. (h \o s) \o one = h \o (s \o one)
  <2>1. \A u \in Seq(Messages) : (h \o s) \o u = h \o (s \o u)
    BY ConcatAssociative
  <2>. QED
    BY <1>1, <2>1, Zenon
<1>. QED
  BY <1>2, <1>3, <1>4, Zenon DEF list

\* A new message at the end of a list without repetitions.
LEMMA AppendKeeps ==
    ASSUME NEW S, NEW s \in Seq(S), NEW x \in S,
           NoRepeats(s), x \notin Range(s)
    PROVE  NoRepeats(Append(s, x))
<1>1. /\ Len(s) \in Nat /\ Len(Append(s, x)) = Len(s) + 1
      /\ \A i \in 1..Len(s) : Append(s, x)[i] = s[i]
      /\ Append(s, x)[Len(s) + 1] = x
  BY AppendProperties
<1>2. \A i \in 1..Len(s) : s[i] # x
  BY RangeOfAppend
<1>3. ASSUME NEW i \in 1..(Len(s) + 1), NEW j \in 1..(Len(s) + 1),
             Append(s, x)[i] = Append(s, x)[j]
      PROVE  i = j
  <2>1. CASE i \in 1..Len(s) /\ j \in 1..Len(s)
    BY <1>1, <1>3, <2>1 DEF NoRepeats
  <2>2. CASE i = Len(s) + 1 /\ j \in 1..Len(s)
    BY <1>1, <1>2, <1>3, <2>2
  <2>3. CASE j = Len(s) + 1 /\ i \in 1..Len(s)
    BY <1>1, <1>2, <1>3, <2>3
  <2>. QED
    BY <1>1, <2>1, <2>2, <2>3
<1>. QED
  BY <1>1, <1>3 DEF NoRepeats

\* A message whose id is not in the list, or has none, joins it without a twin.
LEMMA AppendKeepsApart ==
    ASSUME NEW S, NEW s \in Seq(S), NEW x \in S, NEW ids,
           NoTwins(s, ids), \A y \in Range(s) : ids[x] = None \/ ids[y] # ids[x]
    PROVE  NoTwins(Append(s, x), ids)
<1>1. /\ Len(s) \in Nat /\ Len(Append(s, x)) = Len(s) + 1
      /\ \A i \in 1..Len(s) : Append(s, x)[i] = s[i]
      /\ Append(s, x)[Len(s) + 1] = x
  BY AppendProperties
<1>2. \A i \in 1..Len(s) : ids[x] = None \/ ids[s[i]] # ids[x]
  BY RangeOfAppend
<1>3. ASSUME NEW i \in 1..(Len(s) + 1), NEW j \in 1..(Len(s) + 1), i # j
      PROVE  \/ ids[Append(s, x)[i]] = None
             \/ ids[Append(s, x)[i]] # ids[Append(s, x)[j]]
  <2>1. CASE i \in 1..Len(s) /\ j \in 1..Len(s)
    BY <1>1, <1>3, <2>1 DEF NoTwins
  <2>2. CASE i = Len(s) + 1 /\ j \in 1..Len(s)
    BY <1>1, <1>2, <2>2
  <2>3. CASE j = Len(s) + 1 /\ i \in 1..Len(s)
    BY <1>1, <1>2, <2>3
  <2>. QED
    BY <1>1, <1>3, <2>1, <2>2, <2>3
<1>. QED
  BY <1>1, <1>3 DEF NoTwins

\* What a receive leaves is the end of the list; what it takes is the rest.
LEMMA ReceiveSplits ==
    ASSUME NEW S, NEW s \in Seq(S), NEW max \in Nat,
           NEW k \in Nat, k = IF max < Len(s) THEN max ELSE Len(s)
    PROVE  LET head == SubSeq(s, 1, k)
               rest == SubSeq(s, max + 1, Len(s))
           IN  /\ head \in Seq(S) /\ rest \in Seq(S)
               /\ s = head \o rest
               /\ IsTail(rest, s)
               /\ Range(s) = Range(head) \union Range(rest)
               /\ NoRepeats(s) => Range(head) \intersect Range(rest) = {}
<1>. DEFINE head == SubSeq(s, 1, k)
            rest == SubSeq(s, max + 1, Len(s))
<1>1. Len(s) \in Nat /\ k <= Len(s) /\ \A i \in 1..Len(s) : s[i] \in S
  OBVIOUS
<1>2. /\ head \in Seq(S) /\ Len(head) = k
      /\ \A i \in 1..k : head[i] = s[i]
  BY <1>1, SubSeqProperties
<1>3. /\ rest \in Seq(S)
      /\ Len(rest) = Len(s) - k
      /\ \A i \in 1..(Len(s) - k) : rest[i] = s[k + i]
  <2>1. \A i \in (max + 1)..Len(s) : s[i] \in S
    BY <1>1
  <2>2. /\ rest \in Seq(S)
        /\ Len(rest) = IF max + 1 <= Len(s) THEN Len(s) - (max + 1) + 1 ELSE 0
        /\ \A i \in 1..(Len(s) - (max + 1) + 1) : rest[i] = s[(max + 1) + i - 1]
    BY <1>1, <2>1, SubSeqProperties
  <2>3. CASE max < Len(s)
    BY <1>1, <2>2, <2>3
  <2>4. CASE ~(max < Len(s))
    BY <1>1, <2>2, <2>4
  <2>. QED
    BY <2>3, <2>4
<1>. HIDE DEF head, rest
<1>4. s = head \o rest /\ IsTail(rest, s)
  <2>. DEFINE list == head \o rest
  <2>1. /\ list \in Seq(S) /\ Len(list) = Len(head) + Len(rest)
        /\ \A i \in 1..(Len(head) + Len(rest)) :
              list[i] = IF i <= Len(head) THEN head[i] ELSE rest[i - Len(head)]
    BY <1>2, <1>3, ConcatProperties
  <2>. HIDE DEF list
  <2>2. Len(s) = Len(list) /\ \A i \in 1..Len(s) :
           list[i] = IF i <= k THEN head[i] ELSE rest[i - k]
    BY <1>1, <1>2, <1>3, <2>1
  <2>3. ASSUME NEW i \in 1..Len(s) PROVE s[i] = list[i]
    <3>1. CASE i <= k
      BY <1>2, <2>2, <3>1
    <3>2. CASE ~(i <= k)
      <4>1. i - k \in 1..(Len(s) - k) /\ k + (i - k) = i
        BY <1>1, <3>2
      <4>2. rest[i - k] = s[k + (i - k)]
        BY <1>3, <4>1
      <4>. QED
        BY <2>2, <3>2, <4>1, <4>2
    <3>. QED
      BY <3>1, <3>2
  <2>4. s = list
    BY <2>1, <2>2, <2>3, SeqEqual
  <2>5. IsTail(rest, s)
    BY <1>1, <1>3 DEF IsTail
  <2>. QED
    BY <2>4, <2>5 DEF list
<1>5. /\ \A y : y \in Range(s) <=> \E i \in 1..Len(s) : y = s[i]
      /\ \A y : y \in Range(head) <=> \E i \in 1..k : y = s[i]
      /\ \A y : y \in Range(rest) <=> \E i \in 1..(Len(s) - k) : y = s[k + i]
  <2>1. /\ Range(s) = {s[i] : i \in 1..Len(s)}
        /\ Range(head) = {head[i] : i \in 1..Len(head)}
        /\ Range(rest) = {rest[i] : i \in 1..Len(rest)}
    BY <1>2, <1>3, RangeOfAppend
  <2>2. \A y : y \in Range(head) <=> \E i \in 1..k : y = s[i]
    <3>1. \A y : y \in Range(head) <=> \E i \in 1..Len(head) : y = head[i]
      BY <2>1
    <3>2. 1..Len(head) = 1..k
      BY <1>2
    <3>. QED
      BY <1>2, <3>1, <3>2
  <2>3. \A y : y \in Range(rest) <=> \E i \in 1..(Len(s) - k) : y = s[k + i]
    <3>1. \A y : y \in Range(rest) <=> \E i \in 1..Len(rest) : y = rest[i]
      BY <2>1
    <3>2. 1..Len(rest) = 1..(Len(s) - k)
      BY <1>3
    <3>3. \A y : y \in Range(rest) <=> \E i \in 1..(Len(s) - k) : y = rest[i]
      BY <3>1, <3>2, Zenon
    <3>4. \A i \in 1..(Len(s) - k) : rest[i] = s[k + i]
      BY <1>3
    <3>5. ASSUME NEW y, y \in Range(rest) PROVE \E i \in 1..(Len(s) - k) : y = s[k + i]
      <4>1. PICK i \in 1..(Len(s) - k) : y = rest[i]
        BY <3>3, <3>5
      <4>. QED
        BY <3>4, <4>1
    <3>6. ASSUME NEW i \in 1..(Len(s) - k) PROVE s[k + i] \in Range(rest)
      <4>1. rest[i] \in Range(rest)
        BY <3>3
      <4>. QED
        BY <3>4, <4>1
    <3>. QED
      BY <3>5, <3>6
  <2>. QED
    BY <2>1, <2>2, <2>3
<1>6. Range(s) = Range(head) \union Range(rest)
  <2>1. \A i \in 1..Len(s) : s[i] \in Range(head) \union Range(rest)
    <3>1. ASSUME NEW i \in 1..Len(s) PROVE s[i] \in Range(head) \union Range(rest)
      <4>1. CASE i <= k
        BY <1>1, <1>5, <4>1
      <4>2. CASE i > k
        <5>1. i - k \in 1..(Len(s) - k) /\ s[k + (i - k)] = s[i]
          BY <1>1, <4>2
        <5>. QED
          BY <1>5, <5>1
      <4>. QED
        BY <1>1, <4>1, <4>2
    <3>. QED
      BY <3>1
  <2>2. Range(head) \subseteq Range(s)
    <3>1. \A i \in 1..k : i \in 1..Len(s)
      BY <1>1
    <3>. QED
      BY <1>5, <3>1
  <2>3. Range(rest) \subseteq Range(s)
    <3>1. \A i \in 1..(Len(s) - k) : k + i \in 1..Len(s)
      BY <1>1
    <3>. QED
      BY <1>5, <3>1
  <2>4. Range(s) \subseteq Range(head) \union Range(rest)
    BY <1>5, <2>1
  <2>. QED
    BY <2>2, <2>3, <2>4
<1>7. NoRepeats(s) => Range(head) \intersect Range(rest) = {}
  <2>. SUFFICES ASSUME NoRepeats(s), NEW y \in Range(head), y \in Range(rest) PROVE FALSE
    OBVIOUS
  <2>1. PICK i \in 1..k : y = s[i]
    BY <1>5
  <2>2. PICK j \in 1..(Len(s) - k) : y = s[k + j]
    BY <1>5
  <2>3. i \in 1..Len(s) /\ k + j \in 1..Len(s) /\ i # k + j
    BY <1>1
  <2>. QED
    BY <2>1, <2>2, <2>3 DEF NoRepeats
<1>. QED
  BY <1>2, <1>3, <1>4, <1>6, <1>7 DEF head, rest

\* The end of a list has what the list has.
LEMMA TailKeeps ==
    ASSUME NEW S, NEW s \in Seq(S), NEW t \in Seq(S), NEW ids, IsTail(t, s)
    PROVE  /\ NoRepeats(s) => NoRepeats(t)
           /\ NoTwins(s, ids) => NoTwins(t, ids)
<1>1. Len(s) \in Nat /\ Len(t) \in Nat
  OBVIOUS
<1>2. /\ Len(s) - Len(t) >= 0
      /\ \A i \in 1..Len(t) : /\ t[i] = s[(Len(s) - Len(t)) + i]
                              /\ (Len(s) - Len(t)) + i \in 1..Len(s)
  BY <1>1 DEF IsTail
<1>3. \A i, j \in 1..Len(t) :
         i # j => (Len(s) - Len(t)) + i # (Len(s) - Len(t)) + j
  BY <1>1
<1>4. NoRepeats(s) => NoRepeats(t)
  BY <1>2, <1>3 DEF NoRepeats
<1>5. ASSUME NoTwins(s, ids) PROVE NoTwins(t, ids)
  <2>1. ASSUME NEW i \in 1..Len(t), NEW j \in 1..Len(t), i # j
        PROVE  ids[t[i]] = None \/ ids[t[i]] # ids[t[j]]
    <3>1. PICK a \in 1..Len(s) : a = (Len(s) - Len(t)) + i /\ t[i] = s[a]
      BY <1>2
    <3>2. PICK b \in 1..Len(s) : b = (Len(s) - Len(t)) + j /\ t[j] = s[b]
      BY <1>2
    <3>3. a # b
      BY <1>1, <2>1, <3>1, <3>2
    <3>. QED
      BY <1>5, <3>1, <3>2, <3>3 DEF NoTwins
  <2>. QED
    BY <2>1 DEF NoTwins
<1>. QED
  BY <1>4, <1>5

-----------------------------------------------------------------------------
\* The lists start empty.
LEMMA SqsInitially ==
    Init => SqsInv
<1>. SUFFICES ASSUME Init PROVE SqsInv
  OBVIOUS
<1>1. /\ \A q \in Queues : queues[q] = << >> /\ log[q] = << >> /\ handed[q] = << >>
      /\ queues \in [Queues -> Seq(Messages)] /\ log \in [Queues -> Seq(Messages)]
      /\ handed \in [Queues -> Seq(Messages)]
  BY DEF Init
<1>2. NoRepeats(<< >>) /\ NoTwins(<< >>, dedupId)
  BY DEF NoRepeats, NoTwins
<1>3. DuplicatesAreDropped /\ \A q \in Queues : IsInjective(queues[q])
  BY <1>1, <1>2, ListProperties
<1>4. \A q \in Queues : Range(queues[q]) = {}
  BY <1>1 DEF Range
<1>5. TypeOK /\ OneHolder
  BY <1>1, <1>4 DEF Init, TypeOK, OneHolder
<1>6. PlacesAreDisjoint
  BY <1>3, <1>4 DEF Init, PlacesAreDisjoint
<1>7. DeliveredInOrder
  BY <1>1 DEF DeliveredInOrder
<1>. QED
  BY <1>3, <1>5, <1>6, <1>7 DEF SqsInv

\* A message joins the end of its queue, or a duplicate joins none.
LEMMA SendStep ==
    ASSUME SqsInv, NEW m \in Messages, NEW q \in Queues, NEW id \in DedupIds \union {None},
           Send(m, q, id)
    PROVE  SqsInv'
<1>1. /\ TypeOK /\ DeliveredInOrder /\ OneHolder /\ DuplicatesAreDropped /\ PlacesAreDisjoint
      /\ sentTo[m] = None /\ q # None
      /\ queues \in [Queues -> Seq(Messages)] /\ log \in [Queues -> Seq(Messages)]
      /\ handed \in [Queues -> Seq(Messages)]
  BY SqsAssumption DEF SqsInv, Send, TypeOK
<1>2. /\ inFlight' = inFlight /\ attempt' = attempt /\ deadline' = deadline
      /\ holding' = holding /\ handed' = handed /\ deleted' = deleted
      /\ sentTo' \in [Messages -> Queues \union {None}]
      /\ dedupId' \in [Messages -> DedupIds \union {None}]
      /\ sentTo'[m] = q /\ dedupId'[m] = id
      /\ \A n \in Messages \ {m} : sentTo'[n] = sentTo[n] /\ dedupId'[n] = dedupId[n]
  BY <1>1 DEF Send, TypeOK
<1>3. /\ \A p \in Queues : m \notin Range(queues[p])
      /\ m \notin inFlight \union deleted /\ attempt[m] = 1
      /\ \A c \in Consumers : m \notin holding[c]
  <2>1. \A p \in Queues : sentTo[m] # p
    BY <1>1, SqsAssumption
  <2>2. m \notin inFlight \union deleted /\ attempt[m] = 1
    BY <1>1 DEF PlacesAreDisjoint
  <2>. QED
    BY <1>1, <2>1, <2>2 DEF PlacesAreDisjoint
<1>4. \A p \in Queues : Range(queues[p]) \subseteq Messages \ {m}
  BY <1>1, <1>3, RangeOfAppend
<1>5. \A p \in Queues : NoRepeats(queues[p])
  BY <1>1, ListProperties DEF PlacesAreDisjoint
<1>6. \A p \in Queues : NoTwins(queues[p], dedupId')
  <2>1. ASSUME NEW p \in Queues PROVE NoTwins(queues[p], dedupId')
    <3>1. \A i \in 1..Len(queues[p]) : queues[p][i] \in Range(queues[p])
      BY <1>1 DEF Range
    <3>2. \A i \in 1..Len(queues[p]) : dedupId'[queues[p][i]] = dedupId[queues[p][i]]
      BY <1>2, <1>4, <3>1
    <3>3. NoTwins(queues[p], dedupId)
      BY <1>1, ListProperties
    <3>. QED
      BY <3>2, <3>3 DEF NoTwins
  <2>. QED
    BY <2>1
<1>7. \A p \in Queues :
         \/ queues'[p] = queues[p] /\ log'[p] = log[p]
         \/ /\ queues'[p] = Append(queues[p], m) /\ log'[p] = Append(log[p], m)
            /\ p = q /\ ~(id # None /\ HasDedup(q, id))
  BY <1>1 DEF Send
<1>8. queues' \in [Queues -> Seq(Messages)] /\ log' \in [Queues -> Seq(Messages)]
  <2>1. Append(queues[q], m) \in Seq(Messages) /\ Append(log[q], m) \in Seq(Messages)
    BY <1>1, AppendProperties
  <2>. QED
    BY <1>1, <2>1 DEF Send
<1>9. ASSUME NEW p \in Queues
      PROVE  /\ log'[p] = handed'[p] \o queues'[p]
             /\ NoRepeats(queues'[p]) /\ NoTwins(queues'[p], dedupId')
             /\ Range(queues'[p]) \subseteq Range(queues[p]) \union (IF p = q THEN {m} ELSE {})
  <2>1. /\ queues[p] \in Seq(Messages) /\ handed[p] \in Seq(Messages)
        /\ log[p] = handed[p] \o queues[p] /\ handed'[p] = handed[p]
    BY <1>1, <1>2 DEF DeliveredInOrder
  <2>2. CASE queues'[p] = queues[p] /\ log'[p] = log[p]
    BY <1>5, <1>6, <2>1, <2>2
  <2>3. CASE /\ queues'[p] = Append(queues[p], m) /\ log'[p] = Append(log[p], m)
             /\ p = q /\ ~(id # None /\ HasDedup(q, id))
    <3>1. NoRepeats(queues'[p])
      BY <1>3, <1>5, <2>1, <2>3, AppendKeeps
    <3>2. Range(queues'[p]) = Range(queues[p]) \union {m}
      BY <2>1, <2>3, RangeOfAppend
    <3>3. \A y \in Range(queues[p]) : dedupId'[m] = None \/ dedupId'[y] # dedupId'[m]
      BY <1>2, <1>4, <2>3 DEF HasDedup
    <3>4. NoTwins(Append(queues[p], m), dedupId')
      BY <1>6, <2>1, <3>3, AppendKeepsApart
    <3>5. log'[p] = handed'[p] \o queues'[p]
      <4>1. Append(handed[p] \o queues[p], m) = handed[p] \o Append(queues[p], m)
        BY <2>1, AppendKeepsOrder, Zenon
      <4>2. log'[p] = Append(handed[p] \o queues[p], m)
        BY <2>1, <2>3, Zenon
      <4>. QED
        BY <2>1, <2>3, <4>1, <4>2, Zenon
    <3>. QED
      BY <2>3, <3>1, <3>2, <3>4, <3>5
  <2>. QED
    BY <1>7, <2>2, <2>3
<1>10. DeliveredInOrder' /\ DuplicatesAreDropped' /\ \A p \in Queues : IsInjective(queues'[p])
  BY <1>8, <1>9, ListPropertiesNext DEF DeliveredInOrder
<1>11. TypeOK'
  BY <1>1, <1>2, <1>8 DEF TypeOK
<1>12. OneHolder'
  BY <1>1, <1>2, <1>3, <1>9 DEF OneHolder
<1>13. PlacesAreDisjoint'
  <2>1. ASSUME NEW p \in Queues, NEW n \in Range(queues'[p])
        PROVE  sentTo'[n] = p /\ attempt'[n] = 1 /\ n \notin inFlight' \union deleted'
    <3>1. CASE n \in Range(queues[p])
      BY <1>1, <1>2, <1>4, <3>1 DEF PlacesAreDisjoint
    <3>2. CASE n = m /\ p = q
      BY <1>2, <1>3, <3>2
    <3>. QED
      BY <1>9, <3>1, <3>2
  <2>2. \A n \in Messages : sentTo'[n] = None =>
           attempt'[n] = 1 /\ n \notin inFlight' \union deleted'
    BY <1>1, <1>2 DEF PlacesAreDisjoint
  <2>3. /\ inFlight' \intersect deleted' = {}
        /\ \A c \in Consumers : holding'[c] \subseteq inFlight'
    BY <1>1, <1>2 DEF PlacesAreDisjoint
  <2>. QED
    BY <1>10, <2>1, <2>2, <2>3 DEF PlacesAreDisjoint
<1>. QED
  BY <1>10, <1>11, <1>12, <1>13 DEF SqsInv

\* A receive moves the beginning of one list to its consumer.
LEMMA ReceiveStep ==
    ASSUME SqsInv, NEW c \in Consumers, NEW q \in Queues, NEW max \in 1..MaxMessages,
           Receive(c, q, max)
    PROVE  SqsInv'
<1>. DEFINE batch == Range(Taken(q, max))
<1>1. /\ TypeOK /\ DeliveredInOrder /\ OneHolder /\ DuplicatesAreDropped /\ PlacesAreDisjoint
      /\ queues \in [Queues -> Seq(Messages)] /\ log \in [Queues -> Seq(Messages)]
      /\ handed \in [Queues -> Seq(Messages)] /\ max \in Nat
  BY SqsAssumption DEF SqsInv, TypeOK
<1>2. /\ queues' = [queues EXCEPT ![q] = Rest(q, max)]
      /\ inFlight' = inFlight \union batch
      /\ attempt' = [m \in Messages |-> attempt[m] + (IF m \in batch THEN 1 ELSE 0)]
      /\ holding' = [holding EXCEPT ![c] = @ \union batch]
      /\ dedupId' = dedupId /\ deadline' = deadline /\ sentTo' = sentTo
      /\ handed' = [handed EXCEPT ![q] = @ \o Taken(q, max)]
      /\ log' = log /\ deleted' = deleted
  BY DEF Receive, Hand
<1>3. \A p \in Queues : NoRepeats(queues[p]) /\ NoTwins(queues[p], dedupId)
  BY <1>1, ListProperties DEF PlacesAreDisjoint
<1>4. /\ Taken(q, max) \in Seq(Messages) /\ Rest(q, max) \in Seq(Messages)
      /\ queues[q] = Taken(q, max) \o Rest(q, max) /\ IsTail(Rest(q, max), queues[q])
      /\ Range(queues[q]) = batch \union Range(Rest(q, max))
      /\ batch \intersect Range(Rest(q, max)) = {}
  <2>1. queues[q] \in Seq(Messages) /\ Len(queues[q]) \in Nat
    BY <1>1
  <2>2. (IF max < Len(queues[q]) THEN max ELSE Len(queues[q])) \in Nat
    BY <1>1, <2>1
  <2>. QED
    BY <1>1, <1>3, <2>1, <2>2, ReceiveSplits DEF Taken, Rest
<1>. HIDE DEF batch
<1>5. /\ queues'[q] = Rest(q, max) /\ queues' \in [Queues -> Seq(Messages)]
      /\ \A p \in Queues \ {q} : queues'[p] = queues[p]
  BY <1>1, <1>2, <1>4
<1>6. ASSUME NEW p \in Queues
      PROVE  /\ log'[p] = handed'[p] \o queues'[p]
             /\ NoRepeats(queues'[p]) /\ NoTwins(queues'[p], dedupId')
             /\ Range(queues'[p]) \subseteq Range(queues[p]) /\ Range(queues'[p]) \intersect batch = {}
  <2>1. /\ queues[p] \in Seq(Messages) /\ handed[p] \in Seq(Messages)
        /\ log[p] = handed[p] \o queues[p]
    BY <1>1 DEF DeliveredInOrder
  <2>2. CASE p = q
    <3>1. NoRepeats(Rest(q, max)) /\ NoTwins(Rest(q, max), dedupId)
      BY <1>3, <1>4, <2>1, <2>2, TailKeeps
    <3>2. (handed[q] \o Taken(q, max)) \o Rest(q, max)
              = handed[q] \o (Taken(q, max) \o Rest(q, max))
      <4>1. \A h, s, u \in Seq(Messages) : (h \o s) \o u = h \o (s \o u)
        BY ConcatAssociative
      <4>2. /\ handed[q] \in Seq(Messages) /\ Taken(q, max) \in Seq(Messages)
            /\ Rest(q, max) \in Seq(Messages)
        BY <1>4, <2>1, <2>2
      <4>. QED
        BY <4>1, <4>2, Zenon
    <3>3. handed'[q] = handed[q] \o Taken(q, max)
      BY <1>1, <1>2
    <3>4. log'[q] = handed'[q] \o queues'[q]
      BY <1>2, <1>4, <1>5, <2>1, <2>2, <3>2, <3>3, Zenon
    <3>. QED
      BY <1>2, <1>4, <1>5, <2>2, <3>1, <3>4
  <2>3. CASE p # q
    <3>1. batch \subseteq Range(queues[q])
      BY <1>4
    <3>2. Range(queues[p]) \intersect Range(queues[q]) = {}
      BY <1>1, <2>3 DEF PlacesAreDisjoint
    <3>. QED
      BY <1>1, <1>2, <1>3, <1>5, <2>1, <2>3, <3>1, <3>2
  <2>. QED
    BY <2>2, <2>3
<1>7. batch \subseteq Messages /\ \A m \in batch :
         /\ sentTo[m] = q /\ attempt[m] = 1 /\ m \notin inFlight \union deleted
         /\ \A d \in Consumers : m \notin holding[d]
  BY <1>1, <1>4, RangeOfAppend DEF PlacesAreDisjoint, OneHolder
<1>8. DeliveredInOrder' /\ DuplicatesAreDropped' /\ \A p \in Queues : IsInjective(queues'[p])
  BY <1>5, <1>6, ListPropertiesNext DEF DeliveredInOrder
<1>9. /\ \A m \in Messages : attempt'[m] = IF m \in batch THEN 2 ELSE attempt[m]
      /\ attempt' \in [Messages -> 1..2]
  <2>1. \A m \in Messages : attempt[m] \in 1..2
    BY <1>1 DEF TypeOK
  <2>2. ASSUME NEW m \in Messages PROVE attempt'[m] = IF m \in batch THEN 2 ELSE attempt[m]
    <3>1. attempt'[m] = attempt[m] + (IF m \in batch THEN 1 ELSE 0)
      BY <1>2
    <3>2. CASE m \in batch
      BY <1>7, <3>1, <3>2
    <3>3. CASE m \notin batch
      BY <2>1, <3>1, <3>3
    <3>. QED
      BY <3>2, <3>3
  <2>. QED
    BY <1>2, <2>1, <2>2
<1>10. /\ holding'[c] = holding[c] \union batch /\ holding' \in [Consumers -> SUBSET Messages]
       /\ \A d \in Consumers \ {c} : holding'[d] = holding[d]
  BY <1>1, <1>2, <1>7 DEF TypeOK
<1>11. TypeOK'
  <2>1. handed' \in [Queues -> Seq(Messages)]
    <3>1. handed[q] \o Taken(q, max) \in Seq(Messages)
      BY <1>1, <1>4, ConcatProperties
    <3>. QED
      BY <1>1, <1>2, <3>1
  <2>. QED
    BY <1>1, <1>2, <1>5, <1>7, <1>9, <1>10, <2>1 DEF TypeOK
<1>12. OneHolder'
  <2>1. ASSUME NEW d \in Consumers, NEW e \in Consumers, d # e
        PROVE  holding'[d] \intersect holding'[e] = {}
    BY <1>1, <1>7, <1>10, <2>1 DEF OneHolder
  <2>2. ASSUME NEW d \in Consumers, NEW p \in Queues
        PROVE  holding'[d] \intersect Range(queues'[p]) = {}
    <3>1. holding'[d] \subseteq holding[d] \union batch
      BY <1>10
    <3>2. holding[d] \intersect Range(queues[p]) = {}
      BY <1>1 DEF OneHolder
    <3>. QED
      BY <1>6, <3>1, <3>2
  <2>. QED
    BY <2>1, <2>2 DEF OneHolder
<1>13. PlacesAreDisjoint'
  <2>1. ASSUME NEW p \in Queues, NEW n \in Range(queues'[p])
        PROVE  sentTo'[n] = p /\ attempt'[n] = 1 /\ n \notin inFlight' \union deleted'
    <3>1. n \in Range(queues[p]) /\ n \notin batch /\ n \in Messages
      BY <1>1, <1>6, RangeOfAppend
    <3>2. sentTo[n] = p /\ attempt[n] = 1 /\ n \notin inFlight \union deleted
      BY <1>1, <3>1 DEF PlacesAreDisjoint
    <3>. QED
      BY <1>2, <1>9, <3>1, <3>2
  <2>2. inFlight' \intersect deleted' = {}
    BY <1>1, <1>2, <1>7 DEF PlacesAreDisjoint
  <2>3. \A d \in Consumers : holding'[d] \subseteq inFlight'
    BY <1>1, <1>2, <1>10 DEF PlacesAreDisjoint
  <2>4. \A n \in Messages : sentTo'[n] = None =>
           attempt'[n] = 1 /\ n \notin inFlight' \union deleted'
    BY SqsAssumption, <1>1, <1>2, <1>7, <1>9 DEF PlacesAreDisjoint
  <2>. QED
    BY <1>8, <2>1, <2>2, <2>3, <2>4 DEF PlacesAreDisjoint
<1>. QED
  BY <1>8, <1>11, <1>12, <1>13 DEF SqsInv

\* A deletion, a new deadline and a death leave the lists alone.
LEMMA ConsumerStep ==
    ASSUME SqsInv, NEW c \in Consumers,
           \/ \E m \in Messages : Delete(c, m) \/ ChangeVisibility(c, m)
           \/ Die(c)
    PROVE  SqsInv'
<1>1. TypeOK /\ DeliveredInOrder /\ OneHolder /\ DuplicatesAreDropped /\ PlacesAreDisjoint
  BY DEF SqsInv
<1>2. /\ queues' = queues /\ log' = log /\ handed' = handed /\ dedupId' = dedupId
      /\ sentTo' = sentTo /\ attempt' = attempt
  BY DEF Delete, ChangeVisibility, Die
<1>3. DeliveredInOrder' /\ DuplicatesAreDropped'
  BY <1>1, <1>2 DEF DeliveredInOrder, DuplicatesAreDropped
<1>4. ASSUME NEW m \in Messages, Delete(c, m)
      PROVE  TypeOK' /\ OneHolder' /\ PlacesAreDisjoint'
  <2>1. /\ m \in holding[c] /\ m \in inFlight /\ deadline' = deadline
        /\ inFlight' = inFlight \ {m} /\ deleted' = deleted \union {m}
        /\ holding'[c] = holding[c] \ {m} /\ holding' \in [Consumers -> SUBSET Messages]
        /\ \A d \in Consumers \ {c} : holding'[d] = holding[d]
    BY <1>1, <1>4 DEF Delete, TypeOK
  <2>2. \A d \in Consumers : holding'[d] \subseteq holding[d] \ {m}
    BY <1>1, <2>1 DEF OneHolder
  <2>3. \A q \in Queues : m \notin Range(queues[q])
    BY <1>1, <2>1 DEF OneHolder
  <2>4. TypeOK'
    BY <1>1, <1>2, <2>1 DEF TypeOK
  <2>5. OneHolder'
    BY <1>1, <1>2, <2>2 DEF OneHolder
  <2>6. PlacesAreDisjoint'
    BY <1>1, <1>2, <2>1, <2>2, <2>3 DEF PlacesAreDisjoint
  <2>. QED
    BY <2>4, <2>5, <2>6
<1>5. ASSUME NEW m \in Messages, ChangeVisibility(c, m)
      PROVE  TypeOK' /\ OneHolder' /\ PlacesAreDisjoint'
  <2>1. inFlight' = inFlight /\ holding' = holding /\ deleted' = deleted
    BY <1>5 DEF ChangeVisibility
  <2>2. deadline' \in [Messages -> {0, 1, None}]
    BY <1>1, <1>5 DEF ChangeVisibility, TypeOK
  <2>. QED
    BY <1>1, <1>2, <2>1, <2>2 DEF TypeOK, OneHolder, PlacesAreDisjoint
<1>6. ASSUME Die(c)
      PROVE  TypeOK' /\ OneHolder' /\ PlacesAreDisjoint'
  <2>1. /\ inFlight' = inFlight /\ deleted' = deleted /\ deadline' = deadline
        /\ holding'[c] = {} /\ holding' \in [Consumers -> SUBSET Messages]
        /\ \A d \in Consumers \ {c} : holding'[d] = holding[d]
    BY <1>1, <1>6 DEF Die, TypeOK
  <2>2. \A d \in Consumers : holding'[d] \subseteq holding[d]
    BY <2>1
  <2>3. TypeOK'
    BY <1>1, <1>2, <2>1 DEF TypeOK
  <2>4. OneHolder'
    BY <1>1, <1>2, <2>2 DEF OneHolder
  <2>5. PlacesAreDisjoint'
    BY <1>1, <1>2, <2>1, <2>2 DEF PlacesAreDisjoint
  <2>. QED
    BY <2>3, <2>4, <2>5
<1>. QED
  BY <1>3, <1>4, <1>5, <1>6 DEF SqsInv

-----------------------------------------------------------------------------
\* Every step of the adapter and its callers keeps the invariant.
LEMMA SqsStep ==
    SqsInv /\ [Next]_vars => SqsInv'
<1>. SUFFICES ASSUME SqsInv, [Next]_vars PROVE SqsInv'
  OBVIOUS
<1>1. CASE \E m \in Messages, q \in Queues, id \in DedupIds \union {None} : Send(m, q, id)
  BY <1>1, SendStep
<1>2. CASE \E c \in Consumers, q \in Queues, max \in 1..MaxMessages : Receive(c, q, max)
  BY <1>2, ReceiveStep
<1>3. CASE \E c \in Consumers : \/ \E m \in Messages : Delete(c, m) \/ ChangeVisibility(c, m)
                                \/ Die(c)
  BY <1>3, ConsumerStep
<1>4. CASE UNCHANGED vars
  BY <1>4 DEF vars, SqsInv, TypeOK, DeliveredInOrder, OneHolder, DuplicatesAreDropped,
              PlacesAreDisjoint
<1>. QED
  BY <1>1, <1>2, <1>3, <1>4 DEF Next

\* The lists, the table of messages in flight and what the consumers hold
\* agree at all times.
THEOREM SqsCorrect == Spec => []SqsInv
<1>. QED
  BY SqsInitially, SqsStep, PTL DEF Spec

\* Every variable keeps its shape; no message is received twice, since its
\* attempt never passes 2.
THEOREM SqsTypes == Spec => []TypeOK
<1>1. SqsInv => TypeOK
  BY DEF SqsInv
<1>. QED
  BY <1>1, SqsCorrect, PTL

\* A queue hands out its messages in the order they were appended, whatever
\* the number of consumers and the size of their batches.
THEOREM SqsOrder == Spec => []DeliveredInOrder
<1>1. SqsInv => DeliveredInOrder
  BY DEF SqsInv
<1>. QED
  BY <1>1, SqsCorrect, PTL

\* A message has one holder, and none while it waits.
THEOREM SqsOneHolder == Spec => []OneHolder
<1>1. SqsInv => OneHolder
  BY DEF SqsInv
<1>. QED
  BY <1>1, SqsCorrect, PTL

\* Of the messages with one deduplication id a queue holds one at a time.
THEOREM SqsDuplicates == Spec => []DuplicatesAreDropped
<1>1. SqsInv => DuplicatesAreDropped
  BY DEF SqsInv
<1>. QED
  BY <1>1, SqsCorrect, PTL

-----------------------------------------------------------------------------
\* Where the messages are, as the protocol sees them.
Places == [m \in Messages |-> StateOf(m)]

\* A send moves one message out of "unsent".
LEMMA SendRefines ==
    ASSUME SqsInv, NEW m \in Messages, NEW q \in Queues, NEW id \in DedupIds \union {None},
           Send(m, q, id)
    PROVE  Contract!Send(m)
<1>1. /\ TypeOK /\ PlacesAreDisjoint /\ sentTo[m] = None /\ q # None
      /\ queues \in [Queues -> Seq(Messages)]
      /\ sentTo \in [Messages -> Queues \union {None}]
  BY SqsAssumption DEF SqsInv, Send, TypeOK
<1>2. /\ inFlight' = inFlight /\ deleted' = deleted
      /\ sentTo'[m] = q /\ \A n \in Messages \ {m} : sentTo'[n] = sentTo[n]
  BY <1>1 DEF Send
<1>3. m \notin inFlight \union deleted /\ \A p \in Queues : m \notin Range(queues[p])
  <2>1. \A p \in Queues : sentTo[m] # p
    BY <1>1, SqsAssumption
  <2>. QED
    BY <1>1, <2>1 DEF PlacesAreDisjoint
<1>4. StateOf(m) = "unsent"
  BY <1>1 DEF StateOf
<1>5. \A p \in Queues : \/ queues'[p] = queues[p]
                        \/ p = q /\ Range(queues'[p]) = Range(queues[p]) \union {m}
  <2>1. queues[q] \in Seq(Messages)
    BY <1>1
  <2>2. Range(Append(queues[q], m)) = Range(queues[q]) \union {m}
    BY <2>1, RangeOfAppend
  <2>. QED
    BY <1>1, <2>2 DEF Send
<1>6. ASSUME NEW n \in Messages, n # m PROVE StateOf(n)' = StateOf(n)
  <2>1. sentTo[n] \in Queues => (n \in Range(queues'[sentTo[n]]) <=> n \in Range(queues[sentTo[n]]))
    BY <1>5, <1>6
  <2>2. sentTo'[n] = sentTo[n] /\ sentTo[n] \in Queues \union {None}
    BY <1>1, <1>2, <1>6
  <2>. QED
    BY <1>2, <2>1, <2>2 DEF StateOf
<1>7. StateOf(m)' \in {"waiting", "dropped"}
  BY <1>1, <1>2, <1>3 DEF StateOf
<1>8. Places' = [n \in Messages |-> IF n \in {m} THEN StateOf(m)' ELSE Places[n]]
  BY <1>6 DEF Places
<1>. QED
  BY <1>4, <1>7, <1>8 DEF Places, Contract!Send, Contract!Moves

\* A receive moves what it takes from "waiting" to "inFlight".
LEMMA ReceiveRefines ==
    ASSUME SqsInv, NEW c \in Consumers, NEW q \in Queues, NEW max \in 1..MaxMessages,
           Receive(c, q, max)
    PROVE  Contract!Receive
<1>. DEFINE batch == Range(Taken(q, max))
<1>1. /\ TypeOK /\ PlacesAreDisjoint /\ q # None
      /\ queues \in [Queues -> Seq(Messages)]
      /\ sentTo \in [Messages -> Queues \union {None}]
  BY SqsAssumption DEF SqsInv, TypeOK
<1>2. /\ inFlight' = inFlight \union batch /\ deleted' = deleted /\ sentTo' = sentTo
      /\ queues'[q] = Rest(q, max)
      /\ \A p \in Queues \ {q} : queues'[p] = queues[p]
  BY <1>1 DEF Receive, Hand
<1>3. /\ Range(queues[q]) = batch \union Range(Rest(q, max))
      /\ batch \intersect Range(Rest(q, max)) = {}
  <2>1. queues[q] \in Seq(Messages) /\ Len(queues[q]) \in Nat /\ max \in Nat
    BY <1>1, SqsAssumption
  <2>2. (IF max < Len(queues[q]) THEN max ELSE Len(queues[q])) \in Nat
    BY <2>1
  <2>3. NoRepeats(queues[q])
    BY <1>1, ListProperties DEF PlacesAreDisjoint
  <2>. QED
    BY <2>1, <2>2, <2>3, ReceiveSplits DEF Taken, Rest
<1>. HIDE DEF batch
<1>4. /\ batch \subseteq Messages
      /\ \A m \in batch : sentTo[m] = q /\ m \in Range(queues[q]) /\ m \notin Range(queues'[q])
  BY <1>1, <1>2, <1>3, RangeOfAppend DEF PlacesAreDisjoint
<1>5. \A m \in batch : StateOf(m) = "waiting" /\ StateOf(m)' = "inFlight"
  BY <1>1, <1>2, <1>4 DEF StateOf
<1>6. ASSUME NEW m \in Messages \ batch PROVE StateOf(m)' = StateOf(m)
  <2>1. sentTo[m] \in Queues => (m \in Range(queues'[sentTo[m]]) <=> m \in Range(queues[sentTo[m]]))
    BY <1>2, <1>3, <1>6
  <2>2. sentTo'[m] = sentTo[m] /\ sentTo[m] \in Queues \union {None}
    BY <1>1, <1>2, <1>6
  <2>. QED
    BY <1>2, <1>6, <2>1, <2>2 DEF StateOf
<1>7. Places' = [m \in Messages |-> IF m \in batch THEN "inFlight" ELSE Places[m]]
  BY <1>4, <1>5, <1>6 DEF Places
<1>8. Contract!Moves(batch, "waiting", "inFlight")
  BY <1>4, <1>5, <1>7 DEF Places, Contract!Moves
<1>. QED
  BY <1>4, <1>8 DEF Contract!Receive

\* A deletion moves its message from "inFlight" to "deleted"; nothing else a
\* consumer does moves one.
LEMMA ConsumerRefines ==
    ASSUME SqsInv, NEW c \in Consumers
    PROVE  /\ \A m \in Messages : Delete(c, m) => Contract!Delete(m)
           /\ \A m \in Messages : ChangeVisibility(c, m) => UNCHANGED Places
           /\ Die(c) => UNCHANGED Places
<1>1. TypeOK /\ PlacesAreDisjoint /\ OneHolder /\ sentTo \in [Messages -> Queues \union {None}]
  BY DEF SqsInv, TypeOK
<1>2. ASSUME NEW m \in Messages, Delete(c, m) PROVE Contract!Delete(m)
  <2>1. /\ m \in inFlight /\ inFlight' = inFlight \ {m} /\ deleted' = deleted \union {m}
        /\ queues' = queues /\ sentTo' = sentTo
    BY <1>2 DEF Delete
  <2>2. sentTo[m] # None /\ \A q \in Queues : m \notin Range(queues[q])
    BY <1>1, <2>1 DEF PlacesAreDisjoint
  <2>3. sentTo[m] \in Queues
    BY <1>1, <2>2
  <2>4. StateOf(m) = "inFlight" /\ StateOf(m)' = "deleted"
    BY <2>1, <2>2, <2>3 DEF StateOf
  <2>5. \A n \in Messages \ {m} : StateOf(n)' = StateOf(n)
    BY <2>1 DEF StateOf
  <2>6. Places' = [n \in Messages |-> IF n \in {m} THEN "deleted" ELSE Places[n]]
    BY <2>4, <2>5 DEF Places
  <2>. QED
    BY <2>4, <2>6 DEF Places, Contract!Delete, Contract!Moves
<1>3. ASSUME \/ \E m \in Messages : ChangeVisibility(c, m)
             \/ Die(c)
      PROVE  UNCHANGED Places
  BY <1>3 DEF ChangeVisibility, Die, Places, StateOf
<1>. QED
  BY <1>2, <1>3

\* The adapter keeps the promises of the protocol.
THEOREM SqsRefines == Spec => ContractSpec
<1>1. Init => Contract!Init
  <2>1. Init => \A m \in Messages : StateOf(m) = "unsent"
    BY DEF Init, StateOf
  <2>. QED
    BY <2>1 DEF Contract!Init
<1>2. SqsInv /\ [Next]_vars => [Contract!Next]_Places
  <2>. SUFFICES ASSUME SqsInv, [Next]_vars PROVE [Contract!Next]_Places
    OBVIOUS
  <2>1. CASE \E m \in Messages, q \in Queues, id \in DedupIds \union {None} : Send(m, q, id)
    BY <2>1, SendRefines DEF Contract!Next
  <2>2. CASE \E c \in Consumers, q \in Queues, max \in 1..MaxMessages : Receive(c, q, max)
    BY <2>2, ReceiveRefines DEF Contract!Next
  <2>3. CASE \E c \in Consumers : \/ \E m \in Messages : Delete(c, m) \/ ChangeVisibility(c, m)
                                  \/ Die(c)
    BY <2>3, ConsumerRefines DEF Contract!Next
  <2>4. CASE UNCHANGED vars
    BY <2>4 DEF vars, Places, StateOf
  <2>. QED
    BY <2>1, <2>2, <2>3, <2>4 DEF Next
<1>3. [Contract!Next]_Places => [Contract!Next]_([m \in Messages |-> StateOf(m)])
  BY DEF Places
<1>. QED
  BY <1>1, <1>2, <1>3, SqsCorrect, PTL DEF Spec, ContractSpec, Contract!Spec
=============================================================================
