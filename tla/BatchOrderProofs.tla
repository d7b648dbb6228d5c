--------------------------- MODULE BatchOrderProofs ---------------------------
(***************************************************************************)
(* What the operators on queues that MessageDebouncer is built from return *)
(* for every queue: the stable sort is a permutation in sequence order,    *)
(* and Map.set adds one id or none.                                        *)
(***************************************************************************)
EXTENDS MessageDebouncer, FiniteSetTheorems, FunctionTheorems,
        SequenceTheorems, TLAPS

\* What being a queue means for its positions.
LEMMA QueueElements ==
    ASSUME NEW queue \in Seq(Message)
    PROVE  /\ DOMAIN queue = 1..Len(queue)
           /\ Len(queue) \in Nat
           /\ IsFiniteSet(DOMAIN queue)
           /\ Cardinality(DOMAIN queue) = Len(queue)
           /\ \A j \in DOMAIN queue : /\ queue[j] \in Message
                                      /\ queue[j].messageId \in MessageIds
                                      /\ SequenceOf[queue[j].messageId] \in Nat
<1>1. /\ DOMAIN queue = 1..Len(queue)
      /\ Len(queue) \in Nat
      /\ queue \in [1..Len(queue) -> Message]
  BY LenProperties
<1>2. /\ IsFiniteSet(1..Len(queue))
      /\ Cardinality(1..Len(queue)) = IF 1 > Len(queue) THEN 0 ELSE Len(queue) - 1 + 1
  BY <1>1, FS_Interval
<1>3. Cardinality(1..Len(queue)) = Len(queue)
  BY <1>1, <1>2
<1>4. \A j \in DOMAIN queue : queue[j] \in Message
  BY <1>1
<1>5. \A message \in Message : /\ message.messageId \in MessageIds
                               /\ SequenceOf[message.messageId] \in Nat
  BY DebouncerAssumption DEF Message
<1> QED
  BY <1>1, <1>2, <1>3, <1>4, <1>5

\* What SortBySequence puts before or at position j.
NotAfter(queue, j) == {i \in DOMAIN queue : Precedes(queue, i, j)}

\* The rank of a position is one of the positions.
LEMMA RankInRange ==
    ASSUME NEW queue \in Seq(Message), NEW j \in DOMAIN queue
    PROVE  /\ IsFiniteSet(NotAfter(queue, j))
           /\ Rank(queue, j) = Cardinality(NotAfter(queue, j))
           /\ Rank(queue, j) \in 1..Len(queue)
<1>1. /\ DOMAIN queue = 1..Len(queue)
      /\ Len(queue) \in Nat
      /\ SequenceOf[queue[j].messageId] \in Nat
  BY QueueElements
<1>2. /\ IsFiniteSet(DOMAIN queue)
      /\ Cardinality(DOMAIN queue) = Len(queue)
  BY QueueElements
<1>3. NotAfter(queue, j) \in SUBSET DOMAIN queue
  BY DEF NotAfter
<1>4. /\ IsFiniteSet(NotAfter(queue, j))
      /\ Cardinality(NotAfter(queue, j)) <= Len(queue)
  BY <1>2, <1>3, FS_Subset
<1>5. j \in NotAfter(queue, j)
  BY <1>1 DEF NotAfter, Precedes
<1>6. /\ Cardinality(NotAfter(queue, j)) \in Nat
      /\ Cardinality(NotAfter(queue, j)) # 0
  BY <1>4, <1>5, FS_EmptySet, FS_CardinalityType
<1>7. Rank(queue, j) = Cardinality(NotAfter(queue, j))
  BY DEF Rank, NotAfter
<1> QED
  BY <1>1, <1>4, <1>6, <1>7

\* Of two positions, the one that precedes the other has the smaller rank.
LEMMA RankIsMonotonic ==
    ASSUME NEW queue \in Seq(Message),
           NEW i \in DOMAIN queue, NEW j \in DOMAIN queue,
           i # j, Precedes(queue, i, j)
    PROVE  Rank(queue, i) < Rank(queue, j)
<1>1. /\ DOMAIN queue = 1..Len(queue)
      /\ Len(queue) \in Nat
      /\ \A k \in DOMAIN queue : SequenceOf[queue[k].messageId] \in Nat
  BY QueueElements
<1>2. NotAfter(queue, i) \in SUBSET NotAfter(queue, j)
  BY <1>1 DEF NotAfter, Precedes
<1>3. j \notin NotAfter(queue, i) /\ j \in NotAfter(queue, j)
  BY <1>1 DEF NotAfter, Precedes
<1>4. NotAfter(queue, i) # NotAfter(queue, j)
  BY <1>3
<1>5. /\ Cardinality(NotAfter(queue, i)) <= Cardinality(NotAfter(queue, j))
      /\ Cardinality(NotAfter(queue, i)) # Cardinality(NotAfter(queue, j))
  BY <1>2, <1>4, RankInRange, FS_Subset
<1> QED
  BY <1>1, <1>5, RankInRange

\* Ranks tell positions apart and order them as Precedes does.
LEMMA RankOrders ==
    ASSUME NEW queue \in Seq(Message),
           NEW i \in DOMAIN queue, NEW j \in DOMAIN queue
    PROVE  /\ Rank(queue, i) = Rank(queue, j) => i = j
           /\ Rank(queue, i) < Rank(queue, j) => Precedes(queue, i, j)
<1>1. /\ DOMAIN queue = 1..Len(queue)
      /\ Len(queue) \in Nat
      /\ \A k \in DOMAIN queue : SequenceOf[queue[k].messageId] \in Nat
  BY QueueElements
<1>2. Precedes(queue, i, j) \/ Precedes(queue, j, i)
  BY <1>1 DEF Precedes
<1>3. Rank(queue, i) \in Nat /\ Rank(queue, j) \in Nat
  BY <1>1, RankInRange
<1>4. i # j => Rank(queue, i) < Rank(queue, j) \/ Rank(queue, j) < Rank(queue, i)
  BY <1>2, RankIsMonotonic
<1>5. i # j /\ ~Precedes(queue, i, j) => Rank(queue, j) < Rank(queue, i)
  BY <1>2, RankIsMonotonic
<1>6. i = j => Precedes(queue, i, j)
  BY <1>1 DEF Precedes
<1> QED
  BY <1>3, <1>4, <1>5, <1>6

\* Every position is the rank of exactly one element: the CHOOSE in
\* SortBySequence always finds it.
LEMMA RankIsBijection ==
    ASSUME NEW queue \in Seq(Message), NEW k \in DOMAIN queue
    PROVE  \E j \in DOMAIN queue : Rank(queue, j) = k
<1> DEFINE rank == [j \in DOMAIN queue |-> Rank(queue, j)]
<1>1. DOMAIN queue = 1..Len(queue) /\ Len(queue) \in Nat
  BY LenProperties
<1>2. rank \in [DOMAIN queue -> DOMAIN queue]
  BY <1>1, RankInRange
<1>3. \A i, j \in DOMAIN queue : rank[i] = rank[j] => i = j
  BY RankOrders
<1>4. rank \in Injection(DOMAIN queue, DOMAIN queue)
  BY <1>2, <1>3, Fun_IsInj
<1>5. IsFiniteSet(DOMAIN queue)
  BY <1>1, FS_Interval
<1>6. rank \in Surjection(DOMAIN queue, DOMAIN queue)
  BY <1>4, <1>5, FS_Injection
<1>7. PICK j \in DOMAIN queue : rank[j] = k
  BY <1>6, Fun_SurjectionProperties
<1> QED
  BY <1>7

\* Where SortBySequence takes the element it puts at position k from.
Source(queue, k) == CHOOSE j \in DOMAIN queue : Rank(queue, j) = k

\* SortBySequence returns a permutation of the queue ...
LEMMA SortPermutes ==
    ASSUME NEW queue \in Seq(Message)
    PROVE  /\ SortBySequence(queue) \in Seq(Message)
           /\ DOMAIN SortBySequence(queue) = DOMAIN queue
           /\ \A k \in DOMAIN queue : /\ Source(queue, k) \in DOMAIN queue
                                      /\ Rank(queue, Source(queue, k)) = k
                                      /\ SortBySequence(queue)[k] = queue[Source(queue, k)]
           /\ \A j \in DOMAIN queue : Source(queue, Rank(queue, j)) = j
<1>1. DOMAIN queue = 1..Len(queue) /\ Len(queue) \in Nat
  BY LenProperties
<1>2. \A k \in DOMAIN queue : /\ Source(queue, k) \in DOMAIN queue
                              /\ Rank(queue, Source(queue, k)) = k
  BY RankIsBijection DEF Source
<1>3. SortBySequence(queue) = [k \in DOMAIN queue |-> queue[Source(queue, k)]]
  BY DEF SortBySequence, Source
<1>4. \A k \in DOMAIN queue : queue[Source(queue, k)] \in Message
  BY <1>1, <1>2
<1>5. SortBySequence(queue) \in Seq(Message)
  BY <1>1, <1>3, <1>4
<1>6. \A j \in DOMAIN queue : Source(queue, Rank(queue, j)) = j
  BY <1>1, <1>2, RankInRange, RankOrders
<1> QED
  BY <1>2, <1>3, <1>5, <1>6

\* ... with the same ids, empty only for the empty queue ...
LEMMA SortKeepsIds ==
    ASSUME NEW queue \in Seq(Message)
    PROVE  /\ IdSet(SortBySequence(queue)) = IdSet(queue)
           /\ SortBySequence(queue) = <<>> <=> queue = <<>>
<1>1. /\ DOMAIN queue = 1..Len(queue)
      /\ Len(queue) \in Nat
      /\ \A j \in DOMAIN queue : Rank(queue, j) \in DOMAIN queue
  BY LenProperties, RankInRange
<1>2. IdSet(SortBySequence(queue)) \subseteq IdSet(queue)
  BY SortPermutes DEF IdSet
<1>3. IdSet(queue) \subseteq IdSet(SortBySequence(queue))
  <2>1. SUFFICES ASSUME NEW j \in DOMAIN queue
                 PROVE  queue[j].messageId \in IdSet(SortBySequence(queue))
    BY DEF IdSet
  <2>2. SortBySequence(queue)[Rank(queue, j)] = queue[j]
    BY <1>1, SortPermutes
  <2> QED
    BY <1>1, <2>2, SortPermutes DEF IdSet
<1>4. SortBySequence(queue) = <<>> <=> queue = <<>>
  BY <1>1, SortPermutes, LenProperties
<1> QED
  BY <1>2, <1>3, <1>4

\* ... and in sequence order.
LEMMA SortOrders ==
    ASSUME NEW queue \in Seq(Message)
    PROVE  \A k, l \in DOMAIN SortBySequence(queue) : k < l =>
              SequenceOf[SortBySequence(queue)[k].messageId]
                 <= SequenceOf[SortBySequence(queue)[l].messageId]
<1>1. SUFFICES ASSUME NEW k \in DOMAIN queue, NEW l \in DOMAIN queue, k < l
               PROVE  SequenceOf[queue[Source(queue, k)].messageId]
                         <= SequenceOf[queue[Source(queue, l)].messageId]
  BY SortPermutes
<1>2. Precedes(queue, Source(queue, k), Source(queue, l))
  <2>1. /\ Source(queue, k) \in DOMAIN queue /\ Rank(queue, Source(queue, k)) = k
        /\ Source(queue, l) \in DOMAIN queue /\ Rank(queue, Source(queue, l)) = l
    BY SortPermutes
  <2> QED
    BY <1>1, <2>1, RankOrders
<1>3. /\ SequenceOf[queue[Source(queue, k)].messageId] \in Nat
      /\ SequenceOf[queue[Source(queue, l)].messageId] \in Nat
  BY SortPermutes, QueueElements
<1> QED
  BY <1>2, <1>3 DEF Precedes

-----------------------------------------------------------------------------
\* No id occurs twice in a queue.
Distinct(queue) ==
    \A i, j \in DOMAIN queue : queue[i].messageId = queue[j].messageId => i = j

LEMMA SortKeepsDistinct ==
    ASSUME NEW queue \in Seq(Message), Distinct(queue)
    PROVE  Distinct(SortBySequence(queue))
BY SortPermutes DEF Distinct

\* Map.set keeps the ids distinct and adds the one it is given.
LEMMA PutProperties ==
    ASSUME NEW queue \in Seq(Message), NEW message \in Message
    PROVE  /\ Put(queue, message) \in Seq(Message)
           /\ Put(queue, message) # <<>>
           /\ IdSet(Put(queue, message)) = IdSet(queue) \cup {message.messageId}
           /\ Distinct(queue) => Distinct(Put(queue, message))
<1>1. /\ DOMAIN queue = 1..Len(queue)
      /\ Len(queue) \in Nat
      /\ queue \in [1..Len(queue) -> Message]
  BY LenProperties
<1>2. CASE message.messageId \in IdSet(queue)
  <2> DEFINE put == [i \in DOMAIN queue |->
                       IF queue[i].messageId = message.messageId THEN message ELSE queue[i]]
  <2>1. Put(queue, message) = put
    BY <1>2 DEF Put
  <2>2. put \in [1..Len(queue) -> Message]
    BY <1>1
  <2>3. \A i \in DOMAIN queue : put[i].messageId = queue[i].messageId
    OBVIOUS
  <2>4. put \in Seq(Message) /\ DOMAIN put = DOMAIN queue
    BY <1>1, <2>2
  <2>5. put # <<>>
    BY <1>1, <1>2, <2>4 DEF IdSet
  <2>6. IdSet(put) = IdSet(queue)
    BY <2>3, <2>4 DEF IdSet
  <2>7. Distinct(queue) => Distinct(put)
    BY <2>3, <2>4 DEF Distinct
  <2> QED
    BY <1>2, <2>1, <2>4, <2>5, <2>6, <2>7
<1>3. CASE message.messageId \notin IdSet(queue)
  <2> DEFINE put == Append(queue, message)
  <2>1. Put(queue, message) = put
    BY <1>3 DEF Put
  <2>2. /\ put \in Seq(Message)
        /\ put # <<>>
        /\ Len(put) = Len(queue) + 1
        /\ \A i \in 1..Len(queue) : put[i] = queue[i]
        /\ put[Len(queue) + 1] = message
    BY AppendProperties
  <2>3. DOMAIN put = 1..(Len(queue) + 1)
    BY <2>2, LenProperties
  <2> HIDE DEF put
  <2>4. IdSet(put) = IdSet(queue) \cup {message.messageId}
    BY <1>1, <2>2, <2>3 DEF IdSet
  <2>5. Distinct(queue) => Distinct(put)
    BY <1>1, <1>3, <2>2, <2>3 DEF Distinct, IdSet
  <2> QED
    BY <2>1, <2>2, <2>4, <2>5
<1> QED
  BY <1>2, <1>3

-----------------------------------------------------------------------------
\* A batch drained from a sound queue is a sound batch.
LEMMA DrainedBatch ==
    ASSUME NEW queue \in Seq(Message), Distinct(queue)
    PROVE  /\ SortBySequence(queue) \in Seq(Message)
           /\ Distinct(SortBySequence(queue))
           /\ IdSet(SortBySequence(queue)) = IdSet(queue)
           /\ SortBySequence(queue) = <<>> <=> queue = <<>>
           /\ \A i, j \in DOMAIN SortBySequence(queue) : i < j =>
                 SequenceOf[SortBySequence(queue)[i].messageId]
                    <= SequenceOf[SortBySequence(queue)[j].messageId]
BY SortPermutes, SortKeepsIds, SortOrders, SortKeepsDistinct

\* The ids of a queue, as a set and as a sequence.
LEMMA IdsProperties ==
    ASSUME NEW queue \in Seq(Message)
    PROVE  /\ IdSet(queue) \subseteq MessageIds
           /\ Ids(queue) \in Seq(MessageIds)
           /\ ToSet(Ids(queue)) = IdSet(queue)
           /\ queue = <<>> <=> IdSet(queue) = {}
<1>1. /\ DOMAIN queue = 1..Len(queue)
      /\ Len(queue) \in Nat
      /\ \A j \in DOMAIN queue : queue[j].messageId \in MessageIds
  BY QueueElements
<1>2. /\ Ids(queue) \in [1..Len(queue) -> MessageIds]
      /\ Ids(queue) \in Seq(MessageIds)
  BY <1>1 DEF Ids
<1>3. ToSet(Ids(queue)) = IdSet(queue)
  BY <1>1 DEF Ids, IdSet, ToSet
<1>4. queue = <<>> <=> DOMAIN queue = {}
  BY <1>1, LenProperties
<1> QED
  BY <1>1, <1>2, <1>3, <1>4 DEF IdSet

\* An empty memory is within its bound.
LEMMA EmptyFits == Len(<<>>) <= MaxRecentlyProcessed
<1>1. Len(<<>>) = 0
  OBVIOUS
<1> QED
  BY <1>1, DebouncerAssumption

\* Pushing a batch into the bounded memory adds no other ids and keeps its bound.
LEMMA PushProperties ==
    ASSUME NEW recent \in Seq(MessageIds), NEW batch \in Seq(Message)
    PROVE  /\ Trim(recent \o Ids(batch)) \in Seq(MessageIds)
           /\ ToSet(Trim(recent \o Ids(batch))) \subseteq ToSet(recent) \cup IdSet(batch)
           /\ Len(Trim(recent \o Ids(batch))) <= MaxRecentlyProcessed
<1> DEFINE all == recent \o Ids(batch)
<1>1. /\ all \in Seq(MessageIds)
      /\ Len(all) = Len(recent) + Len(Ids(batch))
      /\ \A i \in 1..Len(all) :
            all[i] = IF i <= Len(recent) THEN recent[i] ELSE Ids(batch)[i - Len(recent)]
  BY IdsProperties, ConcatProperties
<1>2. /\ DOMAIN recent = 1..Len(recent) /\ Len(recent) \in Nat
      /\ DOMAIN Ids(batch) = 1..Len(Ids(batch)) /\ Len(Ids(batch)) \in Nat
      /\ DOMAIN all = 1..Len(all) /\ Len(all) \in Nat
  BY <1>1, IdsProperties, LenProperties
<1>3. ToSet(all) \subseteq ToSet(recent) \cup ToSet(Ids(batch))
  <2>1. SUFFICES ASSUME NEW i \in 1..Len(all)
                 PROVE  all[i] \in ToSet(recent) \cup ToSet(Ids(batch))
    BY <1>2 DEF ToSet
  <2>2. CASE i <= Len(recent)
    BY <1>1, <1>2, <2>2 DEF ToSet
  <2>3. CASE ~(i <= Len(recent))
    BY <1>1, <1>2, <2>3 DEF ToSet
  <2> QED
    BY <2>2, <2>3
<1> HIDE DEF all
<1>4. /\ Trim(all) \in Seq(MessageIds)
      /\ ToSet(Trim(all)) \subseteq ToSet(all)
      /\ Len(Trim(all)) <= MaxRecentlyProcessed
  <2>1. CASE Len(all) > MaxRecentlyProcessed
    <3> DEFINE first == Len(all) - MaxRecentlyProcessed + 1
    <3>1. first \in Int /\ first >= 1
      BY <1>2, <2>1, DebouncerAssumption
    <3>2. \A i \in first..Len(all) : all[i] \in MessageIds
      BY <1>1, <1>2, <3>1
    <3>3. /\ SubSeq(all, first, Len(all)) \in Seq(MessageIds)
          /\ Len(SubSeq(all, first, Len(all))) =
                IF first <= Len(all) THEN Len(all) - first + 1 ELSE 0
          /\ \A i \in 1..(Len(all) - first + 1) :
                SubSeq(all, first, Len(all))[i] = all[first + i - 1]
      BY <1>2, <3>1, <3>2, SubSeqProperties
    <3> DEFINE kept == SubSeq(all, first, Len(all))
    <3>4. DOMAIN kept = 1..Len(kept) /\ Len(kept) \in Nat
      BY <3>3, LenProperties
    <3>5. \A i \in DOMAIN kept : kept[i] \in ToSet(all)
      BY <1>2, <3>1, <3>3, <3>4 DEF ToSet
    <3>8. Len(kept) <= MaxRecentlyProcessed
      BY <1>2, <3>1, <3>3, DebouncerAssumption
    <3> HIDE DEF first, kept
    <3>6. Trim(all) = kept
      BY <2>1 DEF Trim, kept, first
    <3>7. ToSet(kept) \subseteq ToSet(all)
      BY <3>5 DEF ToSet
    <3> QED
      BY <3>3, <3>6, <3>7, <3>8 DEF kept
  <2>2. CASE ~(Len(all) > MaxRecentlyProcessed)
    BY <1>1, <1>2, <2>2, DebouncerAssumption DEF Trim
  <2> QED
    BY <2>1, <2>2
<1> QED
  BY <1>3, <1>4, IdsProperties DEF all

\* A queue and a batch that share no id and repeat none take one slot per
\* message together.
LEMMA SlotsOfBoth ==
    ASSUME NEW queue \in Seq(Message), NEW batch \in Seq(Message),
           Distinct(queue), Distinct(batch),
           IdSet(queue) \cap IdSet(batch) = {}
    PROVE  /\ IsInjective(Ids(queue \o batch))
           /\ IdSet(queue \o batch) \subseteq IdSet(queue) \cup IdSet(batch)
<1> DEFINE all == queue \o batch
<1>1. /\ all \in Seq(Message)
      /\ Len(all) = Len(queue) + Len(batch)
      /\ \A i \in 1..Len(all) :
            all[i] = IF i <= Len(queue) THEN queue[i] ELSE batch[i - Len(queue)]
  BY ConcatProperties
<1>2. /\ DOMAIN queue = 1..Len(queue) /\ Len(queue) \in Nat
      /\ DOMAIN batch = 1..Len(batch) /\ Len(batch) \in Nat
      /\ DOMAIN all = 1..Len(all) /\ Len(all) \in Nat
  BY <1>1, QueueElements
<1> HIDE DEF all
<1>3. \A i \in DOMAIN all :
         \/ i \in DOMAIN queue /\ all[i] = queue[i]
         \/ /\ i > Len(queue) /\ i - Len(queue) \in DOMAIN batch
            /\ all[i] = batch[i - Len(queue)]
  BY <1>1, <1>2
<1>4. IdSet(all) \subseteq IdSet(queue) \cup IdSet(batch)
  BY <1>3 DEF IdSet
<1>5. ASSUME NEW i \in DOMAIN all, NEW j \in DOMAIN all,
             all[i].messageId = all[j].messageId
      PROVE  i = j
  <2>1. CASE i \in DOMAIN queue /\ all[i] = queue[i] /\ j \in DOMAIN queue /\ all[j] = queue[j]
    BY <1>5, <2>1 DEF Distinct
  <2>2. CASE /\ i > Len(queue) /\ i - Len(queue) \in DOMAIN batch
             /\ all[i] = batch[i - Len(queue)]
             /\ j > Len(queue) /\ j - Len(queue) \in DOMAIN batch
             /\ all[j] = batch[j - Len(queue)]
    <3>1. i - Len(queue) = j - Len(queue)
      BY <1>5, <2>2 DEF Distinct
    <3> QED
      BY <1>2, <3>1
  <2>3. CASE /\ i \in DOMAIN queue /\ all[i] = queue[i]
             /\ j - Len(queue) \in DOMAIN batch /\ all[j] = batch[j - Len(queue)]
    BY <1>5, <2>3 DEF IdSet
  <2>4. CASE /\ j \in DOMAIN queue /\ all[j] = queue[j]
             /\ i - Len(queue) \in DOMAIN batch /\ all[i] = batch[i - Len(queue)]
    BY <1>5, <2>4 DEF IdSet
  <2> QED
    BY <1>3, <2>1, <2>2, <2>3, <2>4
<1>6. IsInjective(Ids(all))
  BY <1>5 DEF IsInjective, Ids
<1> QED
  BY <1>4, <1>6 DEF all

\* The ids of the first n messages of a batch.
LEMMA PrefixIds ==
    ASSUME NEW batch \in Seq(Message), NEW n \in 0..Len(batch)
    PROVE  IdSet(SubSeq(batch, 1, n)) \subseteq IdSet(batch)
<1>1. DOMAIN batch = 1..Len(batch) /\ Len(batch) \in Nat
  BY LenProperties
<1>2. \A i \in 1..n : batch[i] \in Message
  BY <1>1, LenProperties
<1>3. /\ SubSeq(batch, 1, n) \in Seq(Message)
      /\ Len(SubSeq(batch, 1, n)) = IF 1 <= n THEN n - 1 + 1 ELSE 0
      /\ \A i \in 1..(n - 1 + 1) : SubSeq(batch, 1, n)[i] = batch[1 + i - 1]
  BY <1>1, <1>2, SubSeqProperties
<1>4. DOMAIN SubSeq(batch, 1, n) = 1..Len(SubSeq(batch, 1, n))
  BY <1>3, LenProperties
<1>5. \A i \in DOMAIN SubSeq(batch, 1, n) :
         i \in DOMAIN batch /\ SubSeq(batch, 1, n)[i] = batch[i]
  BY <1>1, <1>3, <1>4
<1> QED
  BY <1>5 DEF IdSet
=============================================================================
