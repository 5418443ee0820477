-------------------------- MODULE HumanQueueLemmas --------------------------
(***************************************************************************)
(* What the operations of HumanQueueOps keep of a queue value, whoever     *)
(* carries it: the queue component and the worker pool cite these lemmas.  *)
(* At the end, what a selection (SequenceSelection) keeps of a sequence.   *)
(***************************************************************************)
EXTENDS HumanQueueOps, SequenceSelection, SequenceTheorems, WellFoundedInduction, TLAPS

\* Taking one position out of a sequence keeps the others in their order.
LEMMA WithoutPosFacts ==
    ASSUME NEW S, NEW s \in Seq(S), NEW p \in 1..Len(s)
    PROVE  /\ WithoutPos(s, p) \in Seq(S)
           /\ Len(WithoutPos(s, p)) = Len(s) - 1
           /\ \A k \in 1..(Len(s) - 1) :
                WithoutPos(s, p)[k] = IF k < p THEN s[k] ELSE s[k + 1]
  <1>1. Len(s) - 1 \in Nat
    OBVIOUS
  <1>2. WithoutPos(s, p) \in [1..(Len(s) - 1) -> S]
    BY <1>1 DEF WithoutPos
  <1> QED BY <1>1, <1>2 DEF WithoutPos

\* Dropping a prefix of a sequence keeps the rest in its order.
LEMMA DropPrefixFacts ==
    ASSUME NEW S, NEW s \in Seq(S), NEW n \in 0..Len(s)
    PROVE  /\ SubSeq(s, n + 1, Len(s)) \in Seq(S)
           /\ Len(SubSeq(s, n + 1, Len(s))) = Len(s) - n
           /\ \A k \in 1..(Len(s) - n) : SubSeq(s, n + 1, Len(s))[k] = s[n + k]
  OBVIOUS

\* What the operations need of a queue value, and keep.
Sound(v, A, n) == QueueType(v, A, n) /\ IndexedExactly(v) /\ InOrder(v)

Reqs(A, n) == [id : 1..n, agent : A]

\* Request x waits in lane k.
InLane(v, k, x) == \E p \in DOMAIN v.lanes[k] : v.lanes[k][p] = x

\* What a sound queue says of each entry of a lane.
LEMMA EntryFacts ==
    ASSUME NEW v, NEW A, NEW n \in Nat, Sound(v, A, n)
    PROVE  /\ \A k \in Levels : /\ v.lanes[k] \in Seq(Reqs(A, n))
                                /\ Len(v.lanes[k]) \in Nat
                                /\ DOMAIN v.lanes[k] = 1..Len(v.lanes[k])
           /\ \A k \in Levels : \A p \in DOMAIN v.lanes[k] :
                /\ v.lanes[k][p] \in Reqs(A, n)
                /\ v.lanes[k][p].id \in 1..n
                /\ v.lanes[k][p].id \in DOMAIN v.index
                /\ v.index[v.lanes[k][p].id] = k
  <1>1. v.lanes \in [Levels -> Seq(Reqs(A, n))]
    BY DEF Sound, QueueType, Reqs
  <1>2. ASSUME NEW k \in Levels
        PROVE  /\ v.lanes[k] \in Seq(Reqs(A, n))
               /\ Len(v.lanes[k]) \in Nat
               /\ DOMAIN v.lanes[k] = 1..Len(v.lanes[k])
    BY <1>1
  <1>3. ASSUME NEW k \in Levels, NEW p \in DOMAIN v.lanes[k]
        PROVE  v.lanes[k][p] \in Reqs(A, n)
    BY <1>2
  <1>4. \A r \in Reqs(A, n) : r.id \in 1..n
    BY DEF Reqs
  <1>5. \A k \in Levels : \A p \in DOMAIN v.lanes[k] : v.lanes[k][p].id \in Ids(v)
    BY DEF Ids, Requests
  <1>6. \A k \in Levels : \A p \in DOMAIN v.lanes[k] :
            /\ v.lanes[k][p].id \in DOMAIN v.index
            /\ v.index[v.lanes[k][p].id] = k
    BY <1>5 DEF Sound, IndexedExactly
  <1> QED BY <1>2, <1>3, <1>4, <1>6

\* Pushing the next request keeps the queue sound and adds it to one lane.
LEMMA PushSound ==
    ASSUME NEW v, NEW A, NEW n \in Nat, Sound(v, A, n), NEW a \in A, NEW l \in Levels
    PROVE  LET r == [id |-> n + 1, agent |-> a]
           IN  /\ Sound(Push(v, r, l), A, n + 1)
               /\ \A k \in Levels : \A x :
                    InLane(Push(v, r, l), k, x) <=> InLane(v, k, x) \/ (k = l /\ x = r)
  <1> DEFINE r == [id |-> n + 1, agent |-> a]
             w == Push(v, r, l)
             R == Reqs(A, n + 1)
  <1>1. /\ w.lanes = [v.lanes EXCEPT ![l] = Append(@, r)]
        /\ w.index = [i \in DOMAIN v.index \cup {n + 1} |->
                        IF i = n + 1 THEN l ELSE v.index[i]]
        /\ w = [lanes |-> w.lanes, index |-> w.index]
    BY DEF Push
  <1>2. /\ v.lanes = [k \in Levels |-> v.lanes[k]]
        /\ v.index \in [DOMAIN v.index -> Levels]
    BY DEF Sound, QueueType
  <1>3. r \in R /\ r.id = n + 1
    BY DEF Reqs
  <1>4. Reqs(A, n) \subseteq R
    BY DEF Reqs
  <1> HIDE DEF w, r, R
  <1>5. ASSUME NEW k \in Levels
        PROVE  /\ v.lanes[k] \in Seq(R)
               /\ w.lanes[k] \in Seq(R)
               /\ k # l => w.lanes[k] = v.lanes[k]
               /\ k = l => w.lanes[k] = Append(v.lanes[k], r)
    <2>1. v.lanes[k] \in Seq(R)
      BY <1>4, EntryFacts, SeqMonotonic
    <2>2. w.lanes[k] = IF k = l THEN Append(v.lanes[k], r) ELSE v.lanes[k]
      BY <1>1, <1>2
    <2> QED BY <1>3, <2>1, <2>2
  <1>6. w.lanes \in [Levels -> Seq(R)]
    BY <1>1, <1>2, <1>5
  <1>6a. /\ Len(v.lanes[l]) \in Nat
         /\ DOMAIN v.lanes[l] = 1..Len(v.lanes[l])
         /\ DOMAIN w.lanes[l] = 1..(Len(v.lanes[l]) + 1)
         /\ \A p \in 1..Len(v.lanes[l]) : w.lanes[l][p] = v.lanes[l][p]
         /\ w.lanes[l][Len(v.lanes[l]) + 1] = r
    <2>1. v.lanes[l] \in Seq(R) /\ w.lanes[l] \in Seq(R) /\ w.lanes[l] = Append(v.lanes[l], r)
      BY <1>5
    <2>2. /\ Len(w.lanes[l]) = Len(v.lanes[l]) + 1
          /\ \A p \in 1..Len(v.lanes[l]) : w.lanes[l][p] = v.lanes[l][p]
          /\ w.lanes[l][Len(v.lanes[l]) + 1] = r
      BY <1>3, <2>1, AppendProperties
    <2> QED BY <2>1, <2>2, LenProperties
  <1>7. ASSUME NEW k \in Levels, NEW p \in DOMAIN w.lanes[k]
        PROVE  \/ p \in DOMAIN v.lanes[k] /\ w.lanes[k][p] = v.lanes[k][p]
               \/ k = l /\ p = Len(v.lanes[l]) + 1 /\ w.lanes[k][p] = r
    <2>1. CASE k = l
      BY SMTT(40), <2>1, <1>6a
    <2>2. CASE k # l
      BY <2>2, <1>5
    <2> QED BY <2>1, <2>2
  <1>8. ASSUME NEW k \in Levels, NEW p \in DOMAIN v.lanes[k]
        PROVE  p \in DOMAIN w.lanes[k] /\ w.lanes[k][p] = v.lanes[k][p]
    <2>1. CASE k = l
      BY <2>1, <1>6a
    <2>2. CASE k # l
      BY <2>2, <1>5
    <2> QED BY <2>1, <2>2
  <1>9. /\ Len(v.lanes[l]) + 1 \in DOMAIN w.lanes[l]
        /\ w.lanes[l][Len(v.lanes[l]) + 1] = r
    BY <1>6a
  <1>10. Ids(w) = Ids(v) \cup {n + 1}
    <2>1. \A i : i \in Ids(w) <=> \E k \in Levels : \E p \in DOMAIN w.lanes[k] : i = w.lanes[k][p].id
      BY DEF Ids, Requests
    <2>2. \A i : i \in Ids(v) <=> \E k \in Levels : \E p \in DOMAIN v.lanes[k] : i = v.lanes[k][p].id
      BY DEF Ids, Requests
    <2> QED BY <1>3, <1>7, <1>8, <1>9, <2>1, <2>2
  <1>11. QueueType(w, A, n + 1)
    <2>1. w.index \in [DOMAIN w.index -> Levels]
      BY <1>1, <1>2
    <2> QED BY <1>1, <1>6, <2>1 DEF QueueType, R, Reqs
  <1>12. IndexedExactly(w)
    <2>1. DOMAIN w.index = Ids(w)
      BY <1>1, <1>10 DEF Sound, IndexedExactly
    <2>2. ASSUME NEW k \in Levels, NEW p \in DOMAIN w.lanes[k]
          PROVE  w.index[w.lanes[k][p].id] = k
      BY <1>1, <1>3, <1>7, EntryFacts
    <2> QED BY <2>1, <2>2 DEF IndexedExactly
  <1>13. InOrder(w)
    <2>1. ASSUME NEW k \in Levels, NEW p \in DOMAIN w.lanes[k],
                 NEW m \in DOMAIN w.lanes[k], p < m
          PROVE  w.lanes[k][p].id < w.lanes[k][m].id
      <3>1. CASE m \in DOMAIN v.lanes[k]
        BY SMTT(40), <2>1, <3>1, <1>7, <1>8, <1>9, EntryFacts DEF Sound, InOrder
      <3>2. CASE m \notin DOMAIN v.lanes[k]
        BY SMTT(40), <2>1, <3>2, <1>3, <1>7, EntryFacts
      <3> QED BY <3>1, <3>2
    <2> QED BY <2>1 DEF InOrder
  <1>14. ASSUME NEW k \in Levels, NEW x
         PROVE  InLane(w, k, x) <=> InLane(v, k, x) \/ (k = l /\ x = r)
    BY <1>7, <1>8, <1>9 DEF InLane
  <1> QED BY <1>11, <1>12, <1>13, <1>14 DEF Sound, w, r

\* The lanes of w are thinned out lanes of v, entry p of lane k of w was entry
\* f[k][p] of v, and the index of w is the part of v's that it still needs.
Thins(w, v, A, n, f) ==
    /\ w = [lanes |-> w.lanes, index |-> w.index]
    /\ w.lanes \in [Levels -> Seq(Reqs(A, n))]
    /\ w.index = [i \in Ids(w) |-> v.index[i]]
    /\ \A k \in Levels : \A p \in DOMAIN w.lanes[k] :
            /\ f[k][p] \in DOMAIN v.lanes[k]
            /\ w.lanes[k][p] = v.lanes[k][f[k][p]]
    /\ \A k \in Levels : \A p, m \in DOMAIN w.lanes[k] :
            p < m => f[k][p] < f[k][m]

\* Thinning out a sound queue leaves a sound queue.
LEMMA ThinnedSound ==
    ASSUME NEW v, NEW A, NEW n \in Nat, Sound(v, A, n), NEW w, NEW f, Thins(w, v, A, n, f)
    PROVE  Sound(w, A, n)
  <1> USE DEF Thins
  <1>1. \A i : i \in Ids(w) <=>
            \E k \in Levels : \E p \in DOMAIN w.lanes[k] : i = w.lanes[k][p].id
    BY DEF Ids, Requests
  <1>0. ASSUME NEW k \in Levels, NEW p \in DOMAIN w.lanes[k]
        PROVE  /\ w.lanes[k][p].id \in DOMAIN v.index
               /\ v.index[w.lanes[k][p].id] = k
    <2>1. f[k][p] \in DOMAIN v.lanes[k] /\ w.lanes[k][p] = v.lanes[k][f[k][p]]
      OBVIOUS
    <2> QED BY <2>1, EntryFacts
  <1>2. \A i \in Ids(w) : i \in DOMAIN v.index
    BY <1>0, <1>1
  <1>3. QueueType(w, A, n)
    <2>1. v.index \in [DOMAIN v.index -> Levels]
      BY DEF Sound, QueueType
    <2>2. w.index \in [DOMAIN w.index -> Levels]
      BY <1>2, <2>1
    <2> QED BY <2>2 DEF QueueType, Reqs
  <1>4. IndexedExactly(w)
    <2>1. ASSUME NEW k \in Levels, NEW p \in DOMAIN w.lanes[k]
          PROVE  w.index[w.lanes[k][p].id] = k
      BY <1>0, <1>1
    <2> QED BY <2>1 DEF IndexedExactly
  <1>5. InOrder(w)
    <2>1. ASSUME NEW k \in Levels, NEW p \in DOMAIN w.lanes[k],
                 NEW m \in DOMAIN w.lanes[k], p < m
          PROVE  w.lanes[k][p].id < w.lanes[k][m].id
      <3>1. f[k][p] < f[k][m]
        BY <2>1
      <3> QED BY <3>1 DEF Sound, InOrder
    <2> QED BY <2>1 DEF InOrder
  <1> QED BY <1>3, <1>4, <1>5 DEF Sound

\* Two entries of a sound queue with the same id are the same entry.
LEMMA EntriesDiffer ==
    ASSUME NEW v, NEW A, NEW n \in Nat, Sound(v, A, n),
           NEW k \in Levels, NEW p \in DOMAIN v.lanes[k],
           NEW l \in Levels, NEW m \in DOMAIN v.lanes[l],
           v.lanes[k][p].id = v.lanes[l][m].id
    PROVE  k = l /\ p = m
  <1>1. k = l
    BY EntryFacts
  <1>2. p \in Nat /\ m \in Nat
    BY EntryFacts
  <1>3. ~(p < m) /\ ~(m < p)
    BY <1>1, EntryFacts DEF Sound, InOrder
  <1> QED BY <1>1, <1>2, <1>3

\* Removing an entry keeps the queue sound and takes nothing else away.
LEMMA RemoveEntrySound ==
    ASSUME NEW v, NEW A, NEW n \in Nat, Sound(v, A, n),
           NEW l \in Levels, NEW p \in DOMAIN v.lanes[l]
    PROVE  /\ Sound(RemoveEntry(v, l, p), A, n)
           /\ Ids(RemoveEntry(v, l, p)) = Ids(v) \ {v.lanes[l][p].id}
           /\ \A k \in Levels : \A x :
                InLane(RemoveEntry(v, l, p), k, x)
                    <=> InLane(v, k, x) /\ ~(k = l /\ x = v.lanes[l][p])
  <1> DEFINE w == RemoveEntry(v, l, p)
             f == [k \in Levels |-> [m \in Nat |->
                    IF k # l \/ m < p THEN m ELSE m + 1]]
  <1>1. /\ w.lanes = [v.lanes EXCEPT ![l] = WithoutPos(@, p)]
        /\ w.index = [i \in DOMAIN v.index \ {v.lanes[l][p].id} |-> v.index[i]]
        /\ w = [lanes |-> w.lanes, index |-> w.index]
    BY DEF RemoveEntry
  <1>2. v.lanes = [k \in Levels |-> v.lanes[k]]
    BY DEF Sound, QueueType
  <1> HIDE DEF w
  <1>3. /\ v.lanes[l] \in Seq(Reqs(A, n))
        /\ p \in 1..Len(v.lanes[l])
        /\ Len(v.lanes[l]) \in Nat
        /\ DOMAIN v.lanes[l] = 1..Len(v.lanes[l])
    BY EntryFacts
  <1>4. /\ \A k \in Levels : k # l => w.lanes[k] = v.lanes[k]
        /\ w.lanes[l] = WithoutPos(v.lanes[l], p)
    BY <1>1, <1>2
  <1>5. /\ w.lanes[l] \in Seq(Reqs(A, n))
        /\ Len(w.lanes[l]) = Len(v.lanes[l]) - 1
        /\ DOMAIN w.lanes[l] = 1..(Len(v.lanes[l]) - 1)
        /\ \A k \in 1..(Len(v.lanes[l]) - 1) :
                w.lanes[l][k] = IF k < p THEN v.lanes[l][k] ELSE v.lanes[l][k + 1]
    <2>1. /\ w.lanes[l] \in Seq(Reqs(A, n))
          /\ Len(w.lanes[l]) = Len(v.lanes[l]) - 1
          /\ \A k \in 1..(Len(v.lanes[l]) - 1) :
                w.lanes[l][k] = IF k < p THEN v.lanes[l][k] ELSE v.lanes[l][k + 1]
      BY SMTT(40), <1>3, <1>4, WithoutPosFacts
    <2> QED BY <2>1, LenProperties
  <1>6. w.lanes \in [Levels -> Seq(Reqs(A, n))]
    BY <1>1, <1>2, <1>4, <1>5, EntryFacts
  <1>7. ASSUME NEW k \in Levels, NEW m \in DOMAIN w.lanes[k]
        PROVE  /\ m \in Nat
               /\ f[k][m] \in DOMAIN v.lanes[k]
               /\ w.lanes[k][m] = v.lanes[k][f[k][m]]
               /\ ~(k = l /\ f[k][m] = p)
    <2>1. CASE k = l
      <3>1. m \in 1..(Len(v.lanes[l]) - 1)
        BY <2>1, <1>5
      <3>2. f[k][m] = IF m < p THEN m ELSE m + 1
        BY <2>1, <3>1, <1>3
      <3>3. f[k][m] \in 1..Len(v.lanes[l]) /\ f[k][m] # p
        BY <3>1, <3>2, <1>3
      <3>4. w.lanes[l][m] = v.lanes[l][f[k][m]]
        BY <3>1, <3>2, <1>5
      <3>5. m \in Nat
        BY <3>1
      <3> HIDE DEF f
      <3> QED BY <2>1, <3>3, <3>4, <3>5, <1>3
    <2>2. CASE k # l
      <3>1. m \in Nat /\ m \in DOMAIN v.lanes[k] /\ w.lanes[k] = v.lanes[k]
        BY <2>2, <1>4, EntryFacts
      <3>2. f[k][m] = m
        BY <2>2, <3>1
      <3> QED BY <2>2, <3>1, <3>2
    <2> QED BY <2>1, <2>2
  <1>8. ASSUME NEW k \in Levels, NEW m \in DOMAIN v.lanes[k], ~(k = l /\ m = p)
        PROVE  \E j \in DOMAIN w.lanes[k] : w.lanes[k][j] = v.lanes[k][m]
    <2>1. CASE k # l
      BY <2>1, <1>4
    <2>2. CASE k = l /\ m < p
      <3>1. m \in 1..(Len(v.lanes[l]) - 1)
        BY <2>2, <1>3
      <3> QED BY <2>2, <3>1, <1>5
    <2>3. CASE k = l /\ m > p
      <3>1. m - 1 \in 1..(Len(v.lanes[l]) - 1) /\ ~(m - 1 < p) /\ (m - 1) + 1 = m
        BY <2>3, <1>3
      <3>2. w.lanes[l][m - 1] = v.lanes[l][m]
        BY <3>1, <1>5
      <3> QED BY <2>3, <3>1, <3>2, <1>5
    <2>4. m \in Nat /\ p \in Nat
      BY EntryFacts
    <2> QED BY <1>8, <2>1, <2>2, <2>3, <2>4
  <1>9. \A i : i \in Ids(w) <=>
            \E k \in Levels : \E m \in DOMAIN w.lanes[k] : i = w.lanes[k][m].id
    BY DEF Ids, Requests
  <1>10. \A i : i \in Ids(v) <=>
            \E k \in Levels : \E m \in DOMAIN v.lanes[k] : i = v.lanes[k][m].id
    BY DEF Ids, Requests
  <1>11. ASSUME NEW i \in Ids(w)
         PROVE  i \in Ids(v) /\ i # v.lanes[l][p].id
    <2>0. PICK k \in Levels : \E m \in DOMAIN w.lanes[k] : i = w.lanes[k][m].id
      BY <1>9
    <2>1. PICK m \in DOMAIN w.lanes[k] : i = w.lanes[k][m].id
      BY <2>0
    <2>2. /\ f[k][m] \in DOMAIN v.lanes[k]
          /\ i = v.lanes[k][f[k][m]].id
          /\ ~(k = l /\ f[k][m] = p)
      BY <1>7, <2>1
    <2> HIDE DEF f
    <2> QED BY <1>10, <2>2, EntriesDiffer
  <1>12. ASSUME NEW i \in Ids(v), i # v.lanes[l][p].id
         PROVE  i \in Ids(w)
    <2>1. PICK k \in Levels : \E m \in DOMAIN v.lanes[k] : i = v.lanes[k][m].id
      BY <1>10
    <2>2. PICK m \in DOMAIN v.lanes[k] : i = v.lanes[k][m].id
      BY <2>1
    <2> QED BY <1>8, <1>9, <1>12, <2>2
  <1>13. Ids(w) = Ids(v) \ {v.lanes[l][p].id}
    BY <1>11, <1>12
  <1>14. w.index = [i \in Ids(w) |-> v.index[i]]
    BY <1>1, <1>13 DEF Sound, IndexedExactly
  <1>15. \A k \in Levels : \A m, j \in DOMAIN w.lanes[k] : m < j => f[k][m] < f[k][j]
    <2>1. ASSUME NEW k \in Levels, NEW m \in Nat
          PROVE  f[k][m] = IF k # l \/ m < p THEN m ELSE m + 1
      OBVIOUS
    <2>2. p \in Nat
      BY <1>3
    <2> HIDE DEF f
    <2> QED BY <1>7, <2>1, <2>2
  <1>16. \A k \in Levels : \A m \in DOMAIN w.lanes[k] :
            f[k][m] \in DOMAIN v.lanes[k] /\ w.lanes[k][m] = v.lanes[k][f[k][m]]
    BY <1>7
  <1> HIDE DEF f
  <1>17. Sound(w, A, n)
    <2>1. Thins(w, v, A, n, f)
      BY <1>1, <1>6, <1>14, <1>15, <1>16 DEF Thins
    <2> QED BY <2>1, ThinnedSound
  <1>18. ASSUME NEW k \in Levels, NEW x
         PROVE  InLane(w, k, x) <=> InLane(v, k, x) /\ ~(k = l /\ x = v.lanes[l][p])
    <2>1. ASSUME NEW m \in DOMAIN w.lanes[k], w.lanes[k][m] = x
          PROVE  InLane(v, k, x) /\ ~(k = l /\ x = v.lanes[l][p])
      <3>1. /\ f[k][m] \in DOMAIN v.lanes[k] /\ x = v.lanes[k][f[k][m]]
            /\ ~(k = l /\ f[k][m] = p)
        BY <1>7, <2>1
      <3> QED BY <3>1, EntriesDiffer DEF InLane
    <2>2. ASSUME NEW m \in DOMAIN v.lanes[k], v.lanes[k][m] = x, ~(k = l /\ x = v.lanes[l][p])
          PROVE  InLane(w, k, x)
      BY <1>8, <2>2 DEF InLane
    <2> QED BY <2>1, <2>2 DEF InLane
  <1> QED BY <1>13, <1>17, <1>18 DEF w

\* A set of numbers that is not empty has a least member.
LEMMA LeastMember ==
    ASSUME NEW T \in SUBSET Nat, T # {}
    PROVE  \E x \in T : \A y \in T : x <= y
  <1> DEFINE R == OpToRel(<, Nat)
  <1>1. IsWellFoundedOn(R, Nat)
    BY NatLessThanWellFounded
  <1>2. \A x, y \in Nat : x < y => <<x, y>> \in R
    BY DEF OpToRel
  <1> HIDE DEF R
  <1>3. \E x \in T : \A y \in T : ~(<<y, x>> \in R)
    BY <1>1, WFMin
  <1>4. PICK x \in T : \A y \in T : ~(<<y, x>> \in R)
    BY <1>3
  <1>5. ASSUME NEW y \in T
        PROVE  x <= y
    <2>1. x \in Nat /\ y \in Nat /\ ~(<<y, x>> \in R)
      BY <1>4
    <2>2. ~(y < x)
      BY <1>2, <2>1
    <2> QED BY <2>1, <2>2
  <1> QED BY <1>5

\* Dropping what has expired keeps the queue sound and takes nothing else away.
LEMMA DropExpiredSound ==
    ASSUME NEW v, NEW A, NEW n \in Nat, Sound(v, A, n), NEW e \in [Levels -> Nat],
           \A k \in Levels : e[k] <= Len(v.lanes[k])
    PROVE  /\ Sound(DropExpired(v, e), A, n)
           /\ Ids(DropExpired(v, e)) \subseteq Ids(v)
           /\ \A k \in Levels : \A x :
                InLane(DropExpired(v, e), k, x)
                    <=> InLane(v, k, x) /\ \A m \in 1..e[k] : x # v.lanes[k][m]
  <1> DEFINE w == DropExpired(v, e)
             gone == {r.id : r \in Expired(v, e)}
             f == [k \in Levels |-> [m \in Nat |-> e[k] + m]]
  <1>1. /\ w.lanes = [k \in Levels |-> SubSeq(v.lanes[k], e[k] + 1, Len(v.lanes[k]))]
        /\ w.index = [i \in DOMAIN v.index \ gone |-> v.index[i]]
        /\ w = [lanes |-> w.lanes, index |-> w.index]
    BY DEF DropExpired
  <1> HIDE DEF w
  <1>2. ASSUME NEW k \in Levels
        PROVE  /\ w.lanes[k] \in Seq(Reqs(A, n))
               /\ Len(v.lanes[k]) \in Nat
               /\ DOMAIN v.lanes[k] = 1..Len(v.lanes[k])
               /\ DOMAIN w.lanes[k] = 1..(Len(v.lanes[k]) - e[k])
               /\ \A m \in 1..(Len(v.lanes[k]) - e[k]) : w.lanes[k][m] = v.lanes[k][e[k] + m]
    <2>1. v.lanes[k] \in Seq(Reqs(A, n)) /\ Len(v.lanes[k]) \in Nat /\ e[k] \in 0..Len(v.lanes[k])
          /\ DOMAIN v.lanes[k] = 1..Len(v.lanes[k])
      BY EntryFacts
    <2>2. w.lanes[k] = SubSeq(v.lanes[k], e[k] + 1, Len(v.lanes[k]))
      BY <1>1
    <2>3. /\ w.lanes[k] \in Seq(Reqs(A, n))
          /\ Len(w.lanes[k]) = Len(v.lanes[k]) - e[k]
          /\ \A m \in 1..(Len(v.lanes[k]) - e[k]) : w.lanes[k][m] = v.lanes[k][e[k] + m]
      BY SMTT(40), <2>1, <2>2, DropPrefixFacts
    <2> QED BY <2>1, <2>3, LenProperties
  <1>3. \A i : i \in Ids(w) <=>
            \E k \in Levels : \E m \in DOMAIN w.lanes[k] : i = w.lanes[k][m].id
    BY DEF Ids, Requests
  <1>4. \A i : i \in Ids(v) <=>
            \E k \in Levels : \E m \in DOMAIN v.lanes[k] : i = v.lanes[k][m].id
    BY DEF Ids, Requests
  <1>5. \A i : i \in gone <=> \E k \in Levels : \E m \in 1..e[k] : i = v.lanes[k][m].id
    BY DEF Expired
  <1> HIDE DEF gone
  <1>6. ASSUME NEW k \in Levels, NEW m \in DOMAIN w.lanes[k]
        PROVE  /\ m \in Nat
               /\ f[k][m] = e[k] + m
               /\ f[k][m] \in DOMAIN v.lanes[k]
               /\ w.lanes[k][m] = v.lanes[k][f[k][m]]
    <2>1. m \in 1..(Len(v.lanes[k]) - e[k]) /\ e[k] \in Nat /\ Len(v.lanes[k]) \in Nat
      BY <1>2
    <2>2. f[k][m] = e[k] + m
      BY <2>1
    <2>3. e[k] + m \in 1..Len(v.lanes[k])
      BY <2>1
    <2> HIDE DEF f
    <2> QED BY SMTT(40), <2>1, <2>2, <2>3, <1>2
  <1>7. \A k \in Levels : \A m, j \in DOMAIN w.lanes[k] : m < j => f[k][m] < f[k][j]
    <2> HIDE DEF f
    <2> QED BY <1>6
  <1> HIDE DEF f
  <1>8. ASSUME NEW i \in Ids(w)
        PROVE  i \in Ids(v) /\ i \notin gone
    <2>1. PICK k \in Levels : \E m \in DOMAIN w.lanes[k] : i = w.lanes[k][m].id
      BY <1>3
    <2>2. PICK m \in DOMAIN w.lanes[k] : i = w.lanes[k][m].id
      BY <2>1
    <2>3. f[k][m] \in DOMAIN v.lanes[k] /\ i = v.lanes[k][f[k][m]].id
      BY <1>6, <2>2
    <2>4. f[k][m] > e[k] /\ m \in Nat
      BY <1>2, <1>6
    <2>5. ASSUME NEW l \in Levels, NEW j \in 1..e[l]
          PROVE  i # v.lanes[l][j].id
      <3>1. j \in DOMAIN v.lanes[l]
        BY <1>2
      <3>2. i = v.lanes[l][j].id => k = l /\ f[k][m] = j
        BY <2>3, <3>1, EntriesDiffer
      <3> QED BY <2>4, <3>2
    <2> QED BY SMTT(40), <1>4, <1>5, <2>3, <2>5
  <1>9. ASSUME NEW i \in Ids(v), i \notin gone
        PROVE  i \in Ids(w)
    <2>1. PICK k \in Levels : \E m \in DOMAIN v.lanes[k] : i = v.lanes[k][m].id
      BY <1>4
    <2>2. PICK m \in DOMAIN v.lanes[k] : i = v.lanes[k][m].id
      BY <2>1
    <2>3. m \in 1..Len(v.lanes[k]) /\ Len(v.lanes[k]) \in Nat /\ e[k] \in Nat
      BY <1>2
    <2>4. m \notin 1..e[k]
      BY <1>5, <1>9, <2>2
    <2>5. m - e[k] \in 1..(Len(v.lanes[k]) - e[k]) /\ e[k] + (m - e[k]) = m
      BY <2>3, <2>4
    <2>6. m - e[k] \in DOMAIN w.lanes[k] /\ w.lanes[k][m - e[k]] = v.lanes[k][m]
      BY <1>2, <2>5
    <2> QED BY <1>3, <2>2, <2>6
  <1>10. Ids(w) = DOMAIN v.index \ gone
    BY <1>8, <1>9 DEF Sound, IndexedExactly
  <1>11. Thins(w, v, A, n, f)
    <2>1. w.lanes \in [Levels -> Seq(Reqs(A, n))]
      BY <1>1, <1>2
    <2>2. w.index = [i \in Ids(w) |-> v.index[i]]
      BY <1>1, <1>10
    <2> QED BY <1>1, <1>6, <1>7, <2>1, <2>2 DEF Thins
  <1>12. Sound(w, A, n)
    BY <1>11, ThinnedSound
  <1>13. ASSUME NEW k \in Levels, NEW x
         PROVE  InLane(w, k, x) <=> InLane(v, k, x) /\ \A m \in 1..e[k] : x # v.lanes[k][m]
    <2>1. ASSUME NEW m \in DOMAIN w.lanes[k], w.lanes[k][m] = x
          PROVE  InLane(v, k, x) /\ \A j \in 1..e[k] : x # v.lanes[k][j]
      <3>1. /\ f[k][m] \in DOMAIN v.lanes[k] /\ x = v.lanes[k][f[k][m]]
            /\ f[k][m] = e[k] + m /\ m \in 1..(Len(v.lanes[k]) - e[k]) /\ e[k] \in Nat
        BY <1>2, <1>6, <2>1
      <3>2. ASSUME NEW j \in 1..e[k]
            PROVE  x # v.lanes[k][j]
        <4>1. j \in DOMAIN v.lanes[k] /\ j # f[k][m]
          BY <1>2, <3>1
        <4> QED BY <3>1, <4>1, EntriesDiffer
      <3> QED BY <3>1, <3>2 DEF InLane
    <2>2. ASSUME NEW m \in DOMAIN v.lanes[k], v.lanes[k][m] = x,
                 \A j \in 1..e[k] : x # v.lanes[k][j]
          PROVE  InLane(w, k, x)
      <3>1. m \in 1..Len(v.lanes[k]) /\ Len(v.lanes[k]) \in Nat /\ e[k] \in Nat /\ m \notin 1..e[k]
        BY <1>2, <2>2
      <3>2. m - e[k] \in 1..(Len(v.lanes[k]) - e[k]) /\ e[k] + (m - e[k]) = m
        BY <3>1
      <3>3. m - e[k] \in DOMAIN w.lanes[k] /\ w.lanes[k][m - e[k]] = v.lanes[k][m]
        BY <1>2, <3>2
      <3> QED BY <2>2, <3>3 DEF InLane
    <2> QED BY <2>1, <2>2 DEF InLane
  <1> QED BY <1>8, <1>12, <1>13 DEF w

\* The lane that peek and pop look at exists and holds something.
LEMMA FirstLaneFacts ==
    ASSUME NEW v, NEW A, NEW n \in Nat, Sound(v, A, n), ~IsEmpty(v)
    PROVE  /\ FirstLane(v) \in Levels
           /\ 1 \in DOMAIN v.lanes[FirstLane(v)]
           /\ \A k \in Levels : k < FirstLane(v) => v.lanes[k] = <<>>
  <1> DEFINE T == {l \in Levels : v.lanes[l] # <<>>}
             First(l) == /\ v.lanes[l] # <<>>
                         /\ \A k \in Levels : k < l => v.lanes[k] = <<>>
  <1>1. T \in SUBSET Nat /\ T # {} /\ \A l \in Levels : l \in Nat
    BY DEF IsEmpty, Levels, Critical, Low
  <1>2. PICK x \in T : \A y \in T : x <= y
    BY <1>1, LeastMember
  <1>3. x \in Levels /\ First(x)
    BY <1>1, <1>2
  <1>4. FirstLane(v) \in Levels /\ First(FirstLane(v))
    BY <1>3 DEF FirstLane
  <1>5. /\ v.lanes[FirstLane(v)] \in Seq(Reqs(A, n))
        /\ DOMAIN v.lanes[FirstLane(v)] = 1..Len(v.lanes[FirstLane(v)])
    BY <1>4, EntryFacts
  <1>6. Len(v.lanes[FirstLane(v)]) \in Nat \ {0}
    BY <1>4, <1>5, EmptySeq
  <1> QED BY <1>4, <1>5, <1>6

\* The place where find_by_agent_id ends exists and holds a request of the
\* agent, the first one.
LEMMA FindFacts ==
    ASSUME NEW v, NEW A, NEW n \in Nat, Sound(v, A, n), NEW a, HasRequest(v, a)
    PROVE  LET l == LaneOf(v, a)
               p == PosOf(v.lanes[l], a)
           IN  /\ l \in Levels
               /\ p \in DOMAIN v.lanes[l]
               /\ v.lanes[l][p].agent = a
               /\ \A m \in 1..(p - 1) : v.lanes[l][m].agent # a
               /\ \A k \in Levels : k < l =>
                    \A m \in DOMAIN v.lanes[k] : v.lanes[k][m].agent # a
  <1> DEFINE Named(k) == \E m \in DOMAIN v.lanes[k] : v.lanes[k][m].agent = a
             T == {k \in Levels : Named(k)}
             l == LaneOf(v, a)
             s == v.lanes[l]
             P == {m \in DOMAIN s : s[m].agent = a}
             p == PosOf(s, a)
  <1>1. T \in SUBSET Nat /\ \A k \in Levels : k \in Nat
    BY DEF Levels, Critical, Low
  <1>2. T # {}
    BY DEF HasRequest, Requests
  <1>3. PICK x \in T : \A y \in T : x <= y
    BY <1>1, <1>2, LeastMember
  <1>4. /\ x \in Levels
        /\ \E m \in DOMAIN v.lanes[x] : v.lanes[x][m].agent = a
        /\ \A k \in Levels : k < x => \A m \in DOMAIN v.lanes[k] : v.lanes[k][m].agent # a
    BY <1>1, <1>3
  <1>5. /\ l \in Levels
        /\ \E m \in DOMAIN v.lanes[l] : v.lanes[l][m].agent = a
        /\ \A k \in Levels : k < l => \A m \in DOMAIN v.lanes[k] : v.lanes[k][m].agent # a
    BY <1>4 DEF LaneOf
  <1>6. DOMAIN s = 1..Len(s) /\ Len(s) \in Nat
    BY <1>5, EntryFacts
  <1>7. P \in SUBSET Nat /\ P # {}
    BY <1>5, <1>6
  <1>8. PICK z \in P : \A y \in P : z <= y
    BY <1>7, LeastMember
  <1>9. /\ z \in DOMAIN s
        /\ s[z].agent = a
        /\ \A m \in 1..(z - 1) : s[m].agent # a
    BY <1>6, <1>8
  <1> HIDE DEF l, s
  <1>10. /\ p \in DOMAIN s
         /\ s[p].agent = a
         /\ \A m \in 1..(p - 1) : s[m].agent # a
    BY <1>9 DEF PosOf
  <1> QED BY <1>5, <1>10 DEF l, s

\* complete() removes the one entry that has the id.
LEMMA CompleteFacts ==
    ASSUME NEW v, NEW A, NEW n \in Nat, Sound(v, A, n), NEW id, Indexed(v, id)
    PROVE  \E l \in Levels : \E p \in DOMAIN v.lanes[l] :
                /\ v.lanes[l][p].id = id
                /\ Complete(v, id) = RemoveEntry(v, l, p)
  <1>1. id \in Ids(v)
    BY DEF Indexed, Sound, IndexedExactly
  <1>2. PICK l \in Levels : \E p \in DOMAIN v.lanes[l] : v.lanes[l][p].id = id
    BY <1>1 DEF Ids, Requests
  <1>3. PICK p \in DOMAIN v.lanes[l] : v.lanes[l][p].id = id
    BY <1>2
  <1>4. v.index[id] = l
    BY <1>3, EntryFacts
  <1> DEFINE held == {m \in DOMAIN v.lanes[l] : v.lanes[l][m].id = id}
  <1>5. held = {p}
    BY <1>3, EntriesDiffer
  <1>6. p \in Nat
    BY EntryFacts
  <1>7. (CHOOSE m \in held : \A k \in held : m <= k) = p
    BY <1>5, <1>6
  <1>8. Complete(v, id) = RemoveEntry(v, l, p)
    BY <1>4, <1>5, <1>7 DEF Complete
  <1> QED BY <1>3, <1>8

\* A queue that holds nothing is sound.
LEMMA EmptyIsSound ==
    ASSUME NEW A, NEW n \in Nat
    PROVE  Sound(EmptyQueue, A, n) /\ Ids(EmptyQueue) = {}
  <1>1. /\ EmptyQueue.lanes = [l \in Levels |-> <<>>]
        /\ EmptyQueue.index = [i \in {} |-> Critical]
        /\ EmptyQueue = [lanes |-> EmptyQueue.lanes, index |-> EmptyQueue.index]
    BY DEF EmptyQueue
  <1>2. \A l \in Levels : EmptyQueue.lanes[l] = <<>> /\ DOMAIN EmptyQueue.lanes[l] = {}
    BY <1>1
  <1>3. Ids(EmptyQueue) = {}
    BY <1>2 DEF Ids, Requests
  <1>4. QueueType(EmptyQueue, A, n)
    BY <1>1 DEF QueueType
  <1>5. IndexedExactly(EmptyQueue)
    BY <1>1, <1>2, <1>3 DEF IndexedExactly
  <1>6. InOrder(EmptyQueue)
    BY <1>2 DEF InOrder
  <1> QED BY <1>3, <1>4, <1>5, <1>6 DEF Sound
-----------------------------------------------------------------------------
(* What an operation leaves of the requests *)

\* Pushing adds the request and keeps the others.
LEMMA PushRequests ==
    ASSUME NEW v, NEW A, NEW n \in Nat, Sound(v, A, n), NEW r \in Reqs(A, n + 1), NEW l \in Levels
    PROVE  r \in Requests(Push(v, r, l)) /\ Requests(v) \subseteq Requests(Push(v, r, l))
  <1> DEFINE w == Push(v, r, l)
             R == Reqs(A, n + 1)
  <1>1. w.lanes = [v.lanes EXCEPT ![l] = Append(@, r)] /\ DOMAIN v.lanes = Levels
    BY DEF Push, Sound, QueueType
  <1>2. \A k \in Levels : v.lanes[k] \in Seq(R) /\ DOMAIN v.lanes[k] = 1..Len(v.lanes[k]) /\ Len(v.lanes[k]) \in Nat
    <2>1. Reqs(A, n) \subseteq R
      BY DEF Reqs
    <2> QED BY <2>1, EntryFacts, SeqMonotonic
  <1> HIDE DEF w, R
  <1>3. r \in R
    BY DEF R
  <1>4. /\ w.lanes[l] = Append(v.lanes[l], r)
        /\ \A k \in Levels : k # l => w.lanes[k] = v.lanes[k]
    BY <1>1
  <1>5. /\ DOMAIN w.lanes[l] = 1..(Len(v.lanes[l]) + 1)
        /\ w.lanes[l][Len(v.lanes[l]) + 1] = r
        /\ \A m \in DOMAIN v.lanes[l] : m \in DOMAIN w.lanes[l] /\ w.lanes[l][m] = v.lanes[l][m]
    BY <1>2, <1>3, <1>4, AppendProperties
  <1>6. Len(v.lanes[l]) + 1 \in DOMAIN w.lanes[l]
    BY <1>2, <1>5
  <1>7. r \in Requests(w)
    BY <1>5, <1>6 DEF Requests
  <1>8. ASSUME NEW k \in Levels, NEW m \in DOMAIN v.lanes[k]
        PROVE  m \in DOMAIN w.lanes[k] /\ w.lanes[k][m] = v.lanes[k][m]
    BY <1>4, <1>5
  <1>9. Requests(v) \subseteq Requests(w)
    BY <1>8 DEF Requests
  <1> QED BY <1>7, <1>9 DEF w

\* Removing an entry keeps every other request.
LEMMA RemoveRequests ==
    ASSUME NEW v, NEW A, NEW n \in Nat, Sound(v, A, n),
           NEW l \in Levels, NEW p \in DOMAIN v.lanes[l],
           NEW r \in Requests(v), r # v.lanes[l][p]
    PROVE  r \in Requests(RemoveEntry(v, l, p))
  <1> DEFINE w == RemoveEntry(v, l, p)
  <1>1. w.lanes = [v.lanes EXCEPT ![l] = WithoutPos(@, p)] /\ DOMAIN v.lanes = Levels
    BY DEF RemoveEntry, Sound, QueueType
  <1>2. /\ v.lanes[l] \in Seq(Reqs(A, n))
        /\ DOMAIN v.lanes[l] = 1..Len(v.lanes[l]) /\ Len(v.lanes[l]) \in Nat
    BY EntryFacts
  <1> HIDE DEF w
  <1>3. /\ w.lanes[l] = WithoutPos(v.lanes[l], p)
        /\ \A k \in Levels : k # l => w.lanes[k] = v.lanes[k]
    BY <1>1
  <1>4. PICK k \in Levels : \E m \in DOMAIN v.lanes[k] : r = v.lanes[k][m]
    BY DEF Requests
  <1>5. PICK m \in DOMAIN v.lanes[k] : r = v.lanes[k][m]
    BY <1>4
  <1>6. CASE k # l
    BY <1>3, <1>5, <1>6 DEF Requests, w
  <1>7. CASE k = l
    <2> DEFINE j == IF m < p THEN m ELSE m - 1
    <2>1. m # p
      BY <1>5, <1>7
    <2>2. m \in 1..Len(v.lanes[l]) /\ p \in 1..Len(v.lanes[l])
      BY <1>2, <1>7
    <2>3. j \in 1..(Len(v.lanes[l]) - 1) /\ (IF j < p THEN j ELSE j + 1) = m
      BY <1>2, <2>1, <2>2
    <2> HIDE DEF j
    <2>4. j \in DOMAIN w.lanes[l] /\ w.lanes[l][j] = v.lanes[l][m]
      <3>1. DOMAIN w.lanes[l] = 1..(Len(v.lanes[l]) - 1)
        BY <1>3 DEF WithoutPos
      <3>2. w.lanes[l][j] = IF j < p THEN v.lanes[l][j] ELSE v.lanes[l][j + 1]
        BY <1>3, <2>3 DEF WithoutPos
      <3> QED BY <2>3, <3>1, <3>2
    <2> QED BY <1>5, <1>7, <2>4 DEF Requests, w
  <1> QED BY <1>6, <1>7

\* What has not expired stays.
LEMMA DropRequests ==
    ASSUME NEW v, NEW A, NEW n \in Nat, Sound(v, A, n), NEW e \in [Levels -> Nat],
           \A k \in Levels : e[k] <= Len(v.lanes[k]),
           NEW r \in Requests(v), r \notin Expired(v, e)
    PROVE  r \in Requests(DropExpired(v, e))
  <1> DEFINE w == DropExpired(v, e)
  <1>1. PICK k \in Levels : \E m \in DOMAIN v.lanes[k] : r = v.lanes[k][m]
    BY DEF Requests
  <1>2. PICK m \in DOMAIN v.lanes[k] : r = v.lanes[k][m]
    BY <1>1
  <1>3. /\ v.lanes[k] \in Seq(Reqs(A, n)) /\ Len(v.lanes[k]) \in Nat
        /\ m \in 1..Len(v.lanes[k]) /\ e[k] \in 0..Len(v.lanes[k])
    BY EntryFacts
  <1>4. m \notin 1..e[k]
    BY <1>2 DEF Expired
  <1>5. m - e[k] \in 1..(Len(v.lanes[k]) - e[k]) /\ e[k] + (m - e[k]) = m
    BY <1>3, <1>4
  <1>6. w.lanes[k] = SubSeq(v.lanes[k], e[k] + 1, Len(v.lanes[k]))
    BY DEF DropExpired
  <1> DEFINE T == Reqs(A, n)
             sq == v.lanes[k]
             d == e[k]
  <1>7. sq \in Seq(T) /\ d \in 0..Len(sq)
    BY <1>3
  <1>8. /\ Len(SubSeq(sq, d + 1, Len(sq))) = Len(sq) - d
        /\ SubSeq(sq, d + 1, Len(sq)) \in Seq(T)
        /\ \A i \in 1..(Len(sq) - d) : SubSeq(sq, d + 1, Len(sq))[i] = sq[d + i]
    <2> HIDE DEF T, sq, d
    <2> QED BY <1>7, DropPrefixFacts
  <1>9. DOMAIN w.lanes[k] = 1..(Len(sq) - d)
    BY <1>6, <1>8, LenProperties
  <1> DEFINE i == m - e[k]
  <1>10. i \in 1..(Len(sq) - d) /\ d + i = m
    BY <1>5
  <1>11. i \in DOMAIN w.lanes[k] /\ w.lanes[k][i] = r
    <2>1. w.lanes[k][i] = sq[d + i]
      BY <1>6, <1>8, <1>10
    <2> QED BY <1>2, <1>9, <1>10, <2>1
  <1> HIDE DEF w, i, sq, d
  <1>12. r \in Requests(w)
    BY <1>11 DEF Requests
  <1> QED BY <1>12 DEF w

-----------------------------------------------------------------------------
(* Selections.  A selection of a sequence lists its positions in their order; *)
(* the proof is an induction on the length of the prefix, by way of the      *)
(* shortest prefix for which there is no such list.                          *)
\* g lists the positions of P up to n in order, and r the elements of s there.
Lists(r, g, s, P, n) ==
    /\ Len(r) <= n
    /\ g \in [1..Len(r) -> 1..n]
    /\ \A j, k \in 1..Len(r) : j < k => g[j] < g[k]
    /\ \A k \in 1..Len(r) : r[k] = s[g[k]] /\ g[k] \in P
    /\ \A i \in 1..n : i \in P => \E k \in 1..Len(r) : g[k] = i

LEMMA ListsNext ==
    ASSUME NEW S, NEW s \in Seq(S), NEW P, NEW n \in 1..Len(s),
           NEW r \in Seq(S), NEW g, Lists(r, g, s, P, n - 1)
    PROVE  /\ n \notin P => Lists(r, g, s, P, n)
           /\ n \in P => /\ Append(r, s[n]) \in Seq(S)
                         /\ \E h : Lists(Append(r, s[n]), h, s, P, n)
  <1> DEFINE m == Len(r)
  <1>1. m \in Nat /\ n \in Nat /\ n - 1 \in Nat /\ s[n] \in S /\ \A i \in 1..(n-1) : i \in 1..n
    OBVIOUS
  <1>2. \A i \in 1..n : i = n \/ i \in 1..(n-1)
    OBVIOUS
  <1>3. ASSUME n \notin P PROVE Lists(r, g, s, P, n)
    <2>1. g \in [1..Len(r) -> 1..n]
      BY <1>1 DEF Lists
    <2>2. Len(r) <= n
      BY <1>1 DEF Lists
    <2> QED BY <1>2, <1>3, <2>1, <2>2 DEF Lists
  <1>4. ASSUME n \in P PROVE Append(r, s[n]) \in Seq(S) /\ \E h : Lists(Append(r, s[n]), h, s, P, n)
    <2> DEFINE q == Append(r, s[n])
               h == [k \in 1..(m + 1) |-> IF k = m + 1 THEN n ELSE g[k]]
    <2>1. /\ q \in Seq(S) /\ Len(q) = m + 1 /\ q[m + 1] = s[n]
          /\ \A k \in 1..m : q[k] = r[k]
      BY <1>1
    <2>2. \A k \in 1..(m + 1) : k = m + 1 \/ k \in 1..m
      BY <1>1
    <2>3. h[m + 1] = n /\ \A k \in 1..m : h[k] = g[k] /\ h[k] \in 1..(n - 1)
      BY <1>1 DEF Lists
    <2> HIDE DEF q, m
    <2>4. h \in [1..Len(q) -> 1..n]
      <3>1. n \in 1..n /\ \A k \in 1..m : g[k] \in 1..n
        BY SMTT(40), <1>1 DEF Lists, m
      <3> QED BY <2>1, <2>2, <3>1
    <2> HIDE DEF h
    <2>5. ASSUME NEW j \in 1..(m + 1), NEW k \in 1..(m + 1), j < k PROVE h[j] < h[k]
      <3>1. j \in 1..m
        BY <1>1, <2>5
      <3>2. CASE k = m + 1
        BY <1>1, <2>3, <3>1, <3>2
      <3>3. CASE k \in 1..m
        BY <2>3, <2>5, <3>1, <3>3 DEF Lists, m
      <3> QED BY <2>2, <3>2, <3>3
    <2>6. \A k \in 1..(m + 1) : q[k] = s[h[k]] /\ h[k] \in P
      BY <1>4, <2>1, <2>2, <2>3 DEF Lists, m
    <2>7. ASSUME NEW i \in 1..n, i \in P PROVE \E k \in 1..(m + 1) : h[k] = i
      <3>1. CASE i = n
        BY <1>1, <2>3, <3>1
      <3>2. CASE i \in 1..(n - 1)
        <4>1. PICK k \in 1..m : g[k] = i
          BY <2>7, <3>2 DEF Lists, m
        <4>2. k \in 1..(m + 1) /\ h[k] = i
          BY <1>1, <2>3, <4>1
        <4> QED BY <4>2
      <3> QED BY <1>2, <3>1, <3>2
    <2>9. m + 1 <= n
      BY <1>1 DEF Lists, m
    <2>8. Lists(q, h, s, P, n)
      BY <2>9, <2>1, <2>4, <2>5, <2>6, <2>7 DEF Lists
    <2> QED BY <2>1, <2>8 DEF q
  <1> QED BY <1>3, <1>4

\* What is selected: an order-preserving choice of all the positions of P.
LEMMA SelectLists ==
    ASSUME NEW S, NEW s \in Seq(S), NEW P
    PROVE  /\ Select(s, P) \in Seq(S)
           /\ \E g : Lists(Select(s, P), g, s, P, Len(s))
  <1> DEFINE L == Len(s)
             Step(f, i) == IF i = 0 THEN <<>>
                           ELSE IF i \in P THEN Append(f[i - 1], s[i]) ELSE f[i - 1]
             Part(f, n) == DOMAIN f = 0..n /\ \A i \in 0..n : f[i] = Step(f, i)
             F == CHOOSE f : f = [i \in 0..L |-> Step(f, i)]
  <1>1. L \in Nat
    OBVIOUS
  <1>2. \A n \in 0..L : \E f : Part(f, n)
    <2> DEFINE T == {n \in 0..L : ~ \E f : Part(f, n)}
    <2> SUFFICES ASSUME T # {} PROVE FALSE
      OBVIOUS
    <2>1. PICK n \in T : \A y \in T : n <= y
      <3>1. T \in SUBSET Nat
        BY <1>1
      <3> QED BY <3>1, LeastMember
    <2>2. n \in 0..L /\ n \in Nat /\ ~ \E f : Part(f, n)
      BY <1>1, <2>1
    <2>3. CASE n = 0
      <3>1. Part([i \in 0..0 |-> <<>>], 0)
        OBVIOUS
      <3> QED BY <2>2, <2>3, <3>1
    <2>4. CASE n # 0
      <3>1. n - 1 \in 0..L /\ n - 1 \notin T
        BY <1>1, <2>1, <2>2, <2>4
      <3>2. PICK f : Part(f, n - 1)
        BY <3>1
      <3> DEFINE h == [i \in 0..n |-> IF i = n THEN Step(f, n) ELSE f[i]]
      <3>3. \A i \in 0..n : h[i] = Step(h, i)
        <4> TAKE i \in 0..n
        <4>1. CASE i = 0
          <5>1. i # n /\ i \in 0..(n - 1)
            BY <2>2, <2>4, <4>1
          <5> QED BY <3>2, <4>1, <5>1
        <4>2. CASE i # 0
          <5>1. i - 1 \in 0..(n - 1) /\ i - 1 \in 0..n /\ i - 1 # n /\ (i # n => i \in 0..(n - 1))
            BY <2>2, <4>2
          <5>2. h[i - 1] = f[i - 1]
            BY <5>1
          <5> QED BY <3>2, <4>2, <5>1, <5>2
        <4> QED BY <4>1, <4>2
      <3>4. Part(h, n)
        BY <3>3
      <3> QED BY <2>2, <3>4
    <2> QED BY <2>3, <2>4
  <1>3. F = [i \in 0..L |-> Step(F, i)]
    <2>1. PICK f : Part(f, L)
      BY <1>1, <1>2
    <2>2. f = [i \in 0..L |-> f[i]]
      BY <2>1
    <2> QED BY <2>1, <2>2
  <1>4. Select(s, P) = F[L]
    BY DEF Select
  <1> HIDE DEF F
  <1>5. F[0] = <<>> /\ \A i \in 1..L : F[i] = IF i \in P THEN Append(F[i - 1], s[i]) ELSE F[i - 1]
    <2> DEFINE G == [i \in 0..L |-> Step(F, i)]
    <2>1. \A i \in 0..L : G[i] = Step(F, i)
      OBVIOUS
    <2> HIDE DEF G
    <2>2. \A i \in 0..L : F[i] = Step(F, i)
      BY <1>3, <2>1 DEF G
    <2>3. 0 \in 0..L /\ \A i \in 1..L : i \in 0..L /\ i # 0
      BY <1>1
    <2> QED BY <2>2, <2>3
  <1> DEFINE Good(n) == F[n] \in Seq(S) /\ \E g : Lists(F[n], g, s, P, n)
  <1>6. \A n \in 0..L : Good(n)
    <2> DEFINE T == {n \in 0..L : ~Good(n)}
    <2> SUFFICES ASSUME T # {} PROVE FALSE
      OBVIOUS
    <2>1. PICK n \in T : \A y \in T : n <= y
      <3>1. T \in SUBSET Nat
        BY <1>1
      <3> QED BY <3>1, LeastMember
    <2>2. n \in 0..L /\ n \in Nat /\ ~Good(n)
      BY <1>1, <2>1
    <2>3. CASE n = 0
      <3>1. Lists(<<>>, <<>>, s, P, 0)
        BY DEF Lists
      <3>2. F[0] \in Seq(S)
        BY <1>5
      <3> QED BY <1>5, <2>2, <2>3, <3>1, <3>2
    <2>4. CASE n # 0
      <3>1. n - 1 \in 0..L /\ n - 1 \notin T /\ n \in 1..Len(s)
        BY <1>1, <2>1, <2>2, <2>4
      <3>2. Good(n - 1)
        BY <3>1
      <3>3. PICK g : Lists(F[n - 1], g, s, P, n - 1)
        BY <3>2
      <3>4. F[n] = IF n \in P THEN Append(F[n - 1], s[n]) ELSE F[n - 1]
        BY <1>5, <3>1
      <3>5. Good(n)
        BY <3>1, <3>2, <3>3, <3>4, ListsNext
      <3> QED BY <2>2, <3>5
    <2> QED BY <2>3, <2>4
  <1> QED BY <1>1, <1>4, <1>6

\* A selection of different elements, and what it keeps of any.
Distinct(s) == \A i, j \in 1..Len(s) : i # j => s[i] # s[j]

LEMMA SelectDistinct ==
    ASSUME NEW S, NEW s \in Seq(S), NEW P, Distinct(s)
    PROVE  Distinct(Select(s, P))
  <1> DEFINE r == Select(s, P)
  <1>1. PICK g : Lists(r, g, s, P, Len(s))
    BY SelectLists
  <1>2. Len(r) \in Nat
    BY SelectLists
  <1> HIDE DEF r
  <1>3. \A i, j \in 1..Len(r) : i # j => g[i] # g[j]
    <2> TAKE i, j \in 1..Len(r)
    <2>1. g[i] \in Nat /\ g[j] \in Nat
      BY <1>1 DEF Lists
    <2>2. i < j \/ j < i \/ i = j
      BY <1>2
    <2> QED BY <1>1, <2>1, <2>2 DEF Lists
  <1>4. \A i \in 1..Len(r) : g[i] \in 1..Len(s) /\ r[i] = s[g[i]]
    BY <1>1 DEF Lists
  <1> QED BY SMTT(40), <1>3, <1>4 DEF Distinct, r

\* What a selection keeps of a sequence.
PartOf(r, s, P) ==
    /\ \A j, k \in 1..Len(r) : j < k =>
          \E i, l \in 1..Len(s) : i < l /\ r[j] = s[i] /\ r[k] = s[l]
    /\ \A k \in 1..Len(r) : \E i \in 1..Len(s) : i \in P /\ r[k] = s[i]
    /\ \A i \in 1..Len(s) : i \in P => \E k \in 1..Len(r) : r[k] = s[i]

LEMMA SelectIsPart ==
    ASSUME NEW S, NEW s \in Seq(S), NEW P
    PROVE  Select(s, P) \in Seq(S) /\ PartOf(Select(s, P), s, P)
  <1> DEFINE r == Select(s, P)
  <1>1. r \in Seq(S) /\ \E g : Lists(r, g, s, P, Len(s))
    BY SelectLists
  <1> HIDE DEF r
  <1>2. PICK g : Lists(r, g, s, P, Len(s))
    BY <1>1
  <1>3. \A k \in 1..Len(r) : g[k] \in 1..Len(s) /\ r[k] = s[g[k]] /\ g[k] \in P
    BY <1>2 DEF Lists
  <1>4. \A j, k \in 1..Len(r) : j < k => g[j] < g[k]
    BY <1>2 DEF Lists
  <1>5. \A i \in 1..Len(s) : i \in P => \E k \in 1..Len(r) : g[k] = i
    BY <1>2 DEF Lists
  <1>6. ASSUME NEW j \in 1..Len(r), NEW k \in 1..Len(r), j < k
        PROVE  \E i, l \in 1..Len(s) : i < l /\ r[j] = s[i] /\ r[k] = s[l]
    <2>1. g[j] \in 1..Len(s) /\ g[k] \in 1..Len(s) /\ g[j] < g[k]
      BY <1>3, <1>4, <1>6
    <2>2. r[j] = s[g[j]] /\ r[k] = s[g[k]]
      BY <1>3
    <2> QED BY <2>1, <2>2
  <1>7. \A k \in 1..Len(r) : \E i \in 1..Len(s) : i \in P /\ r[k] = s[i]
    BY <1>3
  <1>8. \A i \in 1..Len(s) : i \in P => \E k \in 1..Len(r) : r[k] = s[i]
    BY <1>3, <1>5
  <1>9. PartOf(r, s, P)
    BY <1>6, <1>7, <1>8 DEF PartOf
  <1> QED BY <1>1, <1>9 DEF r
=============================================================================
