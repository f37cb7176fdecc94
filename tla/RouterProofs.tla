---------------------------- MODULE RouterProofs ----------------------------
(***************************************************************************)
(* Proofs about the exit-status router, for any number of execs, orphans   *)
(* and pids and any cap.                                                   *)
(***************************************************************************)
EXTENDS Router, FiniteSetTheorems, SequenceTheorems, WellFoundedInduction, TLAPS

\* Where pids, statuses, threads and the two maps stand to one another.
Linked ==
    /\ \A k \in Children : life[k] = "unborn" <=> pid[k] = None
    /\ \A k \in Execs : thread[k] = "none" <=> life[k] = "unborn"
    /\ \A n \in Pids : waiters[n] # None =>
          pid[waiters[n]] = n /\ thread[waiters[n]] = "waiting"
    /\ \A n \in Pids : orphans[n] # None =>
          pid[orphans[n]] = n /\ life[orphans[n]] = "routed"

\* Without recycled pids: a pid names one child, the status of a child whose
\* thread has not asked yet is parked under that pid or was evicted, and a
\* thread that has a status has that of a child which is gone.
Unmixed ==
    Recycle \/
    /\ \A k, j \in Children : pid[k] # None /\ pid[k] = pid[j] => k = j
    /\ \A k \in Execs : thread[k] = "spawned" /\ life[k] = "routed"
                          => orphans[pid[k]] = k
    /\ \A k \in Execs : thread[k] = "done" => life[k] \in {"routed", "evicted"}

\* The inductive invariant.
Inv == /\ TypeOK
       /\ Linked
       /\ NeverBoth
       /\ ParkedBounded
       /\ Unmixed
       /\ OwnStatus
       /\ NoVainWait

LEMMA InitInv == Init => Inv
  <1> SUFFICES ASSUME Init PROVE Inv OBVIOUS
  <1> USE DEF Init, Children
  <1>1. TypeOK BY DEF TypeOK
  <1>2. Linked BY ChildrenAssumption DEF Linked
  <1>3. NeverBoth BY DEF NeverBoth
  <1>4. ParkedBounded
    <2>1. Parked = {} BY DEF Parked
    <2>2. Cardinality(Parked) = 0 BY <2>1, FS_EmptySet
    <2> QED BY <2>1, <2>2, RouterAssumption DEF ParkedBounded
  <1>5. Unmixed BY DEF Unmixed
  <1>6. OwnStatus /\ NoVainWait BY DEF OwnStatus, NoVainWait
  <1> QED BY <1>1, <1>2, <1>3, <1>4, <1>5, <1>6 DEF Inv

\* Steps that touch neither map nor the queue keep the bound.
LEMMA SameQueue ==
    ASSUME ParkedBounded, UNCHANGED <<orphans, orphan_order>>
    PROVE  ParkedBounded'
  BY DEF ParkedBounded, Parked

LEMMA StartInv ==
    ASSUME Inv, NEW k \in Children, Start(k)
    PROVE  Inv'
  <1> USE DEF Inv, Start
  <1> PICK n \in Pids : Free(n) /\ pid' = [pid EXCEPT ![k] = n] OBVIOUS
  <1>1. TypeOK' BY DEF TypeOK, Children
  <1>2. Linked'
    BY ChildrenAssumption DEF TypeOK, Linked, Children
  <1>3. NeverBoth' BY DEF NeverBoth
  <1>4. ParkedBounded' BY SameQueue
  <1>5. Unmixed'
    BY ChildrenAssumption DEF TypeOK, Linked, Unmixed, Free, Children
  <1>6. OwnStatus' BY DEF OwnStatus
  <1>7. NoVainWait' BY ChildrenAssumption DEF NoVainWait, TypeOK, Linked, Children
  <1> QED BY <1>1, <1>2, <1>3, <1>4, <1>5, <1>6, <1>7

LEMMA DieReapInv ==
    ASSUME Inv, NEW k \in Children, Die(k) \/ Reap(k) \/ ReapUnknown(k)
    PROVE  Inv'
  <1> USE DEF Inv, Die, Reap, ReapUnknown
  <1>1. TypeOK' BY DEF TypeOK
  <1>2. Linked' BY DEF TypeOK, Linked, Children
  <1>3. NeverBoth' BY DEF NeverBoth
  <1>4. ParkedBounded' BY SameQueue
  <1>5. Unmixed' BY DEF TypeOK, Unmixed, Children
  <1>6. OwnStatus' BY DEF OwnStatus
  <1>7. NoVainWait' BY DEF NoVainWait, TypeOK, Children
  <1> QED BY <1>1, <1>2, <1>3, <1>4, <1>5, <1>6, <1>7

LEMMA DeliverInv ==
    ASSUME Inv, NEW k \in Children, Deliver(k)
    PROVE  Inv'
  <1> USE DEF Inv
  <1> DEFINE n == pid[k]
             c == waiters[n]
  <1>0. /\ n \in Pids /\ c \in Execs
        /\ pid[c] = n /\ thread[c] = "waiting"
        /\ life[k] = "reaped"
        /\ waiters' = [waiters EXCEPT ![n] = None]
        /\ got' = [got EXCEPT ![c] = k]
        /\ thread' = [thread EXCEPT ![c] = "done"]
        /\ life' = [life EXCEPT ![k] = "routed"]
        /\ UNCHANGED <<pid, orphans, orphan_order>>
    BY DEF Deliver, TypeOK, Linked
  <1> HIDE DEF n, c
  <1>1. TypeOK' BY <1>0 DEF TypeOK, Children
  <1>2. Linked' BY <1>0, ChildrenAssumption DEF TypeOK, Linked, Children, n
  <1>3. NeverBoth' BY <1>0 DEF NeverBoth, TypeOK
  <1>4. ParkedBounded' BY <1>0, SameQueue
  <1>5. Unmixed' BY <1>0, ChildrenAssumption DEF TypeOK, Unmixed, Children, n
  <1>6. OwnStatus' BY <1>0, ChildrenAssumption DEF OwnStatus, Unmixed, TypeOK, Children, n
  <1>7. NoVainWait'
    BY <1>0, ChildrenAssumption DEF NoVainWait, Unmixed, TypeOK, Children, n
  <1> QED BY <1>1, <1>2, <1>3, <1>4, <1>5, <1>6, <1>7

LEMMA ClaimInv ==
    ASSUME Inv, NEW k \in Execs, Claim(k)
    PROVE  Inv'
  <1> USE DEF Inv
  <1> DEFINE n == pid[k]
  <1>0. /\ n \in Pids /\ orphans[n] # None /\ thread[k] = "spawned"
        /\ got' = [got EXCEPT ![k] = orphans[n]]
        /\ orphans' = [orphans EXCEPT ![n] = None]
        /\ thread' = [thread EXCEPT ![k] = "done"]
        /\ UNCHANGED <<life, pid, waiters, orphan_order>>
    BY DEF Claim, TypeOK, Linked, Children
  <1> HIDE DEF n
  <1>1. TypeOK' BY <1>0 DEF TypeOK, Children
  <1>2. Linked' BY <1>0, ChildrenAssumption DEF TypeOK, Linked, Children
  <1>3. NeverBoth' BY <1>0 DEF NeverBoth, TypeOK
  <1>4. ParkedBounded'
    <2>1. Parked' \subseteq Parked BY <1>0 DEF Parked, TypeOK
    <2>2. IsFiniteSet(Parked)
      BY PidsAssumption, FS_Subset DEF Parked
    <2>3. /\ Cardinality(Parked') <= Cardinality(Parked)
          /\ Cardinality(Parked') \in Nat /\ Cardinality(Parked) \in Nat
      BY <2>1, <2>2, FS_Subset, FS_CardinalityType
    <2> QED BY <1>0, <2>1, <2>3, RouterAssumption DEF ParkedBounded
  <1>5. Unmixed' BY <1>0, ChildrenAssumption DEF TypeOK, Unmixed, Linked, Children, n
  <1>6. OwnStatus' BY <1>0, ChildrenAssumption DEF OwnStatus, Unmixed, Linked, TypeOK, Children, n
  <1>7. NoVainWait' BY <1>0 DEF NoVainWait, TypeOK
  <1> QED BY <1>1, <1>2, <1>3, <1>4, <1>5, <1>6, <1>7

LEMMA RegisterInv ==
    ASSUME Inv, NEW k \in Execs, Register(k)
    PROVE  Inv'
  <1> USE DEF Inv
  <1> DEFINE n == pid[k]
  <1>0. /\ n \in Pids /\ orphans[n] = None /\ thread[k] = "spawned"
        /\ thread' = [c \in Execs |-> IF c = k THEN "waiting"
                        ELSE IF c = waiters[n] THEN "panicked" ELSE thread[c]]
        /\ waiters' = [waiters EXCEPT ![n] = k]
        /\ UNCHANGED <<life, pid, got, orphans, orphan_order>>
    BY DEF Register, TypeOK, Linked, Children
  <1> HIDE DEF n
  <1>1. TypeOK' BY <1>0 DEF TypeOK, Children
  <1>2. Linked' BY <1>0, ChildrenAssumption DEF TypeOK, Linked, Children, n
  <1>3. NeverBoth' BY <1>0 DEF NeverBoth, TypeOK
  <1>4. ParkedBounded' BY <1>0, SameQueue
  <1>5. Unmixed' BY <1>0 DEF TypeOK, Unmixed, Children
  <1>6. OwnStatus' BY <1>0 DEF OwnStatus
  <1>7. NoVainWait'
    BY <1>0, ChildrenAssumption DEF NoVainWait, Unmixed, Linked, TypeOK, Children, n
  <1> QED BY <1>1, <1>2, <1>3, <1>4, <1>5, <1>6, <1>7

\* When a map has a key and the queue holds every key, the eviction loop finds
\* the first entry that is still a key.
LEMMA OldestExists ==
    ASSUME NEW queue \in Seq(Pids), NEW m \in [Pids -> Children \cup {None}],
           NEW i \in 1..Len(queue), m[queue[i]] # None
    PROVE  LET j == Oldest(queue, m) IN
             /\ j \in 1..Len(queue) /\ m[queue[j]] # None
             /\ \A h \in 1..(j - 1) : m[queue[h]] = None
  <1> DEFINE S == {h \in 1..Len(queue) : m[queue[h]] # None}
  <1>1. S \subseteq Nat /\ i \in S /\ Len(queue) \in Nat
    BY LenProperties
  <1>2. PICK j \in S : \A h \in S : ~(<<h, j>> \in OpToRel(<, Nat))
    <2> HIDE DEF S
    <2> QED BY <1>1, NatLessThanWellFounded, WFMin
  <1>3. \A h \in S : ~(h < j)
    BY <1>1, <1>2 DEF OpToRel
  <1>4. \A h \in 1..(j - 1) : m[queue[h]] = None
    BY <1>1, <1>3
  <1> QED BY <1>4 DEF Oldest

LEMMA ParkInv ==
    ASSUME Inv, NEW k \in Children, Park(k)
    PROVE  Inv'
  <1> USE DEF Inv
  <1> DEFINE n     == pid[k]
             m     == [orphans EXCEPT ![n] = k]
             queue == IF orphans[n] = None THEN Append(orphan_order, n)
                                           ELSE orphan_order
             over  == Cardinality(Parked \cup {n}) > MaxOrphans
             j     == Oldest(queue, m)
             gone  == (IF orphans[n] = None THEN {} ELSE {orphans[n]})
                        \cup (IF over THEN {m[queue[j]]} ELSE {})
  <1>0. /\ life[k] = "reaped" /\ waiters[n] = None
        /\ orphans' = IF over THEN [m EXCEPT ![queue[j]] = None] ELSE m
        /\ orphan_order' = IF over THEN SubSeq(queue, j + 1, Len(queue)) ELSE queue
        /\ life' = [c \in Children |-> IF c \in gone THEN "evicted"
                                       ELSE IF c = k THEN "routed" ELSE life[c]]
        /\ UNCHANGED <<pid, thread, got, waiters>>
    BY DEF Park
  <1>n. n \in Pids /\ k # None
    BY <1>0, ChildrenAssumption DEF TypeOK, Linked, Children
  <1>m. m \in [Pids -> Children \cup {None}]
    BY <1>n DEF TypeOK
  <1>q. queue \in Seq(Pids) /\ Len(queue) \in Nat
    BY <1>n, AppendProperties, LenProperties DEF TypeOK
  <1>k. \A h \in Parked \cup {n} : \E i \in 1..Len(queue) : queue[i] = h
    <2>1. CASE orphans[n] = None
      <3>1. /\ queue = Append(orphan_order, n)
            /\ Len(queue) = Len(orphan_order) + 1
            /\ \A i \in 1..Len(orphan_order) : queue[i] = orphan_order[i]
            /\ queue[Len(orphan_order) + 1] = n
            /\ Len(orphan_order) \in Nat
        BY <2>1, <1>n, AppendProperties, LenProperties DEF TypeOK
      <3> HIDE DEF queue
      <3> QED BY <3>1 DEF ParkedBounded
    <2>2. CASE orphans[n] # None
      <3>1. queue = orphan_order /\ n \in Parked
        BY <2>2, <1>n DEF Parked
      <3> QED BY <3>1 DEF ParkedBounded
    <2> QED BY <2>1, <2>2
  <1>j. /\ j \in 1..Len(queue) /\ m[queue[j]] # None
        /\ \A h \in 1..(j - 1) : m[queue[h]] = None
        /\ queue[j] \in Pids
    <2>1. PICK i \in 1..Len(queue) : queue[i] = n BY <1>k
    <2>2. m[queue[i]] # None BY <2>1, <1>n DEF TypeOK
    <2> HIDE DEF queue, m
    <2>3. /\ j \in 1..Len(queue) /\ m[queue[j]] # None
          /\ \A h \in 1..(j - 1) : m[queue[h]] = None
      BY <1>m, <1>q, <2>2, OldestExists
    <2> HIDE DEF j
    <2> QED BY <2>3, <1>q, ElementOfSeq
  <1>p. /\ Parked' = IF over THEN (Parked \cup {n}) \ {queue[j]} ELSE Parked \cup {n}
        /\ queue[j] \in Parked \cup {n}
    <2> HIDE DEF queue, j, over
    <2> QED BY <1>0, <1>j, <1>m, <1>n DEF Parked, TypeOK
  <1> HIDE DEF queue, j, over, n
  <1>1. TypeOK'
    <2>1. orphan_order' \in Seq(Pids)
      <3>1. ASSUME over PROVE SubSeq(queue, j + 1, Len(queue)) \in Seq(Pids)
        <4>1. \A i \in (j + 1)..Len(queue) : queue[i] \in Pids
          BY <1>q, <1>j, ElementOfSeq
        <4> QED BY <4>1, <1>q, <1>j, SubSeqProperties
      <3> QED BY <3>1, <1>0, <1>q
    <2>2. orphans' \in [Pids -> Children \cup {None}]
      BY <1>0, <1>m, <1>j
    <2> QED BY <1>0, <2>1, <2>2 DEF TypeOK
  <1>2. Linked'
    BY <1>0, <1>n, <1>j, ChildrenAssumption DEF TypeOK, Linked, Children, n
  <1>3. NeverBoth'
    BY <1>0, <1>n, <1>j DEF NeverBoth, TypeOK
  <1>4. ParkedBounded'
    <2>1. IsFiniteSet(Parked) /\ Cardinality(Parked) \in Nat
      BY PidsAssumption, FS_Subset, FS_CardinalityType DEF Parked
    <2>2. /\ IsFiniteSet(Parked \cup {n})
          /\ Cardinality(Parked \cup {n}) \in Nat
          /\ Cardinality(Parked \cup {n}) <= Cardinality(Parked) + 1
      <3>1. /\ IsFiniteSet(Parked \cup {n})
            /\ Cardinality(Parked \cup {n})
                 = IF n \in Parked THEN Cardinality(Parked) ELSE Cardinality(Parked) + 1
        BY <2>1, FS_AddElement
      <3> QED BY <2>1, <3>1
    <2>3. Cardinality(Parked') <= MaxOrphans
      <3>1. CASE over
        <4>1. Cardinality((Parked \cup {n}) \ {queue[j]}) = Cardinality(Parked \cup {n}) - 1
          BY <1>p, <2>2, FS_RemoveElement
        <4> QED BY <3>1, <4>1, <1>p, <2>1, <2>2, RouterAssumption DEF ParkedBounded
      <3>2. CASE ~over
        BY <3>2, <1>p, <2>2, RouterAssumption DEF over
      <3> QED BY <3>1, <3>2
    <2>4. ASSUME NEW h \in Parked'
          PROVE  \E i \in 1..Len(orphan_order') : orphan_order'[i] = h
      <3>1. PICK i \in 1..Len(queue) : queue[i] = h
        BY <1>k, <1>p
      <3>2. CASE ~over BY <3>1, <3>2, <1>0
      <3>3. CASE over
        <4>1. i # j BY <3>1, <3>3, <1>p
        <4>2. ~(i < j)
          <5>1. m[h] # None
            BY <1>p, <3>3, <1>n, <1>m DEF Parked, TypeOK
          <5> QED BY <5>1, <3>1, <1>j, <1>q
        <4>3. /\ Len(orphan_order') = Len(queue) - j
              /\ \A g \in 1..(Len(queue) - j) : orphan_order'[g] = queue[j + g]
          <5>1. \A g \in (j + 1)..Len(queue) : queue[g] \in Pids
            BY <1>q, <1>j, ElementOfSeq
          <5> QED BY <5>1, <3>3, <1>0, <1>q, <1>j, SubSeqProperties
        <4>4. i - j \in 1..Len(orphan_order') /\ orphan_order'[i - j] = h
          BY <4>1, <4>2, <4>3, <3>1, <1>j, <1>q
        <4> QED BY <4>4
      <3> QED BY <3>2, <3>3
    <2> QED BY <2>3, <2>4 DEF ParkedBounded
  <1>5. Unmixed'
    BY <1>0, <1>n, <1>j, ChildrenAssumption DEF TypeOK, Linked, Unmixed, Children, n
  <1>6. OwnStatus' BY <1>0 DEF OwnStatus
  <1>7. NoVainWait'
    BY <1>0, <1>n, <1>j, ChildrenAssumption
       DEF NoVainWait, Linked, Unmixed, TypeOK, Children, n
  <1> QED BY <1>1, <1>2, <1>3, <1>4, <1>5, <1>6, <1>7

\* Inv is an invariant of the router: the status maps and the queue stay
\* consistent whatever the interleaving of reaper and completion threads.
THEOREM RouterInvariant == Spec => []Inv
  <1>1. Inv /\ [Next]_vars => Inv'
    <2> SUFFICES ASSUME Inv, [Next]_vars PROVE Inv' OBVIOUS
    <2>1. ASSUME NEW k \in Children, Start(k) PROVE Inv' BY <2>1, StartInv
    <2>2. ASSUME NEW k \in Children, Die(k) \/ Reap(k) \/ ReapUnknown(k) PROVE Inv' BY <2>2, DieReapInv
    <2>3. ASSUME NEW k \in Children, Deliver(k) PROVE Inv' BY <2>3, DeliverInv
    <2>4. ASSUME NEW k \in Children, Park(k) PROVE Inv' BY <2>4, ParkInv
    <2>5. ASSUME NEW k \in Execs, Claim(k) PROVE Inv' BY <2>5, ClaimInv
    <2>6. ASSUME NEW k \in Execs, Register(k) PROVE Inv' BY <2>6, RegisterInv
    <2>7. CASE UNCHANGED vars
      BY <2>7 DEF vars, Inv, TypeOK, Linked, NeverBoth, ParkedBounded, Parked,
                  Unmixed, OwnStatus, NoVainWait
    <2> QED BY <2>1, <2>2, <2>3, <2>4, <2>5, <2>6, <2>7 DEF Next, NoChild
  <1> QED BY <1>1, InitInv, PTL DEF Spec

\* Every map, status and thread state of the router has its type; in particular
\* the eviction loop leaves a queue of pids.
THEOREM RouterTypes == Spec => []TypeOK
  BY RouterInvariant, PTL DEF Inv

\* route and wait_child never miss each other: no status is parked for a pid
\* that has a registered waiter.
THEOREM NoLostWakeup == Spec => []NeverBoth
  BY RouterInvariant, PTL DEF Inv

\* The parked statuses never exceed MAX_ORPHANS, and the eviction loop always
\* finds a victim in its queue.
THEOREM OrphansBounded == Spec => []ParkedBounded
  BY RouterInvariant, PTL DEF Inv

\* Without pid reuse no exec is told another process's exit status.
THEOREM StatusIsOwn == Spec => []OwnStatus
  BY RouterInvariant, PTL DEF Inv

\* Without pid reuse a completion thread only waits for a status that is still
\* to come or was evicted.
THEOREM WaitIsNotVain == Spec => []NoVainWait
  BY RouterInvariant, PTL DEF Inv

=============================================================================
