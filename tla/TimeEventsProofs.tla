--------------------------- MODULE TimeEventsProofs ---------------------------
(***************************************************************************)
(* Proofs about TimeEvents, for every set of events and handles, all times *)
(* of execution and every width of the vector's index.                     *)
(***************************************************************************)
EXTENDS TimeEvents, TLAPS

\* The inductive invariant.  Positions index the vector in cancel and restart,
\* handles lead there, and the order needs both: no event is queued twice.
IInv == TypeOK /\ PositionsAgree /\ HandlesAgree /\ Sorted

\* Where the element comes from that a move from i to j leaves at k.
Source(i, j, k) ==
  IF k = j THEN i
  ELSE IF i <= k /\ k < j THEN k + 1
  ELSE IF j < k /\ k <= i THEN k - 1
  ELSE k

-----------------------------------------------------------------------------
(* Moving an element of an array.                                          *)

\* A move is a permutation of the first n indices.
Permutes(n, i, j) ==
  /\ \A k \in 0..n - 1 : Source(i, j, k) \in 0..n - 1
  /\ \A k, l \in 0..n - 1 : Source(i, j, k) = Source(i, j, l) => k = l
  /\ \A k \in 0..n - 1 : \E l \in 0..n - 1 : Source(i, j, l) = k

\* What a move leaves at every index.
MovesFrom(n, a, i, j) ==
  /\ Move(a, i, j) \in [0..n - 1 -> Events]
  /\ \A k \in 0..n - 1 : Move(a, i, j)[k] = a[Source(i, j, k)]

\* Neighbour swaps between two indices permute the indices.
LEMMA SourcePermutes ==
  ASSUME NEW n \in Nat, NEW i \in 0..n - 1, NEW j \in 0..n - 1
  PROVE  Permutes(n, i, j)
<1>1. \A k \in 0..n - 1 : Source(i, j, k) \in 0..n - 1
  BY DEF Source
<1>2. \A k, l \in 0..n - 1 : Source(i, j, k) = Source(i, j, l) => k = l
  BY DEF Source
<1>3. ASSUME NEW k \in 0..n - 1
      PROVE  \E l \in 0..n - 1 : Source(i, j, l) = k
  <2>. DEFINE l == Source(j, i, k)
  <2>1. l \in 0..n - 1 /\ Source(i, j, l) = k
    BY DEF Source
  <2>. QED
    BY <2>1
<1>. QED
  BY <1>1, <1>2, <1>3 DEF Permutes

\* A moved array holds at every index the element its source held.
LEMMA MoveElements ==
  ASSUME NEW n \in Nat, NEW a \in [0..n - 1 -> Events],
         NEW i \in 0..n - 1, NEW j \in 0..n - 1
  PROVE  MovesFrom(n, a, i, j)
<1>1. \A k \in 0..n - 1 : Move(a, i, j)[k] = a[Source(i, j, k)]
  BY DEF Move, Source
<1>2. Permutes(n, i, j)
  BY SourcePermutes
<1>3. \A k \in 0..n - 1 : Move(a, i, j)[k] \in Events
  <2>. SUFFICES ASSUME NEW k \in 0..n - 1
                PROVE  Move(a, i, j)[k] \in Events
    OBVIOUS
  <2>1. Source(i, j, k) \in 0..n - 1
    BY <1>2 DEF Permutes
  <2>. QED
    BY <1>1, <2>1
<1>4. Move(a, i, j) \in [0..n - 1 -> Events]
  <2>1. Move(a, i, j) = [k \in 0..n - 1 |-> Move(a, i, j)[k]]
    BY DEF Move
  <2>. QED
    BY <2>1, <1>3
<1>. QED
  BY <1>1, <1>4 DEF MovesFrom

\* The elements of an array.
Elements(n, a) == {a[k] : k \in 0..n - 1}

\* A move keeps the elements.
LEMMA MoveKeepsElements ==
  ASSUME NEW n \in Nat, NEW a \in [0..n - 1 -> Events],
         NEW i \in 0..n - 1, NEW j \in 0..n - 1
  PROVE  Elements(n, Move(a, i, j)) = Elements(n, a)
<1>1. Permutes(n, i, j) /\ MovesFrom(n, a, i, j)
  BY SourcePermutes, MoveElements
<1>. DEFINE m == Move(a, i, j)
<1>2. \A k \in 0..n - 1 : \E l \in 0..n - 1 : m[l] = a[k]
  BY <1>1 DEF Permutes, MovesFrom
<1>3. \A k \in 0..n - 1 : \E l \in 0..n - 1 : m[k] = a[l]
  BY <1>1 DEF Permutes, MovesFrom
<1>. HIDE DEF m
<1>4. ASSUME NEW e \in {m[k] : k \in 0..n - 1}
      PROVE  e \in {a[k] : k \in 0..n - 1}
  BY <1>3
<1>5. ASSUME NEW e \in {a[k] : k \in 0..n - 1}
      PROVE  e \in {m[k] : k \in 0..n - 1}
  <2>1. PICK k \in 0..n - 1 : e = a[k]
    OBVIOUS
  <2>. QED
    BY <1>2, <2>1
<1>. QED
  BY <1>4, <1>5 DEF m, Elements

\* Every element of an array knows its index.
Numbered(n, a, pos) == \A k \in 0..n - 1 : pos[a[k]] = k

\* After a move, renumbering the elements between the two ends is enough to
\* have every position right again.
LEMMA MovePositions ==
  ASSUME NEW n \in Nat, NEW a \in [0..n - 1 -> Events],
         NEW i \in 0..n - 1, NEW j \in 0..n - 1,
         NEW pos \in [Events -> Int],
         \A k \in 0..n - 1 : k # i => pos[a[k]] = k,
         \A k \in 0..n - 1 : k # i => a[k] # a[i],
         NEW lo \in Int, NEW hi \in Int,
         \/ lo = i /\ hi = j /\ i <= j
         \/ lo = j /\ hi = i /\ j <= i
  PROVE  Numbered(n, Move(a, i, j), Renumber(pos, Move(a, i, j), lo, hi))
<1>. DEFINE m == Move(a, i, j)
            p == Renumber(pos, m, lo, hi)
<1>0. Permutes(n, i, j) /\ MovesFrom(n, a, i, j)
  BY SourcePermutes, MoveElements
<1>1. \A k, l \in 0..n - 1 : a[k] = a[l] => k = l
  OBVIOUS
<1>2. \A k, l \in 0..n - 1 : m[k] = m[l] => k = l
  <2>. SUFFICES ASSUME NEW k \in 0..n - 1, NEW l \in 0..n - 1, m[k] = m[l]
                PROVE  k = l
    OBVIOUS
  <2>1. /\ Source(i, j, k) \in 0..n - 1
        /\ Source(i, j, l) \in 0..n - 1
    BY <1>0 DEF Permutes
  <2>2. a[Source(i, j, k)] = a[Source(i, j, l)]
    BY <1>0 DEF MovesFrom
  <2>3. Source(i, j, k) = Source(i, j, l)
    BY <1>1, <2>1, <2>2
  <2>. QED
    BY <1>0, <2>3 DEF Permutes
<1>3. ASSUME NEW k \in 0..n - 1
      PROVE  p[m[k]] = k
  <2>1. m[k] \in Events
    BY <1>0 DEF MovesFrom
  <2>2. lo..hi \subseteq 0..n - 1
    OBVIOUS
  <2>3. CASE k \in lo..hi
    <3>1. p[m[k]] = CHOOSE l \in lo..hi : m[l] = m[k]
      BY <2>1, <2>3 DEF Renumber
    <3>2. \A l \in lo..hi : m[l] = m[k] => l = k
      BY <1>2, <2>2
    <3>. HIDE DEF m, p
    <3>. QED
      BY <3>1, <3>2, <2>3
  <2>4. CASE k \notin lo..hi
    <3>1. ~ \E l \in lo..hi : m[l] = m[k]
      BY <1>2, <2>2, <2>4
    <3>2. p[m[k]] = pos[m[k]]
      BY <2>1, <3>1 DEF Renumber
    <3>3. Source(i, j, k) = k /\ k # i
      BY <2>4 DEF Source
    <3>4. m[k] = a[k]
      BY <3>3, <1>0 DEF MovesFrom
    <3>. HIDE DEF m, p
    <3>. QED
      BY <3>2, <3>3, <3>4
  <2>. QED
    BY <2>3, <2>4
<1>. QED
  BY <1>3 DEF Numbered

-----------------------------------------------------------------------------
(* Bubbling keeps the array sorted.                                        *)

\* An array is in order, the element at i apart.
OrderedBut(a, time, n, i) ==
  \A k, l \in 0..n - 1 :
    k # i /\ l # i /\ k <= l => time[a[k]] <= time[a[l]]

Ordered(a, time, n) ==
  \A k, l \in 0..n - 1 : k <= l => time[a[k]] <= time[a[l]]

\* iotc_time_event_bubble_down, with nothing behind the element to sort before
\* it, leaves the array in order.
LEMMA BubbleDownSorts ==
  ASSUME NEW n \in Nat, NEW a \in [0..n - 1 -> Events],
         NEW time \in [Events -> Int],
         NEW i \in 0..n - 1, NEW j \in 0..i,
         OrderedBut(a, time, n, i),
         \A k \in i + 1..n - 1 : time[a[i]] <= time[a[k]],
         StopsDown(a, time, i, j)
  PROVE  Ordered(Move(a, i, j), time, n)
<1>. DEFINE m == Move(a, i, j)
            key == [k \in 0..n - 1 |-> time[a[k]]]
<1>1. Permutes(n, i, j) /\ MovesFrom(n, a, i, j)
  BY SourcePermutes, MoveElements
<1>2. key \in [0..n - 1 -> Int]
  OBVIOUS
<1>3. \A k, l \in 0..n - 1 : k # i /\ l # i /\ k <= l => key[k] <= key[l]
  BY DEF OrderedBut
<1>4. \A k \in i + 1..n - 1 : key[i] <= key[k]
  OBVIOUS
<1>5. /\ \A k \in j..i - 1 : key[k] > key[i]
      /\ j > 0 => key[j - 1] <= key[i]
  <2>1. \A k \in 0..n - 1 : key[k] = time[a[k]]
    OBVIOUS
  <2>2. j..i - 1 \subseteq 0..n - 1 /\ (j > 0 => j - 1 \in 0..n - 1)
    OBVIOUS
  <2>. HIDE DEF key
  <2>. QED
    BY <2>1, <2>2 DEF StopsDown
<1>6. \A k \in 0..j - 1 : key[k] <= key[i]
  <2>. HIDE DEF key
  <2>. SUFFICES ASSUME NEW k \in 0..j - 1 PROVE key[k] <= key[i]
    OBVIOUS
  <2>1. key[k] <= key[j - 1]
    BY <1>3
  <2>. QED
    BY <2>1, <1>2, <1>5
<1>7. ASSUME NEW k \in 0..n - 1, NEW l \in 0..n - 1, k <= l
      PROVE  key[Source(i, j, k)] <= key[Source(i, j, l)]
  <2>. HIDE DEF key
  <2>1. CASE k = j
    BY <2>1, <1>2, <1>3, <1>4, <1>5, <1>7 DEF Source
  <2>2. CASE l = j
    BY <2>2, <1>2, <1>6, <1>7 DEF Source
  <2>3. CASE k # j /\ l # j
    <3>1. /\ Source(i, j, k) # i
          /\ Source(i, j, l) # i
          /\ Source(i, j, k) <= Source(i, j, l)
      BY <2>3, <1>7 DEF Source
    <3>. QED
      BY <3>1, <1>1, <1>3 DEF Permutes
  <2>. QED
    BY <2>1, <2>2, <2>3
<1>8. \A k \in 0..n - 1 : time[m[k]] = key[Source(i, j, k)]
  BY <1>1 DEF Permutes, MovesFrom
<1>. HIDE DEF m, key
<1>9. Ordered(m, time, n)
  BY <1>7, <1>8 DEF Ordered
<1>. QED
  BY <1>9 DEF m

\* iotc_time_event_bubble_up, with nothing in front of the element to sort
\* after it, leaves the array in order.
LEMMA BubbleUpSorts ==
  ASSUME NEW n \in Nat, NEW a \in [0..n - 1 -> Events],
         NEW time \in [Events -> Int],
         NEW i \in 0..n - 1, NEW j \in i..n - 1,
         OrderedBut(a, time, n, i),
         \A k \in 0..i - 1 : time[a[k]] <= time[a[i]],
         StopsUp(a, time, i, j, n - 1)
  PROVE  Ordered(Move(a, i, j), time, n)
<1>. DEFINE m == Move(a, i, j)
            key == [k \in 0..n - 1 |-> time[a[k]]]
<1>1. Permutes(n, i, j) /\ MovesFrom(n, a, i, j)
  BY SourcePermutes, MoveElements
<1>2. key \in [0..n - 1 -> Int]
  OBVIOUS
<1>3. \A k, l \in 0..n - 1 : k # i /\ l # i /\ k <= l => key[k] <= key[l]
  BY DEF OrderedBut
<1>4. \A k \in 0..i - 1 : key[k] <= key[i]
  OBVIOUS
<1>5. /\ \A k \in i + 1..j : key[k] < key[i]
      /\ j < n - 1 => key[j + 1] >= key[i]
  <2>1. \A k \in 0..n - 1 : key[k] = time[a[k]]
    OBVIOUS
  <2>2. i + 1..j \subseteq 0..n - 1 /\ (j < n - 1 => j + 1 \in 0..n - 1)
    OBVIOUS
  <2>. HIDE DEF key
  <2>. QED
    BY <2>1, <2>2 DEF StopsUp
<1>6. \A k \in j + 1..n - 1 : key[i] <= key[k]
  <2>. HIDE DEF key
  <2>. SUFFICES ASSUME NEW k \in j + 1..n - 1 PROVE key[i] <= key[k]
    OBVIOUS
  <2>1. key[j + 1] <= key[k]
    BY <1>3
  <2>. QED
    BY <2>1, <1>2, <1>5
<1>7. ASSUME NEW k \in 0..n - 1, NEW l \in 0..n - 1, k <= l
      PROVE  key[Source(i, j, k)] <= key[Source(i, j, l)]
  <2>. HIDE DEF key
  <2>1. CASE k = j
    BY <2>1, <1>2, <1>6, <1>7 DEF Source
  <2>2. CASE l = j
    BY <2>2, <1>2, <1>3, <1>4, <1>5, <1>7 DEF Source
  <2>3. CASE k # j /\ l # j
    <3>1. /\ Source(i, j, k) # i
          /\ Source(i, j, l) # i
          /\ Source(i, j, k) <= Source(i, j, l)
      BY <2>3, <1>7 DEF Source
    <3>. QED
      BY <3>1, <1>1, <1>3 DEF Permutes
  <2>. QED
    BY <2>1, <2>2, <2>3
<1>8. \A k \in 0..n - 1 : time[m[k]] = key[Source(i, j, k)]
  BY <1>1 DEF Permutes, MovesFrom
<1>. HIDE DEF m, key
<1>9. Ordered(m, time, n)
  BY <1>7, <1>8 DEF Ordered
<1>. QED
  BY <1>9 DEF m
-----------------------------------------------------------------------------
(* The steps.                                                              *)

\* Two queued events are in different places.
LEMMA QueuedOnce ==
  ASSUME TypeOK, PositionsAgree
  PROVE  \A k, l \in 0..elem_no - 1 : array[k] = array[l] => k = l
BY DEF PositionsAgree

\* Taking out the event at i, whether or not it is freed, keeps the invariant.
LEMMA TakeOutStep ==
  ASSUME IInv, NEW i \in 0..elem_no - 1, NEW cells,
         cells = {} \/ cells = {array[i]},
         TakeOut(i, cells)
  PROVE  IInv' /\ Queued' = Queued \ {array[i]}
<1>. DEFINE n == elem_no
            m == Move(array, i, n - 1)
            e == array[i]
            pos == Renumber(position, m, i, n - 1)
<1>. USE DEF IInv
<1>1. /\ n \in Nat /\ n > 0 /\ n - 1 \in 0..n - 1
      /\ array \in [0..n - 1 -> Events]
      /\ e \in Events
      /\ capacity \in 1..IndexMax /\ IndexMax \in Nat
  BY TimeEventsAssumption DEF TypeOK
<1>2. /\ elem_no' = n - 1
      /\ array' = [k \in 0..n - 2 |-> m[k]]
      /\ position' = [pos EXCEPT ![e] = IF e \in cells THEN 0 ELSE @]
      /\ capacity' = capacity
  BY DEF TakeOut
<1>3. Permutes(n, i, n - 1) /\ MovesFrom(n, array, i, n - 1)
  BY <1>1, SourcePermutes, MoveElements
<1>4. \A k \in 0..n - 2 : /\ Source(i, n - 1, k) \in 0..n - 1
                          /\ Source(i, n - 1, k) # i
                          /\ m[k] = array[Source(i, n - 1, k)]
  <2>. SUFFICES ASSUME NEW k \in 0..n - 2
                PROVE  /\ Source(i, n - 1, k) \in 0..n - 1
                       /\ Source(i, n - 1, k) # i
                       /\ m[k] = array[Source(i, n - 1, k)]
    OBVIOUS
  <2>1. Source(i, n - 1, k) # i /\ k \in 0..n - 1
    BY <1>1 DEF Source
  <2>. QED
    BY <1>3, <2>1 DEF Permutes, MovesFrom
<1>5. \A k \in 0..n - 2 : m[k] \in Queued \ {e}
  BY <1>4, QueuedOnce DEF Queued
<1>6. Queued' = Queued \ {e}
  <2>1. ASSUME NEW f \in Queued \ {e}
        PROVE  f \in Queued'
    <3>1. PICK k \in 0..n - 1 : f = array[k]
      BY DEF Queued
    <3>2. PICK l \in 0..n - 1 : Source(i, n - 1, l) = k
      BY <1>3 DEF Permutes
    <3>3. l # n - 1
      BY <2>1, <3>1, <3>2 DEF Source
    <3>4. l \in 0..n - 2 /\ f = m[l]
      BY <1>1, <1>3, <3>1, <3>2, <3>3 DEF MovesFrom
    <3>. HIDE DEF m
    <3>. QED
      BY <1>1, <1>2, <3>4 DEF Queued
  <2>2. \A k \in 0..n - 2 : array'[k] \in Queued \ {e}
    BY <1>2, <1>5
  <2>3. Queued' \subseteq Queued \ {e}
    BY <1>1, <1>2, <2>2 DEF Queued
  <2>. QED
    BY <2>1, <2>3
<1>7. Queued \subseteq Events
  BY <1>1 DEF Queued
<1>8. TypeOK'
  <2>1. array' \in [0..elem_no' - 1 -> Events]
    BY <1>1, <1>2, <1>5, <1>7
  <2>2. elem_no' \in 0..capacity'
    BY <1>1, <1>2 DEF TypeOK
  <2>3. position' \in [Events -> Int]
    <3>1. pos \in [Events -> Int]
      <4>1. position \in [Events -> Int] /\ i \in Int /\ n - 1 \in Int
        BY <1>1 DEF TypeOK
      <4>. HIDE DEF m
      <4>. QED
        BY <4>1 DEF Renumber
    <3>. HIDE DEF pos, e
    <3>. QED
      BY <1>1, <1>2, <3>1
  <2>4. /\ time_of_execution' \in [Events -> Int]
        /\ time_event_handle' \in [Events -> Handles \cup {NULL}]
        /\ allocated' \in SUBSET Events
    BY DEF TypeOK, TakeOut, Release
  <2>5. ptr_to_position' \in [Handles -> Events \cup {NULL}]
    BY DEF TypeOK, TakeOut, Dispose
  <2>. QED
    BY <1>1, <1>2, <2>1, <2>2, <2>3, <2>4, <2>5 DEF TypeOK
<1>9. PositionsAgree'
  <2>1. Numbered(n, m, pos)
    <3>1. /\ \A k \in 0..n - 1 : k # i => position[array[k]] = k
          /\ \A k \in 0..n - 1 : k # i => array[k] # array[i]
      BY DEF PositionsAgree
    <3>2. position \in [Events -> Int] /\ i \in Int /\ n - 1 \in Int
          /\ i <= n - 1
      BY <1>1 DEF TypeOK
    <3>. QED
      BY <1>1, <3>1, <3>2, MovePositions
  <2>. SUFFICES ASSUME NEW k \in 0..n - 2
                PROVE  position'[array'[k]] = k
    BY <1>1, <1>2 DEF PositionsAgree
  <2>2. array'[k] = m[k] /\ m[k] # e /\ m[k] \in Events
    BY <1>2, <1>5, <1>7
  <2>3. position'[m[k]] = pos[m[k]]
    BY <1>2, <2>2 DEF Renumber
  <2>. QED
    BY <1>1, <2>1, <2>2, <2>3 DEF Numbered
<1>10. HandlesAgree'
  <2>1. /\ \A f \in Queued' : time_event_handle'[f] = time_event_handle[f]
        /\ Queued' \subseteq allocated'
    BY <1>6, <1>7 DEF TakeOut, Release, HandlesAgree
  <2>2. ptr_to_position' =
          [h \in Handles |-> IF h = time_event_handle[e] THEN NULL
                             ELSE ptr_to_position[h]]
    BY DEF TakeOut, Dispose
  <2>3. ASSUME NEW h \in Handles, ptr_to_position'[h] # NULL
        PROVE  /\ ptr_to_position'[h] \in Queued'
               /\ time_event_handle'[ptr_to_position'[h]] = h
    <3>1. h # time_event_handle[e] /\ ptr_to_position'[h] = ptr_to_position[h]
      BY <2>2, <2>3
    <3>2. /\ ptr_to_position[h] \in Queued
          /\ time_event_handle[ptr_to_position[h]] = h
      BY <2>3, <3>1 DEF HandlesAgree
    <3>. QED
      BY <1>6, <2>1, <3>1, <3>2
  <2>4. ASSUME NEW f \in Queued', time_event_handle'[f] # NULL
        PROVE  ptr_to_position'[time_event_handle'[f]] = f
    <3>1. f \in Queued /\ f # e /\ f \in Events /\ e \in Queued
      BY <1>6, <1>7 DEF Queued
    <3>2. /\ ptr_to_position[time_event_handle[f]] = f
          /\ time_event_handle[f] \in Handles
          /\ time_event_handle[e] # NULL =>
               ptr_to_position[time_event_handle[e]] = e
      BY <2>1, <2>4, <3>1 DEF HandlesAgree, TypeOK
    <3>3. time_event_handle[f] # time_event_handle[e]
      BY <2>1, <2>4, <3>1, <3>2
    <3>. QED
      BY <2>1, <2>2, <3>2, <3>3
  <2>. QED
    BY <2>1, <2>3, <2>4 DEF HandlesAgree
<1>11. Sorted'
  <2>1. \A f \in Queued' : time_of_execution'[f] = time_of_execution[f]
    BY <1>6, <1>7 DEF TakeOut, Release
  <2>2. ASSUME NEW k \in 0..n - 2, NEW l \in 0..n - 2, k <= l
        PROVE  time_of_execution'[array'[k]] <= time_of_execution'[array'[l]]
    <3>1. Source(i, n - 1, k) <= Source(i, n - 1, l)
      BY <1>1, <2>2 DEF Source
    <3>2. time_of_execution[m[k]] <= time_of_execution[m[l]]
      BY <1>4, <3>1 DEF Sorted
    <3>3. array'[k] = m[k] /\ array'[l] = m[l]
      BY <1>2
    <3>4. array'[k] \in Queued' /\ array'[l] \in Queued'
      BY <1>5, <1>6, <3>3
    <3>. QED
      BY <2>1, <3>2, <3>3, <3>4
  <2>. QED
    BY <1>1, <1>2, <2>2 DEF Sorted
<1>. QED
  BY <1>6, <1>8, <1>9, <1>10, <1>11

\* A move between i and j of the array of queued events, renumbered, after
\* which the array is in order, is all the order and the positions need.
LEMMA MovedStep ==
  ASSUME TypeOK, HandlesAgree,
         NEW n \in Nat, n > 0, n <= capacity', capacity' \in 1..IndexMax,
         NEW a \in [0..n - 1 -> Events], NEW i \in 0..n - 1,
         NEW j \in 0..n - 1,
         NEW pos \in [Events -> Int],
         elem_no' = n,
         array' = Move(a, i, j),
         Numbered(n, array', position'),
         position' \in [Events -> Int],
         time_of_execution' \in [Events -> Int],
         Ordered(array', time_of_execution', n)
  PROVE  /\ array' \in [0..elem_no' - 1 -> Events]
         /\ elem_no' \in 0..capacity'
         /\ PositionsAgree'
         /\ Sorted'
         /\ Queued' = Elements(n, a)
<1>1. MovesFrom(n, a, i, j)
  BY MoveElements
<1>2. array' \in [0..elem_no' - 1 -> Events]
  BY <1>1 DEF MovesFrom
<1>3. PositionsAgree'
  BY DEF PositionsAgree, Numbered
<1>4. Sorted'
  BY DEF Sorted, Ordered
<1>5. Queued' = Elements(n, a)
  <2>1. Queued' = Elements(n, array')
    BY DEF Queued, Elements
  <2>. QED
    BY <2>1, MoveKeepsElements
<1>. QED
  BY <1>2, <1>3, <1>4, <1>5

\* Adding an event keeps the invariant.
LEMMA AddStep ==
  ASSUME IInv, NEW e \in Events, NEW h \in Handles \cup {NULL},
         NEW t \in Int, Add(e, h, t)
  PROVE  IInv' /\ Queued' = Queued \cup {e}
<1>. DEFINE n == elem_no + 1
            a == [k \in 0..elem_no |-> IF k = elem_no THEN e ELSE array[k]]
            time == [time_of_execution EXCEPT ![e] = t]
            pos0 == [position EXCEPT ![e] = elem_no]
<1>. USE DEF IInv
<1>1. /\ elem_no \in Nat /\ n \in Nat /\ n > 0 /\ n - 1 = elem_no
      /\ elem_no \in 0..n - 1
      /\ array \in [0..elem_no - 1 -> Events]
      /\ t \in Int /\ IndexMax \in Nat
  BY TimeEventsAssumption DEF TypeOK
<1>2. PICK j \in 0..elem_no :
        /\ StopsDown(a, time, elem_no, j)
        /\ array' = Move(a, elem_no, j)
        /\ position' = Renumber(pos0, Move(a, elem_no, j), j, elem_no)
  BY DEF Add
<1>3. /\ elem_no' = n
      /\ time_of_execution' = time
      /\ time_event_handle' = [time_event_handle EXCEPT ![e] = h]
      /\ ptr_to_position' = [g \in Handles |-> IF g = h THEN e
                                               ELSE ptr_to_position[g]]
      /\ allocated' = allocated \cup {e}
      /\ e \notin allocated
      /\ h # NULL => ptr_to_position[h] = NULL
      /\ Reserve
  BY DEF Add
<1>4. /\ a \in [0..n - 1 -> Events]
      /\ a[elem_no] = e
      /\ \A k \in 0..n - 1 : k # elem_no => k \in 0..elem_no - 1 /\ a[k] = array[k]
  BY <1>1
<1>5. /\ Queued \subseteq Events
      /\ e \notin Queued
      /\ \A k \in 0..elem_no - 1 : array[k] \in Queued /\ array[k] # e
  BY <1>1, <1>3 DEF HandlesAgree, Queued
<1>6. n <= capacity' /\ capacity' \in 1..IndexMax
  BY <1>1, <1>3 DEF TypeOK, Reserve, WrapIndex
<1>7. /\ time \in [Events -> Int] /\ time[e] = t
      /\ pos0 \in [Events -> Int]
      /\ \A f \in Queued : time[f] = time_of_execution[f]
      /\ \A f \in Queued : pos0[f] = position[f]
  BY <1>1, <1>5 DEF TypeOK
<1>. HIDE DEF a, time, pos0
<1>8. Numbered(n, array', position')
  <2>1. /\ \A k \in 0..n - 1 : k # elem_no => pos0[a[k]] = k
        /\ \A k \in 0..n - 1 : k # elem_no => a[k] # a[elem_no]
    BY <1>1, <1>4, <1>5, <1>7 DEF PositionsAgree
  <2>2. Numbered(n, Move(a, elem_no, j),
                 Renumber(pos0, Move(a, elem_no, j), j, elem_no))
    <3>1. j \in Int /\ elem_no \in Int /\ j <= elem_no /\ j \in 0..n - 1
      BY <1>1
    <3>. QED
      BY <1>1, <1>4, <1>7, <2>1, <3>1, MovePositions
  <2>. QED
    BY <1>2, <2>2
<1>9. position' \in [Events -> Int]
  <2>. DEFINE m == Move(a, elem_no, j)
  <2>1. j \in Int /\ elem_no \in Int
    BY <1>1
  <2>. HIDE DEF m
  <2>2. Renumber(pos0, m, j, elem_no) \in [Events -> Int]
    BY <1>7, <2>1 DEF Renumber
  <2>. QED
    BY <1>2, <2>2 DEF m
<1>10. Ordered(array', time_of_execution', n)
  <2>1. OrderedBut(a, time, n, elem_no)
    BY <1>1, <1>4, <1>5, <1>7 DEF OrderedBut, Sorted
  <2>2. \A k \in elem_no + 1..n - 1 : time[a[elem_no]] <= time[a[k]]
    BY <1>1
  <2>3. Ordered(Move(a, elem_no, j), time, n)
    BY <1>1, <1>2, <1>4, <1>7, <2>1, <2>2, BubbleDownSorts
  <2>. QED
    BY <1>2, <1>3, <2>3
<1>11. /\ array' \in [0..elem_no' - 1 -> Events]
       /\ elem_no' \in 0..capacity'
       /\ PositionsAgree'
       /\ Sorted'
       /\ Queued' = Elements(n, a)
  BY <1>1, <1>2, <1>3, <1>4, <1>6, <1>7, <1>8, <1>9, <1>10, MovedStep
<1>12. Queued' = Queued \cup {e}
  <2>1. Elements(n, a) = {a[k] : k \in 0..elem_no - 1} \cup {e}
    BY <1>1, <1>4 DEF Elements
  <2>2. {a[k] : k \in 0..elem_no - 1} = Queued
    BY <1>1, <1>4 DEF Queued
  <2>. QED
    BY <1>11, <2>1, <2>2
<1>13. TypeOK'
  <2>1. time_event_handle' \in [Events -> Handles \cup {NULL}]
    BY <1>3 DEF TypeOK
  <2>2. ptr_to_position' \in [Handles -> Events \cup {NULL}]
    BY <1>3 DEF TypeOK
  <2>3. allocated' \in SUBSET Events
    BY <1>3 DEF TypeOK
  <2>. QED
    BY <1>3, <1>6, <1>7, <1>9, <1>11, <2>1, <2>2, <2>3 DEF TypeOK
<1>14. HandlesAgree'
  <2>1. Queued' \subseteq allocated'
    BY <1>3, <1>12 DEF HandlesAgree
  <2>2. \A f \in Queued : time_event_handle'[f] = time_event_handle[f]
    BY <1>3, <1>5 DEF TypeOK
  <2>3. time_event_handle'[e] = h
    BY <1>3 DEF TypeOK
  <2>4. ASSUME NEW g \in Handles, ptr_to_position'[g] # NULL
        PROVE  /\ ptr_to_position'[g] \in Queued'
               /\ time_event_handle'[ptr_to_position'[g]] = g
    <3>1. CASE g = h
      BY <1>3, <1>12, <2>3, <3>1
    <3>2. CASE g # h
      BY <1>3, <1>12, <2>2, <2>4, <3>2 DEF HandlesAgree
    <3>. QED
      BY <3>1, <3>2
  <2>5. ASSUME NEW f \in Queued', time_event_handle'[f] # NULL
        PROVE  ptr_to_position'[time_event_handle'[f]] = f
    <3>1. CASE f = e
      BY <1>3, <2>3, <2>5, <3>1
    <3>2. CASE f # e
      <4>1. f \in Queued /\ time_event_handle[f] \in Handles
        BY <1>5, <1>12, <2>2, <2>5, <3>2 DEF TypeOK
      <4>2. ptr_to_position[time_event_handle[f]] = f
        BY <4>1, <2>2, <2>5 DEF HandlesAgree
      <4>3. f # NULL
        BY <4>1, <1>5, TimeEventsAssumption
      <4>4. time_event_handle[f] # h
        BY <1>3, <2>2, <2>5, <4>1, <4>2, <4>3
      <4>. QED
        BY <1>3, <2>2, <4>1, <4>2, <4>4
    <3>. QED
      BY <3>1, <3>2
  <2>. QED
    BY <2>1, <2>4, <2>5 DEF HandlesAgree
<1>. QED
  BY <1>11, <1>12, <1>13, <1>14

\* Restarting an event that is queued keeps the invariant.
LEMMA RestartStep ==
  ASSUME IInv, NEW h \in Handles, NEW t \in Int, Restart(h, t)
  PROVE  IInv' /\ Queued' = Queued
<1>. DEFINE n == elem_no
            i == position[ptr_to_position[h]]
            e == array[i]
            time == [time_of_execution EXCEPT ![e] = t]
<1>. USE DEF IInv
<1>1. /\ n \in Nat /\ IndexMax \in Nat /\ capacity \in 1..IndexMax
      /\ n <= capacity
      /\ array \in [0..n - 1 -> Events]
      /\ position \in [Events -> Int]
      /\ t \in Int
  BY TimeEventsAssumption DEF TypeOK
<1>2. i \in 0..n - 1 /\ e \in Events /\ n > 0
  BY <1>1 DEF Restart
<1>3. /\ elem_no' = n /\ capacity' = capacity
      /\ time_of_execution' = time
      /\ time_event_handle' = time_event_handle
      /\ ptr_to_position' = ptr_to_position
      /\ allocated' = allocated
  BY DEF Restart
<1>4. /\ time \in [Events -> Int] /\ time[e] = t
      /\ \A f \in Events : f # e => time[f] = time_of_execution[f]
  BY <1>1, <1>2 DEF TypeOK
<1>5. \A k \in 0..n - 1 : k # i => array[k] # e /\ time[array[k]] = time_of_execution[array[k]]
  BY <1>1, <1>2, <1>4 DEF PositionsAgree
<1>6. OrderedBut(array, time, n, i)
  BY <1>5 DEF OrderedBut, Sorted
<1>7. \E j \in 0..n - 1 : /\ array' = Move(array, i, j)
                          /\ Numbered(n, array', position')
                          /\ position' \in [Events -> Int]
                          /\ Ordered(array', time_of_execution', n)
  <2>0. /\ \A k \in 0..n - 1 : k # i => position[array[k]] = k
        /\ \A k \in 0..n - 1 : k # i => array[k] # array[i]
    BY <1>5 DEF PositionsAgree
  <2>1. CASE t < time_of_execution[e]
    <3>0. time_of_execution[e] \in Int /\ ~(t >= time_of_execution[e])
      BY <1>1, <1>2, <2>1 DEF TypeOK
    <3>1. PICK j \in 0..i :
            /\ StopsDown(array, time, i, j)
            /\ array' = Move(array, i, j)
            /\ position' = Renumber(position, Move(array, i, j), j, i)
      BY <3>0 DEF Restart
    <3>2. j \in 0..n - 1 /\ j \in Int /\ i \in Int /\ j <= i
      BY <1>1, <1>2
    <3>3. \A k \in i + 1..n - 1 : time[array[i]] <= time[array[k]]
      <4>. SUFFICES ASSUME NEW k \in i + 1..n - 1
                    PROVE  time[array[i]] <= time[array[k]]
        OBVIOUS
      <4>1. k \in 0..n - 1 /\ k # i /\ i <= k /\ array[k] \in Events
        BY <1>1, <1>2
      <4>2. time_of_execution[e] <= time_of_execution[array[k]]
        BY <1>2, <4>1 DEF Sorted
      <4>3. /\ time_of_execution[e] \in Int
            /\ time_of_execution[array[k]] \in Int
        BY <1>2, <4>1 DEF TypeOK
      <4>. QED
        BY <1>1, <1>4, <1>5, <2>1, <4>1, <4>2, <4>3
    <3>. HIDE DEF time, i
    <3>4. Ordered(Move(array, i, j), time, n)
      BY <1>1, <1>2, <1>4, <1>6, <3>1, <3>3, BubbleDownSorts
    <3>5. Numbered(n, Move(array, i, j),
                   Renumber(position, Move(array, i, j), j, i))
      BY <1>1, <1>2, <2>0, <3>2, MovePositions
    <3>6. position' \in [Events -> Int]
      <4>. DEFINE m == Move(array, i, j)
      <4>. HIDE DEF m
      <4>1. Renumber(position, m, j, i) \in [Events -> Int]
        BY <1>1, <3>2 DEF Renumber
      <4>. QED
        BY <3>1, <4>1 DEF m
    <3>. QED
      BY <1>3, <3>1, <3>2, <3>4, <3>5, <3>6
  <2>2. CASE t >= time_of_execution[e]
    <3>0. time_of_execution[e] \in Int /\ ~(t < time_of_execution[e])
      BY <1>1, <1>2, <2>2 DEF TypeOK
    <3>1. PICK j \in i..n - 1 :
            /\ StopsUp(array, time, i, j, n - 1)
            /\ array' = Move(array, i, j)
            /\ position' = Renumber(position, Move(array, i, j), i, j)
      BY <3>0 DEF Restart
    <3>2. j \in 0..n - 1 /\ j \in Int /\ i \in Int /\ i <= j
      BY <1>1, <1>2
    <3>3. \A k \in 0..i - 1 : time[array[k]] <= time[array[i]]
      <4>. SUFFICES ASSUME NEW k \in 0..i - 1
                    PROVE  time[array[k]] <= time[array[i]]
        OBVIOUS
      <4>1. k \in 0..n - 1 /\ k # i /\ k <= i /\ array[k] \in Events
        BY <1>1, <1>2
      <4>2. time_of_execution[array[k]] <= time_of_execution[e]
        BY <1>2, <4>1 DEF Sorted
      <4>3. time_of_execution[array[k]] \in Int
        BY <4>1 DEF TypeOK
      <4>. QED
        BY <1>1, <1>4, <1>5, <2>2, <3>0, <4>1, <4>2, <4>3
    <3>. HIDE DEF time, i
    <3>4. Ordered(Move(array, i, j), time, n)
      BY <1>1, <1>2, <1>4, <1>6, <3>1, <3>3, BubbleUpSorts
    <3>5. Numbered(n, Move(array, i, j),
                   Renumber(position, Move(array, i, j), i, j))
      BY <1>1, <1>2, <2>0, <3>2, MovePositions
    <3>6. position' \in [Events -> Int]
      <4>. DEFINE m == Move(array, i, j)
      <4>. HIDE DEF m
      <4>1. Renumber(position, m, i, j) \in [Events -> Int]
        BY <1>1, <3>2 DEF Renumber
      <4>. QED
        BY <3>1, <4>1 DEF m
    <3>. QED
      BY <1>3, <3>1, <3>2, <3>4, <3>5, <3>6
  <2>. QED
    BY <1>1, <1>2, <2>1, <2>2 DEF TypeOK
<1>8. PICK j \in 0..n - 1 : /\ array' = Move(array, i, j)
                            /\ Numbered(n, array', position')
                            /\ position' \in [Events -> Int]
                            /\ Ordered(array', time_of_execution', n)
  BY <1>7
<1>9. time_of_execution' \in [Events -> Int]
  BY <1>3, <1>4
<1>. HIDE DEF i, time
<1>10. /\ array' \in [0..elem_no' - 1 -> Events]
       /\ elem_no' \in 0..capacity'
       /\ PositionsAgree'
       /\ Sorted'
       /\ Queued' = Elements(n, array)
  BY <1>1, <1>2, <1>3, <1>8, <1>9, MovedStep
<1>11. Queued' = Queued
  BY <1>10 DEF Queued, Elements
<1>12. TypeOK'
  BY <1>1, <1>3, <1>8, <1>9, <1>10 DEF TypeOK
<1>13. HandlesAgree'
  BY <1>3, <1>11 DEF HandlesAgree
<1>. QED
  BY <1>10, <1>11, <1>12, <1>13

\* A step that leaves the vector alone keeps the invariant if it touches only
\* events that are not queued.
LEMMA OutsideStep ==
  ASSUME IInv, TypeOK',
         NEW e \in Events, e \notin Queued,
         UNCHANGED <<array, elem_no, ptr_to_position>>,
         \A f \in Events : f # e =>
           /\ time_of_execution'[f] = time_of_execution[f]
           /\ position'[f] = position[f]
           /\ time_event_handle'[f] = time_event_handle[f]
           /\ f \in allocated => f \in allocated'
  PROVE  IInv'
<1>. USE DEF IInv
<1>1. Queued' = Queued
  BY DEF Queued
<1>2. \A k \in 0..elem_no - 1 : /\ array[k] \in Queued
                                /\ array[k] \in Events
                                /\ array[k] # e
  BY DEF Queued, TypeOK
<1>3. PositionsAgree'
  BY <1>2 DEF PositionsAgree
<1>4. Sorted'
  BY <1>2 DEF Sorted
<1>5. \A f \in Queued : f \in Events /\ f # e
  BY <1>2 DEF Queued
<1>6. HandlesAgree'
  BY <1>1, <1>5 DEF HandlesAgree
<1>. QED
  BY <1>3, <1>4, <1>6

\* Freeing an event that is not queued keeps the invariant and the queue.
LEMMA FreeStep ==
  ASSUME IInv, NEW e \in Events, Free(e)
  PROVE  IInv' /\ Queued' = Queued
<1>1. e \notin Queued
  BY DEF Free
<1>2. TypeOK'
  BY DEF Free, Release, IInv, TypeOK
<1>3. \A f \in Events : f # e =>
           /\ time_of_execution'[f] = time_of_execution[f]
           /\ position'[f] = position[f]
           /\ time_event_handle'[f] = time_event_handle[f]
           /\ f \in allocated => f \in allocated'
  BY DEF Free, Release, IInv, TypeOK
<1>4. Queued' = Queued
  BY DEF Free, Queued
<1>. QED
  BY <1>1, <1>2, <1>3, <1>4, OutsideStep DEF Free

\* Every step keeps the invariant.
LEMMA InvariantStep == IInv /\ [Next]_vars => IInv'
<1>. SUFFICES ASSUME IInv, [Next]_vars
              PROVE  IInv'
  OBVIOUS
<1>1. ASSUME NEW e \in Events, NEW h \in Handles \cup {NULL}, NEW t \in Times,
             Add(e, h, t)
      PROVE  IInv'
  BY <1>1, AddStep, TimeEventsAssumption
<1>2. ASSUME NEW e \in Events, NEW h \in Handles \cup {NULL}, NEW t \in Times,
             AddFails(e, h, t)
      PROVE  IInv'
  <2>1. e \notin Queued
    BY <1>2 DEF AddFails, IInv, HandlesAgree
  <2>2. TypeOK'
    BY <1>2, TimeEventsAssumption DEF AddFails, IInv, TypeOK
  <2>3. \A f \in Events : f # e => time_of_execution'[f] = time_of_execution[f]
    BY <1>2 DEF AddFails, IInv, TypeOK
  <2>. QED
    BY <1>2, <2>1, <2>2, <2>3, OutsideStep DEF AddFails
<1>3. CASE GetTop
  <2>1. 0 \in 0..elem_no - 1
    BY <1>3 DEF GetTop, IInv, TypeOK
  <2>. QED
    BY <1>3, <2>1, TakeOutStep DEF GetTop
<1>4. ASSUME NEW h \in Handles, Cancel(h)
      PROVE  IInv'
  BY <1>4, TakeOutStep DEF Cancel
<1>5. ASSUME NEW h \in Handles, NEW t \in Times, Restart(h, t)
      PROVE  IInv'
  BY <1>5, RestartStep, TimeEventsAssumption
<1>6. ASSUME NEW e \in Events, Free(e)
      PROVE  IInv'
  BY <1>6, FreeStep
<1>7. CASE UNCHANGED vars
  <2>1. Queued' = Queued
    BY <1>7 DEF vars, Queued
  <2>. QED
    BY <1>7, <2>1 DEF vars, IInv, TypeOK, PositionsAgree, HandlesAgree, Sorted
<1>. QED
  BY <1>1, <1>2, <1>3, <1>4, <1>5, <1>6, <1>7 DEF Next

\* The initial state satisfies the invariant.
LEMMA InvariantInit == Init => IInv
BY TimeEventsAssumption DEF Init, IInv, TypeOK, PositionsAgree, HandlesAgree,
                            Sorted, Queued

\* The invariant holds in every reachable state.
LEMMA InvariantHolds == Spec => []IInv
BY InvariantInit, InvariantStep, PTL DEF Spec

-----------------------------------------------------------------------------
(* The theorems.                                                           *)

\* The container is well typed, no capacity has wrapped around its type and
\* the vector stays within it.
THEOREM TypeCorrect == Spec => []TypeOK
<1>1. IInv => TypeOK
  BY DEF IInv
<1>. QED
  BY <1>1, InvariantHolds, PTL

\* The events stay sorted by time of execution, so that get_top returns one
\* that is due first.
THEOREM ContainerSorted == Spec => []Sorted
<1>1. IInv => Sorted
  BY DEF IInv
<1>. QED
  BY <1>1, InvariantHolds, PTL

\* The position an event records is its index, after every move.
THEOREM PositionsAlwaysAgree == Spec => []PositionsAgree
<1>1. IInv => PositionsAgree
  BY DEF IInv
<1>. QED
  BY <1>1, InvariantHolds, PTL

\* A handle leads to an allocated, queued event of its own or to none: cancel
\* and restart never reach a freed event, nor somebody else's.
THEOREM HandlesAlwaysAgree == Spec => []HandlesAgree
<1>1. IInv => HandlesAgree
  BY DEF IInv
<1>. QED
  BY <1>1, InvariantHolds, PTL

-----------------------------------------------------------------------------
(* The order of events that stay.                                          *)

\* What a step may do to two events that stay queued and keep their times.
KeepsOrder ==
  \A e, f \in Queued \cap Queued' :
    /\ time_of_execution'[e] = time_of_execution[e]
    /\ time_of_execution'[f] = time_of_execution[f]
    /\ position[e] < position[f]
    => position'[e] < position'[f]

\* No element of an array is in it twice.
Distinct(n, a) == \A k, l \in 0..n - 1 : a[k] = a[l] => k = l

\* The vector is left with what a move from i to j leaves of an array, but for
\* a last element that may be dropped.
LeavesMoved(n, a, i, j) ==
  /\ elem_no' \in Nat
  /\ elem_no' <= n
  /\ \A k \in 0..elem_no' - 1 : array'[k] = Move(a, i, j)[k]

\* A move keeps the order of all elements but the one it moves.
LEMMA MoveKeepsOrder ==
  ASSUME PositionsAgree',
         NEW n \in Nat, NEW a \in [0..n - 1 -> Events],
         NEW i \in 0..n - 1, NEW j \in 0..n - 1,
         LeavesMoved(n, a, i, j),
         Distinct(n, a),
         NEW k \in 0..n - 1, NEW l \in 0..n - 1, k < l, k # i, l # i,
         a[k] \in Queued', a[l] \in Queued'
  PROVE  position'[a[k]] < position'[a[l]]
<1>1. Permutes(n, i, j) /\ MovesFrom(n, a, i, j)
  BY SourcePermutes, MoveElements
<1>0. PICK m \in 0..n : elem_no' = m
  BY DEF LeavesMoved
<1>2. PICK u \in 0..m - 1 : array'[u] = a[k]
  BY <1>0 DEF Queued
<1>3. PICK v \in 0..m - 1 : array'[v] = a[l]
  BY <1>0 DEF Queued
<1>4. /\ u \in 0..n - 1 /\ array'[u] = Move(a, i, j)[u]
      /\ v \in 0..n - 1 /\ array'[v] = Move(a, i, j)[v]
  BY <1>0, <1>2, <1>3 DEF LeavesMoved
<1>5. Source(i, j, u) = k
  <2>1. a[Source(i, j, u)] = a[k] /\ Source(i, j, u) \in 0..n - 1
    BY <1>1, <1>2, <1>4 DEF Permutes, MovesFrom
  <2>. QED
    BY <2>1 DEF Distinct
<1>6. Source(i, j, v) = l
  <2>1. a[Source(i, j, v)] = a[l] /\ Source(i, j, v) \in 0..n - 1
    BY <1>1, <1>3, <1>4 DEF Permutes, MovesFrom
  <2>. QED
    BY <2>1 DEF Distinct
<1>7. u < v
  BY <1>4, <1>5, <1>6 DEF Source
<1>8. position'[a[k]] = u /\ position'[a[l]] = v
  BY <1>0, <1>2, <1>3 DEF PositionsAgree
<1>. QED
  BY <1>4, <1>7, <1>8

\* A step that changes no element of the vector keeps the order.
LEMMA SameVectorKeepsOrder ==
  ASSUME IInv, IInv', elem_no' = elem_no,
         \A k \in 0..elem_no - 1 : array'[k] = array[k]
  PROVE  KeepsOrder
<1>1. \A k \in 0..elem_no - 1 : position'[array[k]] = position[array[k]]
  BY DEF IInv, PositionsAgree
<1>2. \A e \in Queued : position'[e] = position[e]
  BY <1>1 DEF Queued
<1>. QED
  BY <1>2 DEF KeepsOrder

\* Taking an event out keeps the order of the others.
LEMMA TakeOutKeepsOrder ==
  ASSUME IInv, IInv', NEW i \in 0..elem_no - 1, NEW cells, TakeOut(i, cells)
  PROVE  KeepsOrder
<1>. DEFINE n == elem_no
            m == Move(array, i, n - 1)
<1>1. /\ n \in Nat /\ n > 0 /\ n - 1 \in 0..n - 1
      /\ array \in [0..n - 1 -> Events]
  BY DEF IInv, TypeOK
<1>2. /\ elem_no' = n - 1
      /\ \A k \in 0..elem_no' - 1 : array'[k] = m[k]
  BY <1>1 DEF TakeOut
<1>3. \A k, l \in 0..n - 1 : array[k] = array[l] => k = l
  BY QueuedOnce DEF IInv
<1>4. array[i] \notin Queued'
  <2>. SUFFICES ASSUME NEW k \in 0..elem_no' - 1, array'[k] = array[i]
                PROVE  FALSE
    BY DEF Queued
  <2>1. k \in 0..n - 1 /\ k # n - 1
    BY <1>1, <1>2
  <2>2. Permutes(n, i, n - 1) /\ MovesFrom(n, array, i, n - 1)
    BY <1>1, SourcePermutes, MoveElements
  <2>3. array[Source(i, n - 1, k)] = array[i] /\ Source(i, n - 1, k) \in 0..n - 1
    BY <1>2, <2>1, <2>2 DEF Permutes, MovesFrom
  <2>4. Source(i, n - 1, k) = i
    BY <1>3, <2>3
  <2>. QED
    BY <1>1, <2>1, <2>4 DEF Source
<1>5. ASSUME NEW k \in 0..n - 1, NEW l \in 0..n - 1, k < l,
             array[k] \in Queued', array[l] \in Queued'
      PROVE  position'[array[k]] < position'[array[l]]
  <2>1. k # i /\ l # i
    BY <1>4, <1>5
  <2>2. PositionsAgree' /\ Distinct(n, array)
    BY <1>3 DEF IInv, Distinct
  <2>3. LeavesMoved(n, array, i, n - 1)
    BY <1>1, <1>2 DEF LeavesMoved
  <2>. QED
    BY <1>1, <1>5, <2>1, <2>2, <2>3, MoveKeepsOrder
<1>6. \A k \in 0..n - 1 : position[array[k]] = k
  BY DEF IInv, PositionsAgree
<1>. QED
  BY <1>1, <1>5, <1>6 DEF KeepsOrder, Queued

\* Adding an event keeps the order of the events already queued.
LEMMA AddKeepsOrder ==
  ASSUME IInv, IInv', NEW e \in Events, NEW h \in Handles \cup {NULL},
         NEW t \in Times, Add(e, h, t)
  PROVE  KeepsOrder
<1>. DEFINE n == elem_no + 1
            a == [k \in 0..elem_no |-> IF k = elem_no THEN e ELSE array[k]]
<1>1. /\ elem_no \in Nat /\ n \in Nat /\ elem_no \in 0..n - 1
      /\ n = elem_no + 1
      /\ array \in [0..elem_no - 1 -> Events]
      /\ elem_no' = n
  BY DEF IInv, TypeOK, Add
<1>2. /\ a \in [0..n - 1 -> Events]
      /\ a[elem_no] = e
      /\ \A k \in 0..elem_no - 1 : k \in 0..n - 1 /\ a[k] = array[k]
  BY <1>1
<1>3. PICK j \in 0..elem_no : array' = Move(a, elem_no, j)
  BY DEF Add
<1>4. j \in 0..n - 1
  BY <1>1
<1>. HIDE DEF a, n
<1>5. \A k \in 0..elem_no - 1 : array[k] # e
  <2>1. e \notin Queued
    BY DEF Add, IInv, HandlesAgree
  <2>. QED
    BY <2>1 DEF Queued
<1>6. \A k, l \in 0..n - 1 : a[k] = a[l] => k = l
  <2>1. \A k \in 0..n - 1 : k = elem_no \/ k \in 0..elem_no - 1
    BY <1>1
  <2>2. \A k, l \in 0..elem_no - 1 : array[k] = array[l] => k = l
    BY QueuedOnce DEF IInv
  <2>. QED
    BY <1>2, <1>5, <2>1, <2>2
<1>7. ASSUME NEW k \in 0..elem_no - 1, NEW l \in 0..elem_no - 1, k < l,
             array[k] \in Queued', array[l] \in Queued'
      PROVE  position'[array[k]] < position'[array[l]]
  <2>1. /\ k \in 0..n - 1 /\ k # elem_no /\ a[k] = array[k]
        /\ l \in 0..n - 1 /\ l # elem_no /\ a[l] = array[l]
        /\ a[k] \in Queued' /\ a[l] \in Queued'
    BY <1>1, <1>2, <1>7
  <2>2. PositionsAgree' /\ Distinct(n, a)
    BY <1>6 DEF IInv, Distinct
  <2>3. LeavesMoved(n, a, elem_no, j)
    BY <1>1, <1>3 DEF LeavesMoved
  <2>4. position'[a[k]] < position'[a[l]]
    BY <1>1, <1>2, <1>4, <1>7, <2>1, <2>2, <2>3, MoveKeepsOrder
  <2>. QED
    BY <2>1, <2>4
<1>8. \A k \in 0..elem_no - 1 : position[array[k]] = k
  BY DEF IInv, PositionsAgree
<1>. QED
  BY <1>1, <1>7, <1>8 DEF KeepsOrder, Queued

\* Restarting an event keeps the order of the others, and does not move an
\* event whose time it leaves as it was.
LEMMA RestartKeepsOrder ==
  ASSUME IInv, IInv', NEW h \in Handles, NEW t \in Times, Restart(h, t)
  PROVE  KeepsOrder
<1>. DEFINE n == elem_no
            i == position[ptr_to_position[h]]
            e == array[i]
            time == [time_of_execution EXCEPT ![e] = t]
<1>1. /\ n \in Nat /\ elem_no' = n
      /\ array \in [0..n - 1 -> Events]
      /\ time_of_execution \in [Events -> Int]
      /\ t \in Int
  <2>1. elem_no' = n
    BY DEF Restart
  <2>. QED
    BY <2>1, TimeEventsAssumption DEF IInv, TypeOK
<1>2. i \in 0..n - 1 /\ e \in Events
  BY <1>1 DEF Restart
<1>3. time_of_execution' = time
  BY DEF Restart
<1>4. \E j \in 0..n - 1 :
         /\ array' = Move(array, i, j)
         /\ t = time_of_execution[e] => StopsUp(array, time, i, j, n - 1)
         /\ j \in 0..n - 1
         /\ t = time_of_execution[e] => i <= j
  <2>1. CASE t < time_of_execution[e]
    <3>1. time_of_execution[e] \in Int /\ ~(t >= time_of_execution[e])
      BY <1>1, <1>2, <2>1
    <3>2. PICK j \in 0..i : array' = Move(array, i, j)
      BY <3>1 DEF Restart
    <3>. QED
      BY <1>1, <1>2, <2>1, <3>1, <3>2
  <2>2. CASE t >= time_of_execution[e]
    <3>1. time_of_execution[e] \in Int /\ ~(t < time_of_execution[e])
      BY <1>1, <1>2, <2>2
    <3>2. PICK j \in i..n - 1 : /\ array' = Move(array, i, j)
                                /\ StopsUp(array, time, i, j, n - 1)
      BY <3>1 DEF Restart
    <3>3. j \in 0..n - 1 /\ i <= j
      BY <1>1, <1>2
    <3>. QED
      BY <3>2, <3>3
  <2>3. t \in Int /\ time_of_execution[e] \in Int
    BY <1>1, <1>2
  <2>4. t < time_of_execution[e] \/ t >= time_of_execution[e]
    BY <2>3
  <2>. QED
    BY <2>1, <2>2, <2>4
<1>5. PICK j \in 0..n - 1 :
         /\ array' = Move(array, i, j)
         /\ t = time_of_execution[e] =>
              i <= j /\ StopsUp(array, time, i, j, n - 1)
  BY <1>4
<1>6. \A k, l \in 0..n - 1 : array[k] = array[l] => k = l
  BY QueuedOnce DEF IInv
<1>7. CASE t = time_of_execution[e]
  <2>1. time = time_of_execution
    BY <1>1, <1>2, <1>7
  <2>2. j = i
    <3>. SUFFICES ASSUME i < j PROVE FALSE
      BY <1>2, <1>5, <1>7
    <3>1. i + 1 \in 0..n - 1 /\ i + 1 \in i + 1..j /\ i <= i + 1
      BY <1>1, <1>2
    <3>2. time_of_execution[array[i + 1]] < time_of_execution[array[i]]
      BY <1>5, <1>7, <2>1, <3>1 DEF StopsUp
    <3>3. time_of_execution[array[i]] <= time_of_execution[array[i + 1]]
      BY <1>2, <3>1 DEF IInv, Sorted
    <3>4. /\ time_of_execution[array[i]] \in Int
          /\ time_of_execution[array[i + 1]] \in Int
      BY <1>1, <1>2, <3>1
    <3>. QED
      BY <3>2, <3>3, <3>4
  <2>3. \A k \in 0..n - 1 : array'[k] = array[k]
    <3>. HIDE DEF i
    <3>1. \A k \in 0..n - 1 : Source(i, i, k) = k
      BY <1>2 DEF Source
    <3>2. MovesFrom(n, array, i, i)
      BY <1>1, <1>2, MoveElements
    <3>. QED
      BY <1>5, <2>2, <3>1, <3>2 DEF MovesFrom
  <2>. QED
    BY <1>1, <2>3, SameVectorKeepsOrder
<1>8. CASE t # time_of_execution[e]
  <2>1. time_of_execution'[e] # time_of_execution[e]
    BY <1>1, <1>2, <1>3, <1>8
  <2>. HIDE DEF i
  <2>2. ASSUME NEW k \in 0..n - 1, NEW l \in 0..n - 1, k < l, k # i, l # i,
               array[k] \in Queued', array[l] \in Queued'
        PROVE  position'[array[k]] < position'[array[l]]
    <3>1. PositionsAgree' /\ Distinct(n, array)
      BY <1>6 DEF IInv, Distinct
    <3>2. LeavesMoved(n, array, i, j)
      BY <1>1, <1>5 DEF LeavesMoved
    <3>. QED
      BY <1>1, <1>2, <2>2, <3>1, <3>2, MoveKeepsOrder
  <2>3. \A k \in 0..n - 1 : position[array[k]] = k
    BY DEF IInv, PositionsAgree
  <2>4. ASSUME NEW x \in Queued \cap Queued', NEW y \in Queued \cap Queued',
               time_of_execution'[x] = time_of_execution[x],
               time_of_execution'[y] = time_of_execution[y],
               position[x] < position[y]
        PROVE  position'[x] < position'[y]
    <3>1. PICK k \in 0..n - 1 : x = array[k]
      BY <2>4 DEF Queued
    <3>2. PICK l \in 0..n - 1 : y = array[l]
      BY <2>4 DEF Queued
    <3>3. k < l
      BY <2>3, <2>4, <3>1, <3>2
    <3>4. k # i /\ l # i
      BY <2>1, <2>4, <3>1, <3>2
    <3>. QED
      BY <2>2, <2>4, <3>1, <3>2, <3>3, <3>4
  <2>. QED
    BY <2>4 DEF KeepsOrder
<1>. QED
  BY <1>7, <1>8

\* No operation reorders two queued events unless it changes the time of one.
THEOREM OrderAlwaysStable == Spec => OrderIsStable
<1>1. IInv /\ IInv' /\ [Next]_vars => KeepsOrder
  <2>. SUFFICES ASSUME IInv, IInv', [Next]_vars
                PROVE  KeepsOrder
    OBVIOUS
  <2>1. ASSUME NEW e \in Events, NEW h \in Handles \cup {NULL},
               NEW t \in Times, Add(e, h, t)
        PROVE  KeepsOrder
    BY <2>1, AddKeepsOrder
  <2>2. CASE UNCHANGED <<array, elem_no>>
    BY <2>2, SameVectorKeepsOrder
  <2>3. CASE GetTop
    <3>1. 0 \in 0..elem_no - 1
      BY <2>3 DEF GetTop, IInv, TypeOK
    <3>. QED
      BY <2>3, <3>1, TakeOutKeepsOrder DEF GetTop
  <2>4. ASSUME NEW h \in Handles, Cancel(h)
        PROVE  KeepsOrder
    BY <2>4, TakeOutKeepsOrder DEF Cancel
  <2>5. ASSUME NEW h \in Handles, NEW t \in Times, Restart(h, t)
        PROVE  KeepsOrder
    BY <2>5, RestartKeepsOrder
  <2>. QED
    BY <2>1, <2>2, <2>3, <2>4, <2>5 DEF Next, AddFails, Free, vars
<1>2. KeepsOrder =>
        [\A e, f \in Queued \cap Queued' :
           /\ time_of_execution'[e] = time_of_execution[e]
           /\ time_of_execution'[f] = time_of_execution[f]
           /\ position[e] < position[f]
           => position'[e] < position'[f]]_vars
  BY DEF KeepsOrder
<1>. QED
  BY <1>1, <1>2, InvariantHolds, PTL DEF Spec, OrderIsStable

\* What a step may do to an event it adds.
RunsLast ==
  \A e \in Queued' \ Queued, f \in Queued :
    time_of_execution'[e] = time_of_execution[f]
    => position'[f] < position'[e]

\* A step that only moves events, or takes some out, adds none.
LEMMA MovedAddsNone ==
  ASSUME IInv, NEW i \in 0..elem_no - 1, NEW j \in 0..elem_no - 1,
         LeavesMoved(elem_no, array, i, j)
  PROVE  RunsLast
<1>. DEFINE n == elem_no
<1>1. n \in Nat /\ array \in [0..n - 1 -> Events]
  BY DEF IInv, TypeOK
<1>2. PICK m \in 0..n : elem_no' = m
  BY DEF LeavesMoved
<1>3. \A k \in 0..m - 1 : k \in 0..n - 1 /\ array'[k] = Move(array, i, j)[k]
  BY <1>1, <1>2 DEF LeavesMoved
<1>4. Permutes(n, i, j) /\ MovesFrom(n, array, i, j)
  BY <1>1, SourcePermutes, MoveElements
<1>5. ASSUME NEW k \in 0..m - 1
      PROVE  array'[k] \in Queued
  <2>1. Source(i, j, k) \in 0..n - 1 /\ array'[k] = array[Source(i, j, k)]
    BY <1>3, <1>4 DEF Permutes, MovesFrom
  <2>. QED
    BY <2>1 DEF Queued
<1>6. Queued' \subseteq Queued
  BY <1>2, <1>5 DEF Queued
<1>. QED
  BY <1>6 DEF RunsLast

\* iotc_time_event_add puts the event behind those of the same time.
LEMMA AddRunsLast ==
  ASSUME IInv, IInv', NEW e \in Events, NEW h \in Handles \cup {NULL},
         NEW t \in Times, Add(e, h, t)
  PROVE  RunsLast
<1>. DEFINE n == elem_no + 1
            a == [k \in 0..elem_no |-> IF k = elem_no THEN e ELSE array[k]]
            time == [time_of_execution EXCEPT ![e] = t]
<1>1. /\ elem_no \in Nat /\ n \in Nat /\ elem_no \in 0..n - 1
      /\ n = elem_no + 1
      /\ array \in [0..elem_no - 1 -> Events]
      /\ elem_no' = n
      /\ time_of_execution' = time
      /\ e \notin Queued
  BY DEF IInv, TypeOK, HandlesAgree, Add
<1>2. /\ a \in [0..n - 1 -> Events]
      /\ a[elem_no] = e
      /\ \A k \in 0..elem_no - 1 : k \in 0..n - 1 /\ a[k] = array[k]
  BY <1>1
<1>3. PICK j \in 0..elem_no : /\ StopsDown(a, time, elem_no, j)
                              /\ array' = Move(a, elem_no, j)
  BY DEF Add
<1>4. j \in 0..n - 1
  BY <1>1
<1>5. /\ time \in [Events -> Int]
      /\ time[e] = t /\ t \in Int
      /\ \A f \in Events : f # e => time[f] = time_of_execution[f]
  BY TimeEventsAssumption DEF IInv, TypeOK
<1>. HIDE DEF a, n, time
<1>6. MovesFrom(n, a, elem_no, j) /\ Permutes(n, elem_no, j)
  BY <1>1, <1>2, <1>4, MoveElements, SourcePermutes
<1>7. \A k \in 0..n - 1 : array'[k] = a[Source(elem_no, j, k)]
  BY <1>3, <1>6 DEF MovesFrom
<1>8. \A k \in 0..n - 1 : position'[array'[k]] = k
  BY <1>1 DEF IInv, PositionsAgree
<1>9. position'[e] = j
  <2>1. array'[j] = e
    BY <1>2, <1>4, <1>7 DEF Source
  <2>. QED
    BY <1>4, <1>8, <2>1
<1>10. Queued' \subseteq Queued \cup {e}
  <2>1. \A k \in 0..n - 1 : a[k] \in Queued \cup {e}
    BY <1>1, <1>2 DEF Queued
  <2>2. \A k \in 0..n - 1 : array'[k] \in Queued \cup {e}
    BY <1>6, <1>7, <2>1 DEF Permutes
  <2>. QED
    BY <1>1, <2>2 DEF Queued
<1>11. ASSUME NEW k \in 0..elem_no - 1, time_of_execution[array[k]] = t
       PROVE  position'[array[k]] < j
  <2>1. a[k] = array[k] /\ a[k] \in Events /\ a[k] # e /\ k \in 0..n - 1
    BY <1>1, <1>2 DEF Queued
  <2>2. time[a[k]] = time[a[elem_no]] /\ time[a[k]] \in Int
    BY <1>2, <1>5, <1>11, <2>1
  <2>3. k < j
    <3>. SUFFICES ASSUME k >= j PROVE FALSE
      BY <1>1
    <3>1. k \in j..elem_no - 1
      BY <1>1
    <3>. QED
      BY <1>3, <2>2, <3>1 DEF StopsDown
  <2>4. array'[k] = a[k]
    BY <1>1, <1>4, <1>7, <2>1, <2>3 DEF Source
  <2>. QED
    BY <1>8, <2>1, <2>3, <2>4
<1>. SUFFICES ASSUME NEW f \in Queued, time_of_execution[f] = t
              PROVE  position'[f] < position'[e]
  BY <1>1, <1>5, <1>10 DEF RunsLast
<1>. QED
  BY <1>9, <1>11 DEF Queued

\* An added event runs after the events already queued for the same time.
THEOREM AddedAlwaysRunsLast == Spec => AddedRunsLast
<1>1. IInv /\ IInv' /\ [Next]_vars => RunsLast
  <2>. SUFFICES ASSUME IInv, IInv', [Next]_vars
                PROVE  RunsLast
    OBVIOUS
  <2>0. elem_no \in Nat
    BY DEF IInv, TypeOK
  <2>1. ASSUME NEW e \in Events, NEW h \in Handles \cup {NULL},
               NEW t \in Times, Add(e, h, t)
        PROVE  RunsLast
    BY <2>1, AddRunsLast
  <2>2. CASE UNCHANGED <<array, elem_no>>
    BY <2>2 DEF RunsLast, Queued
  <2>3. ASSUME NEW i \in 0..elem_no - 1, NEW cells, TakeOut(i, cells)
        PROVE  RunsLast
    <3>1. elem_no - 1 \in 0..elem_no - 1 /\ elem_no - 1 \in 0..elem_no
      BY <2>0
    <3>2. LeavesMoved(elem_no, array, i, elem_no - 1)
      BY <2>0, <2>3, <3>1 DEF TakeOut, LeavesMoved
    <3>. QED
      BY <3>1, <3>2, MovedAddsNone
  <2>4. CASE GetTop
    <3>1. 0 \in 0..elem_no - 1
      BY <2>0, <2>4 DEF GetTop
    <3>. QED
      BY <2>3, <2>4, <3>1 DEF GetTop
  <2>5. ASSUME NEW h \in Handles, Cancel(h)
        PROVE  RunsLast
    BY <2>3, <2>5 DEF Cancel
  <2>6. ASSUME NEW h \in Handles, NEW t \in Times, Restart(h, t)
        PROVE  RunsLast
    <3>. DEFINE i == position[ptr_to_position[h]]
    <3>1. i \in 0..elem_no - 1 /\ elem_no' = elem_no
      BY <2>6 DEF Restart
    <3>2. PICK j \in 0..elem_no - 1 : array' = Move(array, i, j)
      BY <2>0, <2>6, <3>1 DEF Restart
    <3>. HIDE DEF i
    <3>3. LeavesMoved(elem_no, array, i, j)
      BY <2>0, <3>1, <3>2 DEF LeavesMoved
    <3>. QED
      BY <3>1, <3>3, MovedAddsNone
  <2>. QED
    BY <2>1, <2>2, <2>4, <2>5, <2>6 DEF Next, AddFails, Free, vars
<1>2. RunsLast =>
        [\A e \in Queued' \ Queued, f \in Queued :
           time_of_execution'[e] = time_of_execution[f]
           => position'[f] < position'[e]]_vars
  BY DEF RunsLast
<1>. QED
  BY <1>1, <1>2, InvariantHolds, PTL DEF Spec, AddedRunsLast
=============================================================================
