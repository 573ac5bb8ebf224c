-------------------------- MODULE MemoryLimiterProofs --------------------------
(***************************************************************************)
(* Proofs about MemoryLimiter, for every heap, all sizes and all limits.   *)
(*                                                                         *)
(* What is counted does not depend on the list of debug builds, which two  *)
(* ways of resizing break: the invariant says nothing of the list.  What   *)
(* keeps a whole list whole is proved of every step.                       *)
(***************************************************************************)
EXTENDS MemoryLimiter, FiniteSetTheorems, TLAPS

Links == Blocks \cup {NULL}

Entries == [size : Nat, type : Types, next : Links, prev : Links]

Heaps == [Blocks -> Entries \cup {NULL}]

\* The collector is at a block, in a debug build.
Collector(g) == g \in Links /\ (g # NULL => debug)

\* Every variable has its type.
TypeOK ==
  /\ heap \in Heaps /\ head \in Links
  /\ allocated \in Nat
  /\ total_limit \in Int /\ application_limit \in Int /\ new_limit \in Int
  /\ debug \in BOOLEAN /\ raced \in BOOLEAN
  /\ limiting \in {NULL, "TOTAL", "APPLICATION"}
  /\ Collector(gc) /\ aborted \in BOOLEAN

-----------------------------------------------------------------------------
(* Bytes.                                                                  *)

BytesOfBlock(h, b, types) ==
  IF h[b] # NULL /\ h[b].type \in types THEN {b} \X (1..h[b].size) ELSE {}

LEMMA NullIsNoEntry == NULL \notin Entries /\ NULL \notin Blocks
BY MemoryLimiterAssumption DEF Entries, Links, Types

\* The bytes of a heap are those of its blocks.
LEMMA BytesByBlock ==
  ASSUME NEW h \in Heaps, NEW types
  PROVE  \A p : p \in Bytes(h, types) <=> \E b \in Blocks : p \in BytesOfBlock(h, b, types)
BY DEF Bytes, BytesOfBlock

LEMMA BytesOfBlockAreHis ==
  ASSUME NEW h \in Heaps, NEW types, NEW b \in Blocks, NEW p \in BytesOfBlock(h, b, types)
  PROVE  p[1] = b
BY DEF BytesOfBlock

LEMMA UpTo ==
  ASSUME NEW n \in Nat
  PROVE  IsFiniteSet(1..n) /\ Cardinality(1..n) = n
<1>1. /\ IsFiniteSet(1..n)
      /\ Cardinality(1..n) = IF 1 > n THEN 0 ELSE n - 1 + 1
  BY FS_Interval
<1>. QED
  BY <1>1

LEMMA BlockCounts ==
  ASSUME NEW h \in Heaps, NEW types, NEW b \in Blocks
  PROVE  /\ IsFiniteSet(BytesOfBlock(h, b, types))
         /\ Cardinality(BytesOfBlock(h, b, types))
              = IF h[b] # NULL /\ h[b].type \in types THEN h[b].size ELSE 0
<1>1. CASE h[b] # NULL /\ h[b].type \in types
  <2>1. h[b].size \in Nat
    BY <1>1 DEF Heaps, Entries
  <2>2. IsFiniteSet(1..h[b].size) /\ Cardinality(1..h[b].size) = h[b].size
    BY <2>1, UpTo
  <2>3. IsFiniteSet({b}) /\ Cardinality({b}) = 1
    BY FS_Singleton
  <2>4. /\ IsFiniteSet({b} \X (1..h[b].size))
        /\ Cardinality({b} \X (1..h[b].size)) = 1 * h[b].size
    BY <2>2, <2>3, FS_Product
  <2>. QED
    BY <1>1, <2>1, <2>4 DEF BytesOfBlock
<1>2. CASE ~(h[b] # NULL /\ h[b].type \in types)
  BY <1>2, FS_EmptySet DEF BytesOfBlock
<1>. QED
  BY <1>1, <1>2

\* Two heaps that differ in the list only.
SameBlocks(g, h, B) ==
  \A b \in B : /\ g[b] = NULL <=> h[b] = NULL
               /\ g[b] # NULL => g[b].size = h[b].size /\ g[b].type = h[b].type

\* The heap g has the blocks of h and, where h has nothing, b: its bytes are those of h
\* and those of b.
LEMMA BytesWithBlock ==
  ASSUME NEW h \in Heaps, NEW g \in Heaps, NEW b \in Blocks, NEW types,
         h[b] = NULL, SameBlocks(g, h, Blocks \ {b}), IsFiniteSet(Bytes(h, types))
  PROVE  /\ IsFiniteSet(Bytes(g, types))
         /\ Cardinality(Bytes(g, types))
              = Cardinality(Bytes(h, types))
                + (IF g[b] # NULL /\ g[b].type \in types THEN g[b].size ELSE 0)
<1>. DEFINE own == BytesOfBlock(g, b, types)
<1>1. \A c \in Blocks \ {b} : BytesOfBlock(g, c, types) = BytesOfBlock(h, c, types)
  BY DEF SameBlocks, BytesOfBlock
<1>2. BytesOfBlock(h, b, types) = {}
  BY DEF BytesOfBlock
<1>3. Bytes(g, types) = Bytes(h, types) \cup own
  <2>1. \A p : p \in Bytes(g, types) <=> \E c \in Blocks : p \in BytesOfBlock(g, c, types)
    BY BytesByBlock
  <2>2. \A p : p \in Bytes(h, types) <=> \E c \in Blocks : p \in BytesOfBlock(h, c, types)
    BY BytesByBlock
  <2>. QED
    BY <1>1, <1>2, <2>1, <2>2
<1>4. Bytes(h, types) \cap own = {}
  <2>. SUFFICES ASSUME NEW p \in Bytes(h, types), p \in own PROVE FALSE
    OBVIOUS
  <2>1. p[1] = b
    BY BytesOfBlockAreHis
  <2>2. PICK c \in Blocks : p \in BytesOfBlock(h, c, types)
    BY BytesByBlock
  <2>3. p[1] = c
    BY <2>2, BytesOfBlockAreHis
  <2>. QED
    BY <1>2, <2>1, <2>2, <2>3
<1>5. /\ IsFiniteSet(own)
      /\ Cardinality(own) = IF g[b] # NULL /\ g[b].type \in types THEN g[b].size ELSE 0
  BY BlockCounts
<1>6. /\ IsFiniteSet(Bytes(h, types) \cup own)
      /\ Cardinality(Bytes(h, types) \cup own)
           = Cardinality(Bytes(h, types)) + Cardinality(own) - Cardinality({})
  BY <1>4, <1>5, FS_Union
<1>7. Cardinality({}) = 0 /\ Cardinality(Bytes(h, types)) \in Nat /\ Cardinality(own) \in Nat
  BY <1>5, FS_EmptySet, FS_CardinalityType
<1>. HIDE DEF own
<1>. QED
  BY <1>3, <1>5, <1>6, <1>7

\* The heap g has the blocks of h but b.
LEMMA BytesWithoutBlock ==
  ASSUME NEW h \in Heaps, NEW g \in Heaps, NEW b \in Blocks, NEW types,
         g[b] = NULL, SameBlocks(g, h, Blocks \ {b}), IsFiniteSet(Bytes(h, types))
  PROVE  /\ IsFiniteSet(Bytes(g, types))
         /\ Cardinality(Bytes(h, types))
              = Cardinality(Bytes(g, types))
                + (IF h[b] # NULL /\ h[b].type \in types THEN h[b].size ELSE 0)
<1>1. SameBlocks(h, g, Blocks \ {b})
  BY DEF SameBlocks
<1>2. Bytes(g, types) \subseteq Bytes(h, types)
  <2>1. \A c \in Blocks : BytesOfBlock(g, c, types) \subseteq BytesOfBlock(h, c, types)
    BY DEF SameBlocks, BytesOfBlock
  <2>. QED
    BY <2>1, BytesByBlock
<1>3. IsFiniteSet(Bytes(g, types))
  BY <1>2, FS_Subset
<1>. QED
  BY <1>1, <1>3, BytesWithBlock

LEMMA SameBytes ==
  ASSUME NEW h \in Heaps, NEW g \in Heaps, NEW types, SameBlocks(g, h, Blocks)
  PROVE  Bytes(g, types) = Bytes(h, types)
<1>1. \A c \in Blocks : BytesOfBlock(g, c, types) = BytesOfBlock(h, c, types)
  BY DEF SameBlocks, BytesOfBlock
<1>2. ASSUME NEW p PROVE p \in Bytes(g, types) <=> p \in Bytes(h, types)
  <2>1. p \in Bytes(g, types) <=> \E c \in Blocks : p \in BytesOfBlock(g, c, types)
    BY BytesByBlock
  <2>2. p \in Bytes(h, types) <=> \E c \in Blocks : p \in BytesOfBlock(h, c, types)
    BY BytesByBlock
  <2>. QED
    BY <1>1, <2>1, <2>2
<1>. QED
  BY <1>2 DEF Bytes

-----------------------------------------------------------------------------
(* The list.                                                               *)

InHeap(h) == {b \in Blocks : h[b] # NULL}

\* The list h from first is whole: it is linked both ways, and what holds the first
\* entry, and with every entry the next, holds them all.
Whole(h, first) ==
  /\ first # NULL => first \in InHeap(h)
  /\ \A b \in InHeap(h) :
       /\ h[b].next # NULL => h[b].next \in InHeap(h) /\ h[h[b].next].prev = b
       /\ IF b = first THEN h[b].prev = NULL
            ELSE h[b].prev \in InHeap(h) /\ h[h[b].prev].next = b
  /\ \A S \in SUBSET Blocks : IsClosed(S, h, first) => InHeap(h) \subseteq S

LinkedBothWays(h, first) ==
  \A b \in InHeap(h) :
    /\ h[b].next # NULL => h[b].next \in InHeap(h) /\ h[h[b].next].prev = b
    /\ IF b = first THEN h[b].prev = NULL
         ELSE h[b].prev \in InHeap(h) /\ h[h[b].prev].next = b

\* A list is whole when the blocks that are reached are those of the heap.
LEMMA WholeMeans ==
  ASSUME NEW h \in Heaps, NEW first \in Links
  PROVE  Whole(h, first) <=> Reached(h, first) = InHeap(h) /\ LinkedBothWays(h, first)
<1>. USE NullIsNoEntry
<1>1. ASSUME Whole(h, first)
      PROVE  Reached(h, first) = InHeap(h) /\ LinkedBothWays(h, first)
  <2>1. InHeap(h) \in SUBSET Blocks /\ IsClosed(InHeap(h), h, first)
    BY <1>1 DEF Whole, InHeap, IsClosed
  <2>. QED
    BY <1>1, <2>1 DEF Reached, Whole, InHeap, LinkedBothWays
<1>2. ASSUME Reached(h, first) = InHeap(h), LinkedBothWays(h, first)
      PROVE  Whole(h, first)
  <2>1. first # NULL => first \in Reached(h, first)
    BY DEF Reached, IsClosed, Links
  <2>. QED
    BY <1>2, <2>1 DEF Whole, InHeap, Reached, LinkedBothWays
<1>. QED
  BY <1>1, <1>2

LEMMA WholeIsReached ==
  ASSUME TypeOK
  PROVE  (debug => Whole(heap, head) /\ gc \in Live \cup {NULL}) <=> ListIsWhole
<1>1. heap \in Heaps /\ head \in Links /\ InHeap(heap) = Live
  BY DEF TypeOK, InHeap, Live
<1>. QED
  BY <1>1, WholeMeans DEF ListIsWhole, LinkedBothWays

\* No entry of a whole list is its own neighbour.
LEMMA WholeHasNoLoop ==
  ASSUME NEW h \in Heaps, NEW first \in Links, Whole(h, first), NEW b \in InHeap(h)
  PROVE  h[b].next # b /\ h[b].prev # b
<1>. USE NullIsNoEntry
<1>1. b \in Blocks /\ b # NULL
  BY DEF InHeap
<1>2. h[b].prev # b
  <2>. SUFFICES ASSUME h[b].prev = b PROVE FALSE
    OBVIOUS
  <2>1. b # first
    BY <1>1 DEF Whole
  <2>2. ASSUME NEW c \in InHeap(h), h[c].next = b PROVE c = b
    BY <1>1, <2>2 DEF Whole
  <2>3. IsClosed(InHeap(h) \ {b}, h, first)
    BY <2>1, <2>2 DEF Whole, IsClosed
  <2>4. InHeap(h) \ {b} \in SUBSET Blocks
    BY DEF InHeap
  <2>. QED
    BY <2>3, <2>4 DEF Whole
<1>. QED
  BY <1>1, <1>2 DEF Whole

\* The list and its first entry when b has left it.
Left(h, b) == [Unlink(h, b) EXCEPT ![b] = NULL]
FirstLeft(h, first, b) == IF h[b].prev = NULL THEN h[b].next ELSE first

\* In a debug build the neighbours of b are in the heap.
Linkable(h, b) == debug => {h[b].prev, h[b].next} \subseteq InHeap(h) \cup {NULL}

\* What leaving the list changes: the neighbours' pointers.
LEMMA LeftHeap ==
  ASSUME NEW h \in Heaps, NEW b \in InHeap(h), Linkable(h, b)
  PROVE  /\ Unlink(h, b) \in Heaps /\ Left(h, b) \in Heaps
         /\ SameBlocks(Unlink(h, b), h, Blocks)
         /\ Left(h, b)[b] = NULL /\ SameBlocks(Left(h, b), h, Blocks \ {b})
<1>. USE NullIsNoEntry
<1>. DEFINE forth == IF h[b].prev = NULL THEN h ELSE [h EXCEPT ![h[b].prev].next = h[b].next]
<1>1. h[b] \in Entries /\ h[b].prev \in Links /\ h[b].next \in Links /\ b \in Blocks
  BY DEF InHeap, Heaps, Entries
<1>2. ASSUME debug PROVE forth \in Heaps /\ SameBlocks(forth, h, Blocks)
  <2>1. CASE h[b].prev = NULL
    BY <2>1 DEF SameBlocks
  <2>2. CASE h[b].prev # NULL
    <3>1. h[b].prev \in Blocks /\ h[h[b].prev] \in Entries
      BY <1>2, <2>2 DEF Linkable, InHeap, Heaps
    <3>2. [h[h[b].prev] EXCEPT !.next = h[b].next] \in Entries
      BY <1>1, <3>1 DEF Entries
    <3>. QED
      BY <2>2, <3>1, <3>2 DEF SameBlocks, Heaps, Entries
  <2>. QED
    BY <2>1, <2>2
<1>. HIDE DEF forth
<1>3. ASSUME debug, h[b].next # NULL
      PROVE  /\ [forth EXCEPT ![h[b].next].prev = h[b].prev] \in Heaps
             /\ SameBlocks([forth EXCEPT ![h[b].next].prev = h[b].prev], h, Blocks)
  <2>1. h[b].next \in Blocks /\ forth[h[b].next] \in Entries
    BY <1>2, <1>3 DEF Linkable, InHeap, Heaps, SameBlocks
  <2>2. [forth[h[b].next] EXCEPT !.prev = h[b].prev] \in Entries
    BY <1>1, <2>1 DEF Entries
  <2>. QED
    BY <1>2, <1>3, <2>1, <2>2 DEF SameBlocks, Heaps, Entries
<1>4. Unlink(h, b) \in Heaps /\ SameBlocks(Unlink(h, b), h, Blocks)
  <2>1. \/ Unlink(h, b) = h
        \/ debug /\ Unlink(h, b) = forth
        \/ /\ Unlink(h, b) = [forth EXCEPT ![h[b].next].prev = h[b].prev]
           /\ debug /\ h[b].next # NULL
    BY DEF Unlink, forth
  <2>2. SameBlocks(h, h, Blocks)
    BY DEF SameBlocks
  <2>. QED
    BY <1>2, <1>3, <2>1, <2>2
<1>. QED
  BY <1>1, <1>4 DEF Left, SameBlocks, Heaps

\* In a debug build, the pointers of what stays.
LEMMA LeftLinks ==
  ASSUME NEW h \in Heaps, NEW b \in InHeap(h), debug, Linkable(h, b),
         h[b].prev # b, h[b].next # b
  PROVE  /\ InHeap(Left(h, b)) = InHeap(h) \ {b}
         /\ \A c \in InHeap(h) \ {b} :
              /\ Left(h, b)[c].next = IF c = h[b].prev THEN h[b].next ELSE h[c].next
              /\ Left(h, b)[c].prev = IF c = h[b].next THEN h[b].prev ELSE h[c].prev
<1>. USE NullIsNoEntry
<1>. DEFINE forth == IF h[b].prev = NULL THEN h ELSE [h EXCEPT ![h[b].prev].next = h[b].next]
<1>1. InHeap(Left(h, b)) = InHeap(h) \ {b}
  BY LeftHeap DEF InHeap, SameBlocks
<1>2. b \in Blocks /\ h[b] \in Entries /\ h[b].prev \in Links /\ h[b].next \in Links
  BY DEF InHeap, Heaps, Entries
<1>3. \A c \in InHeap(h) : /\ c \in Blocks /\ c # NULL /\ h[c] \in Entries /\ forth[c] \in Entries
                           /\ forth[c].next = IF c = h[b].prev THEN h[b].next ELSE h[c].next
                           /\ forth[c].prev = h[c].prev
  <2>. TAKE c \in InHeap(h)
  <2>1. c \in Blocks /\ c # NULL /\ h[c] \in Entries
    BY DEF InHeap, Heaps
  <2>2. CASE c = h[b].prev
    <3>1. forth[c] = [h[c] EXCEPT !.next = h[b].next]
      BY <2>1, <2>2 DEF Heaps
    <3>. HIDE DEF forth
    <3>. QED
      BY <1>2, <2>1, <2>2, <3>1 DEF Entries
  <2>3. CASE c # h[b].prev
    <3>1. forth[c] = h[c]
      BY <2>1, <2>3 DEF Heaps, Links
    <3>. HIDE DEF forth
    <3>. QED
      BY <2>1, <2>3, <3>1
  <2>. QED
    BY <2>1, <2>2, <2>3
<1>4. forth \in [Blocks -> Entries \cup {NULL}]
  <2>1. CASE h[b].prev = NULL
    BY <2>1 DEF Heaps
  <2>2. CASE h[b].prev # NULL
    <3>1. h[b].prev \in Blocks /\ h[h[b].prev] \in Entries
      BY <1>2, <2>2 DEF Links, Heaps, Linkable, InHeap
    <3>2. [h[h[b].prev] EXCEPT !.next = h[b].next] \in Entries
      BY <1>2, <3>1 DEF Entries
    <3>. QED
      BY <2>2, <3>1, <3>2 DEF Heaps
  <2>. QED
    BY <2>1, <2>2
<1>5. Unlink(h, b) = IF h[b].next = NULL THEN forth
                     ELSE [forth EXCEPT ![h[b].next].prev = h[b].prev]
  BY DEF Unlink
<1>. HIDE DEF forth
<1>6. ASSUME NEW c \in InHeap(h) \ {b}
      PROVE  /\ Left(h, b)[c].next = IF c = h[b].prev THEN h[b].next ELSE h[c].next
             /\ Left(h, b)[c].prev = IF c = h[b].next THEN h[b].prev ELSE h[c].prev
  <2>1. Left(h, b)[c] = Unlink(h, b)[c]
    BY LeftHeap, <1>2, <1>3 DEF Left, Heaps
  <2>2. CASE c = h[b].next
    <3>1. h[h[b].next] # NULL /\ h[b].next # NULL
      BY <1>3, <2>2 DEF InHeap
    <3>2. Unlink(h, b)[c] = [forth[c] EXCEPT !.prev = h[b].prev]
      BY <1>3, <1>4, <1>5, <2>2, <3>1
    <3>. QED
      BY <1>3, <2>1, <2>2, <3>2 DEF Entries
  <2>3. CASE c # h[b].next
    <3>1. Unlink(h, b)[c] = forth[c]
      BY <1>2, <1>3, <1>4, <1>5, <2>3 DEF Links
    <3>. QED
      BY <1>3, <2>1, <2>3, <3>1
  <2>. QED
    BY <2>2, <2>3
<1>. QED
  BY <1>1, <1>6

\* A whole list stays whole without one of its entries.
LEMMA LeftWhole ==
  ASSUME NEW h \in Heaps, NEW first \in Links, NEW b \in InHeap(h), debug, Whole(h, first)
  PROVE  Whole(Left(h, b), FirstLeft(h, first, b)) /\ FirstLeft(h, first, b) \in Links
<1>. USE NullIsNoEntry
<1>. DEFINE g == Left(h, b)
            f == FirstLeft(h, first, b)
            p == h[b].prev
            n == h[b].next
<1>1. p # b /\ n # b /\ Linkable(h, b)
  <2>1. p # b /\ n # b
    BY WholeHasNoLoop
  <2>2. b \in Blocks /\ b # NULL
    BY DEF InHeap
  <2>. QED
    BY <2>1, <2>2 DEF Whole, Linkable
<1>2. InHeap(g) = InHeap(h) \ {b}
  BY <1>1, LeftLinks
<1>3. \A c \in InHeap(h) \ {b} : /\ g[c].next = IF c = p THEN n ELSE h[c].next
                                 /\ g[c].prev = IF c = n THEN p ELSE h[c].prev
  BY <1>1, LeftLinks
<1>4. \A c \in InHeap(h) : c \in Blocks /\ c # NULL /\ h[c] # NULL
  BY DEF InHeap
<1>5. /\ first # NULL => first \in InHeap(h)
      /\ \A c \in InHeap(h) :
           /\ h[c].next # NULL => h[c].next \in InHeap(h) /\ h[h[c].next].prev = c
           /\ c = first => h[c].prev = NULL
           /\ c # first => h[c].prev \in InHeap(h) /\ h[h[c].prev].next = c
  BY DEF Whole
<1>6. f = IF b = first THEN n ELSE first
  BY <1>4, <1>5 DEF FirstLeft
<1>7. p = NULL <=> b = first
  BY <1>4, <1>5
<1>8. f # NULL => f \in InHeap(g)
  BY <1>1, <1>2, <1>5, <1>6
<1>. HIDE DEF g, f, p, n
<1>a. /\ n # NULL => n \in InHeap(h) /\ n # b /\ h[n].prev = b /\ n # first
      /\ p # NULL => p \in InHeap(h) /\ p # b /\ h[p].next = b
  BY <1>1, <1>4, <1>5, <1>7 DEF n, p
<1>9. ASSUME NEW c \in InHeap(g)
      PROVE  /\ g[c].next # NULL => g[c].next \in InHeap(g) /\ g[g[c].next].prev = c
             /\ IF c = f THEN g[c].prev = NULL
                  ELSE g[c].prev \in InHeap(g) /\ g[g[c].prev].next = c
  <2>1. c \in InHeap(h) /\ c # b /\ c # NULL
    BY <1>2, <1>4
  <2>2. g[c].next # NULL => g[c].next \in InHeap(g) /\ g[g[c].next].prev = c
    <3>1. CASE c = p
      BY <1>2, <1>3, <1>a, <2>1, <3>1
    <3>2. CASE c # p
      <4>. SUFFICES ASSUME h[c].next # NULL
                    PROVE  h[c].next \in InHeap(g) /\ g[h[c].next].prev = c
        BY <1>3, <2>1, <3>2
      <4>1. h[c].next \in InHeap(h) /\ h[h[c].next].prev = c
        BY <1>5, <2>1
      <4>2. h[c].next # b
        BY <3>2, <4>1 DEF p
      <4>3. h[c].next # n
        BY <1>a, <2>1, <4>1
      <4>. QED
        BY <1>2, <1>3, <4>1, <4>2, <4>3
    <3>. QED
      BY <3>1, <3>2
  <2>3. ASSUME c = f PROVE g[c].prev = NULL
    BY <1>3, <1>5, <1>6, <1>7, <1>a, <2>1, <2>3
  <2>4. ASSUME c # f PROVE g[c].prev \in InHeap(g) /\ g[g[c].prev].next = c
    <3>1. c # first
      BY <1>6, <2>1, <2>4
    <3>2. CASE c = n
      <4>1. p # NULL
        BY <1>6, <1>7, <2>4, <3>2
      <4>. QED
        BY <1>2, <1>3, <1>a, <2>1, <3>2, <4>1
    <3>3. CASE c # n
      <4>1. h[c].prev \in InHeap(h) /\ h[h[c].prev].next = c /\ h[c].prev # NULL
        BY <1>4, <1>5, <2>1, <3>1
      <4>2. h[c].prev # b
        BY <3>3, <4>1 DEF n
      <4>3. h[c].prev # p
        BY <1>a, <2>1, <4>1
      <4>. QED
        BY <1>2, <1>3, <2>1, <3>3, <4>1, <4>2, <4>3
    <3>. QED
      BY <3>2, <3>3
  <2>. QED
    BY <2>2, <2>3, <2>4
<1>10. ASSUME NEW S \in SUBSET Blocks, IsClosed(S, g, f) PROVE InHeap(g) \subseteq S
  <2>1. f \in S \cup {NULL} /\ \A c \in InHeap(g) : c \in S => g[c].next \in S \cup {NULL}
    BY <1>10 DEF IsClosed, InHeap
  <2>2. \A T \in SUBSET Blocks : IsClosed(T, h, first) => InHeap(h) \subseteq T
    BY DEF Whole
  <2>3. CASE b = first \/ p \in S
    <3>1. ASSUME NEW c \in S \cup {b}, h[c] # NULL PROVE h[c].next \in S \cup {b, NULL}
      <4>0. c \in InHeap(h)
        BY <1>4, <3>1 DEF InHeap
      <4>1. CASE c = b
        <5>1. ASSUME p \in S PROVE n \in S \cup {NULL}
          <6>1. p \in Blocks /\ p # NULL
            BY <5>1
          <6>2. p \in InHeap(g) /\ p \in InHeap(h) \ {b}
            BY <1>2, <1>a, <6>1
          <6>. QED
            BY <1>3, <2>1, <5>1, <6>2
        <5>. QED
          BY <1>6, <2>1, <2>3, <4>1, <5>1 DEF n
      <4>2. CASE c # b /\ c = p
        BY <1>5, <1>a, <4>0, <4>2
      <4>3. CASE c # b /\ c # p
        BY <1>2, <1>3, <2>1, <3>1, <4>0, <4>3
      <4>. QED
        BY <4>1, <4>2, <4>3
    <3>2. first \in S \cup {b, NULL}
      BY <1>6, <2>1
    <3>3. IsClosed(S \cup {b}, h, first) /\ S \cup {b} \in SUBSET Blocks
      BY <1>4, <3>1, <3>2 DEF IsClosed
    <3>. QED
      BY <1>2, <2>2, <3>3
  <2>4. CASE b # first /\ p \notin S
    <3>1. ASSUME NEW c \in S \ {b}, h[c] # NULL PROVE h[c].next \in (S \ {b}) \cup {NULL}
      <4>0. c \in InHeap(h) \ {b}
        BY <3>1 DEF InHeap
      <4>1. c # p
        BY <2>4
      <4>2. h[c].next \in S \cup {NULL}
        BY <1>2, <1>3, <2>1, <4>0, <4>1
      <4>3. h[c].next # b
        BY <1>4, <1>5, <4>0, <4>1 DEF p
      <4>. QED
        BY <4>2, <4>3
    <3>2. first \in (S \ {b}) \cup {NULL}
      BY <1>6, <2>1, <2>4
    <3>3. IsClosed(S \ {b}, h, first) /\ S \ {b} \in SUBSET Blocks
      BY <3>1, <3>2 DEF IsClosed
    <3>4. b \in S \ {b}
      BY <2>2, <3>3
    <3>. QED
      BY <3>4
  <2>. QED
    BY <2>3, <2>4
<1>11. f \in Links
  BY <1>8 DEF Links, InHeap
<1>. QED
  BY <1>8, <1>9, <1>10, <1>11 DEF Whole, g, f

\* What putting an entry first changes: its block, and a pointer of the old first one.
LEMMA PutHeap ==
  ASSUME NEW h \in Heaps, NEW first \in Links, NEW b \in Blocks, h[b] = NULL,
         NEW entry \in Entries, debug => first \in InHeap(h) \cup {NULL, b}
  PROVE  LET g == PutFirst(h, first, b, entry) IN
         /\ g \in Heaps /\ SameBlocks(g, h, Blocks \ {b})
         /\ g[b] # NULL /\ g[b].size = entry.size /\ g[b].type = entry.type
<1>. USE NullIsNoEntry
<1>1. CASE ~debug \/ first = NULL
  <2>1. PutFirst(h, first, b, entry) = [h EXCEPT ![b] = entry]
    BY <1>1 DEF PutFirst
  <2>. QED
    BY <2>1 DEF Heaps, SameBlocks
<1>2. CASE debug /\ first # NULL /\ first = b
  <2>. DEFINE looped == [[entry EXCEPT !.next = first] EXCEPT !.prev = b]
  <2>1. PutFirst(h, first, b, entry) = [h EXCEPT ![b] = looped]
    BY <1>2 DEF PutFirst, Heaps
  <2>2. looped \in Entries /\ looped.size = entry.size /\ looped.type = entry.type
    BY DEF Entries, Links
  <2>. HIDE DEF looped
  <2>. QED
    BY <2>1, <2>2 DEF Heaps, SameBlocks
<1>3. CASE debug /\ first # NULL /\ first # b
  <2>. DEFINE linked == [entry EXCEPT !.next = first]
              g == [h EXCEPT ![b] = linked, ![first].prev = b]
  <2>1. PutFirst(h, first, b, entry) = g
    BY <1>3 DEF PutFirst
  <2>2. first \in Blocks /\ h[first] \in Entries /\ first # b
    BY <1>3 DEF InHeap, Heaps
  <2>3. linked \in Entries /\ linked.size = entry.size /\ linked.type = entry.type
    BY DEF Entries
  <2>4. [h[first] EXCEPT !.prev = b] \in Entries
    BY <2>2 DEF Entries, Links
  <2>. HIDE DEF linked
  <2>5. g = [c \in Blocks |-> IF c = first THEN [h[first] EXCEPT !.prev = b]
                              ELSE IF c = b THEN linked ELSE h[c]]
    BY <2>2 DEF Heaps
  <2>. HIDE DEF g
  <2>6. g \in Heaps
    BY <2>3, <2>4, <2>5 DEF Heaps
  <2>7. g[b] = linked
    BY <2>2, <2>5
  <2>8. SameBlocks(g, h, Blocks \ {b})
    <3>1. /\ g[first] # NULL /\ h[first] # NULL
          /\ g[first].size = h[first].size /\ g[first].type = h[first].type
      BY <2>2, <2>4, <2>5 DEF Entries
    <3>2. \A c \in Blocks \ {b, first} : g[c] = h[c]
      BY <2>5
    <3>. QED
      BY <3>1, <3>2 DEF SameBlocks
  <2>. QED
    BY <2>1, <2>3, <2>6, <2>7, <2>8
<1>. QED
  BY <1>1, <1>2, <1>3

\* A whole list stays whole with an entry put first.
LEMMA PutWhole ==
  ASSUME NEW h \in Heaps, NEW first \in Links, NEW b \in Blocks, h[b] = NULL,
         NEW entry \in Entries, entry.prev = NULL, first = NULL => entry.next = NULL,
         debug, Whole(h, first)
  PROVE  Whole(PutFirst(h, first, b, entry), b)
<1>. USE NullIsNoEntry
<1>. DEFINE g == PutFirst(h, first, b, entry)
<1>0. first \in InHeap(h) \cup {NULL, b}
  BY DEF Whole
<1>1. g \in Heaps /\ InHeap(g) = InHeap(h) \cup {b} /\ b \notin InHeap(h)
  <2>1. g \in Heaps /\ SameBlocks(g, h, Blocks \ {b}) /\ g[b] # NULL
    BY <1>0, PutHeap
  <2>. HIDE DEF g
  <2>. QED
    BY <2>1 DEF InHeap, SameBlocks
<1>2. /\ first # NULL => first \in InHeap(h)
      /\ \A c \in InHeap(h) :
           /\ c \in Blocks /\ c # NULL /\ h[c] # NULL /\ h[c] \in Entries
           /\ h[c].next # NULL => h[c].next \in InHeap(h) /\ h[h[c].next].prev = c
           /\ c = first => h[c].prev = NULL
           /\ c # first => h[c].prev \in InHeap(h) /\ h[h[c].prev].next = c
  BY DEF Whole, InHeap, Heaps
<1>3. /\ g[b].next = first /\ g[b].prev = NULL
      /\ \A c \in InHeap(h) : /\ g[c].next = h[c].next
                              /\ g[c].prev = IF c = first THEN b ELSE h[c].prev
  <2>1. CASE first = NULL
    <3>1. g = [h EXCEPT ![b] = entry]
      BY <2>1 DEF PutFirst
    <3>. QED
      BY <1>1, <1>2, <2>1, <3>1 DEF Heaps, InHeap
  <2>2. CASE first # NULL
    <3>1. first \in Blocks /\ first # b /\ h[first] \in Entries /\ h[first] # NULL
      BY <1>1, <1>2, <2>2
    <3>2. g = [h EXCEPT ![b] = [entry EXCEPT !.next = first], ![first].prev = b]
      BY <2>2, <3>1 DEF PutFirst
    <3>3. g = [c \in Blocks |-> IF c = first THEN [h[first] EXCEPT !.prev = b]
                                ELSE IF c = b THEN [entry EXCEPT !.next = first] ELSE h[c]]
      BY <3>1, <3>2 DEF Heaps
    <3>. HIDE DEF g
    <3>4. g[b].next = first /\ g[b].prev = NULL
      BY <3>1, <3>3 DEF Entries
    <3>5. ASSUME NEW c \in InHeap(h)
          PROVE  g[c].next = h[c].next /\ g[c].prev = IF c = first THEN b ELSE h[c].prev
      <4>1. c \in Blocks /\ c # b
        BY <1>1, <1>2
      <4>2. g[first].next = h[first].next /\ g[first].prev = b
        BY <3>1, <3>3 DEF Entries
      <4>. QED
        BY <3>1, <3>3, <4>1, <4>2
    <3>. QED
      BY <3>4, <3>5
  <2>. QED
    BY <2>1, <2>2
<1>. HIDE DEF g
<1>4. ASSUME NEW c \in InHeap(h)
      PROVE  /\ g[c].next # NULL => g[c].next \in InHeap(g) /\ g[g[c].next].prev = c
             /\ g[c].prev \in InHeap(g) /\ g[g[c].prev].next = c
  <2>1. ASSUME h[c].next # NULL PROVE g[h[c].next].prev = c
    BY <1>2, <1>3, <2>1
  <2>2. g[c].prev \in InHeap(g) /\ g[g[c].prev].next = c
    BY <1>1, <1>2, <1>3
  <2>. QED
    BY <1>1, <1>2, <1>3, <2>1, <2>2
<1>5. first # NULL => first \in InHeap(g) /\ g[first].prev = b
  BY <1>1, <1>2, <1>3
<1>6. ASSUME NEW S \in SUBSET Blocks, IsClosed(S, g, b) PROVE InHeap(g) \subseteq S
  <2>1. b \in S /\ \A c \in InHeap(g) : c \in S => g[c].next \in S \cup {NULL}
    BY <1>6 DEF IsClosed, InHeap
  <2>2. IsClosed(S, h, first)
    BY <1>1, <1>3, <2>1 DEF IsClosed, InHeap
  <2>. QED
    BY <1>1, <2>1, <2>2 DEF Whole
<1>. QED
  BY <1>1, <1>3, <1>4, <1>5, <1>6 DEF Whole, g

-----------------------------------------------------------------------------
(* The inductive invariant.                                                *)

Counted == IsFiniteSet(Bytes(heap, Types)) /\ allocated = BytesOf(Types)

\* The two limits and, unless memory was taken meanwhile, what the check and the first
\* assignment of iotc_memory_limiter_set_limit leave for the next step.
Kept ==
  /\ limiting = NULL => application_limit = total_limit - SystemLimit
  /\ limiting = NULL /\ ~raced =>
       /\ allocated <= total_limit
       /\ BytesOf({"APPLICATION"}) <= application_limit
  /\ limiting = "TOTAL" /\ ~raced => allocated <= new_limit - SystemLimit
  /\ limiting = "APPLICATION" =>
       /\ total_limit = new_limit
       /\ ~raced => allocated <= total_limit - SystemLimit

IInv == TypeOK /\ Counted /\ Kept

\* What belongs to the application is part of the whole.
LEMMA ApplicationIsPart ==
  ASSUME NEW h \in Heaps, IsFiniteSet(Bytes(h, Types))
  PROVE  /\ IsFiniteSet(Bytes(h, {"APPLICATION"}))
         /\ Cardinality(Bytes(h, {"APPLICATION"})) \in Nat /\ Cardinality(Bytes(h, Types)) \in Nat
         /\ Cardinality(Bytes(h, {"APPLICATION"})) <= Cardinality(Bytes(h, Types))
<1>1. Bytes(h, {"APPLICATION"}) \subseteq Bytes(h, Types)
  BY DEF Bytes, Types
<1>. QED
  BY <1>1, FS_Subset, FS_CardinalityType

LEMMA MaxOf ==
  ASSUME NEW x \in Int
  PROVE  Max({x, 0}) = IF x >= 0 THEN x ELSE 0
<1>1. \E y \in {x, 0} : \A z \in {x, 0} : y >= z
  BY Z3
<1>2. Max({x, 0}) \in {x, 0} /\ \A z \in {x, 0} : Max({x, 0}) >= z
  BY <1>1 DEF Max
<1>. QED
  BY <1>2

\* The limits are kept by a step that takes what fits, or gives back.
LEMMA KeptByTaking ==
  ASSUME TypeOK, Counted, Kept, NEW n \in Int, NEW m \in Nat, NEW type \in Types, n <= m,
         Fits(type, m) \/ (n <= 0 /\ BytesOf({"APPLICATION"})' <= BytesOf({"APPLICATION"})),
         type # "APPLICATION" => BytesOf({"APPLICATION"})' <= BytesOf({"APPLICATION"}),
         BytesOf({"APPLICATION"})' \in Nat, BytesOf({"APPLICATION"})' <= allocated',
         allocated' = allocated + n, Takes(n), UNCHANGED limits
  PROVE  Kept'
<1>. USE NullIsNoEntry, MemoryLimiterAssumption
<1>. DEFINE app == BytesOf({"APPLICATION"})
            appAfter == BytesOf({"APPLICATION"})'
<1>1. app \in Nat
  BY ApplicationIsPart DEF TypeOK, Counted, BytesOf
<1>2. /\ UNCHANGED <<total_limit, application_limit, limiting, new_limit>>
      /\ allocated \in Nat /\ total_limit \in Int /\ application_limit \in Int /\ new_limit \in Int
      /\ appAfter \in Nat /\ appAfter <= allocated + n
  BY DEF TypeOK, limits
<1>3. Fits(type, m) =>
        IF type = "APPLICATION" THEN allocated + n <= application_limit
                                ELSE allocated + n <= total_limit
  BY <1>2 DEF Fits
<1>4. CASE n > 0
  <2>1. ~raced' => ~raced /\ limiting = NULL
    BY <1>4 DEF Takes, TypeOK
  <2>2. Fits(type, m)
    BY <1>4
  <2>3. ~raced' => allocated + n <= total_limit /\ appAfter <= application_limit
    <3>. SUFFICES ASSUME ~raced' PROVE allocated + n <= total_limit /\ appAfter <= application_limit
      OBVIOUS
    <3>1. /\ application_limit = total_limit - SystemLimit
          /\ app <= application_limit /\ (type # "APPLICATION" => appAfter <= app)
      BY <2>1 DEF Kept
    <3>. HIDE DEF app, appAfter
    <3>. QED
      BY <1>1, <1>2, <1>3, <2>2, <3>1
  <2>. QED
    BY <1>2, <2>1, <2>3 DEF Kept, TypeOK
<1>5. CASE n <= 0
  <2>1. raced' = raced
    BY <1>5 DEF Takes, TypeOK
  <2>2. allocated' <= allocated /\ allocated' \in Int
    BY <1>2, <1>5
  <2>3. appAfter <= app \/ appAfter <= application_limit
    <3>1. appAfter <= app \/ (Fits(type, m) /\ type = "APPLICATION")
      OBVIOUS
    <3>. HIDE DEF app, appAfter
    <3>. QED
      BY <1>1, <1>2, <1>3, <3>1
  <2>4. limiting = NULL /\ ~raced => allocated' <= total_limit /\ appAfter <= application_limit
    <3>1. limiting = NULL /\ ~raced => allocated <= total_limit /\ app <= application_limit
      BY DEF Kept
    <3>. HIDE DEF app, appAfter
    <3>. QED
      BY <1>1, <1>2, <2>2, <2>3, <3>1
  <2>5. limiting = "TOTAL" /\ ~raced => allocated' <= new_limit - SystemLimit
    BY <1>2, <2>2 DEF Kept
  <2>6. limiting = "APPLICATION" /\ ~raced => allocated' <= total_limit - SystemLimit
    BY <1>2, <2>2 DEF Kept
  <2>. QED
    BY <1>2, <2>1, <2>4, <2>5, <2>6 DEF Kept
<1>. QED
  BY <1>4, <1>5

LEMMA Initially == Init => IInv
<1>. USE NullIsNoEntry, MemoryLimiterAssumption
<1>. SUFFICES ASSUME Init PROVE TypeOK /\ Counted /\ Kept
  BY DEF IInv
<1>1. TypeOK
  <2>1. total_limit \in Int /\ application_limit \in Int
    BY DEF Init
  <2>2. heap \in Heaps
    BY DEF Init, Heaps
  <2>3. head \in Links /\ Collector(gc)
    BY DEF Init, Links, Collector
  <2>4. allocated \in Nat /\ new_limit \in Int
    BY DEF Init
  <2>5. debug \in BOOLEAN /\ raced \in BOOLEAN /\ aborted \in BOOLEAN
    BY Zenon DEF Init
  <2>. QED
    BY <2>1, <2>2, <2>3, <2>4, <2>5 DEF Init, TypeOK
<1>2. \A types : Bytes(heap, types) = {}
  BY DEF Init, Bytes
<1>3. Counted /\ BytesOf({"APPLICATION"}) = 0
  BY <1>2, FS_EmptySet DEF Init, Counted, BytesOf
<1>4. Kept
  <2>1. limiting = NULL /\ allocated = 0 /\ total_limit - SystemLimit >= 0 /\ total_limit >= 0
    BY DEF Init
  <2>. QED
    BY <1>3, <2>1 DEF Init, Kept
<1>. QED
  BY <1>1, <1>3, <1>4

\* The end of the program changes nothing else.
LEMMA AbortsKeeps ==
  ASSUME IInv, Aborts, Collector(gc')
  PROVE  IInv'
BY DEF IInv, Aborts, limits, TypeOK, Counted, Kept, BytesOf, Collector

LEMMA AllocKeeps ==
  ASSUME IInv, NEW type \in Types, NEW b \in Blocks, NEW asked \in Sizes, Alloc(type, b, asked)
  PROVE  IInv'
<1>. USE NullIsNoEntry, MemoryLimiterAssumption
<1>. DEFINE size == asked + Header
            entry == [size |-> size, type |-> type, next |-> NULL, prev |-> NULL]
<1>1. TypeOK /\ Counted /\ Kept
  BY DEF IInv
<1>2. size \in Nat /\ size > 0
  OBVIOUS
<1>3. UNCHANGED gc /\ Collector(gc') /\ b \notin Live /\ Fits(type, size)
  BY <1>1 DEF Alloc, TypeOK
<1>4. CASE Aborts
  BY <1>3, <1>4, AbortsKeeps
<1>5. CASE Writable({head}, Live \cup {b}) /\ ~Aborts
  <2>1. /\ heap' = PutFirst(heap, head, b, entry) /\ head' = (IF debug THEN b ELSE head)
        /\ allocated' = allocated + size /\ Takes(size)
        /\ UNCHANGED <<limits, debug, gc, aborted>>
        /\ heap \in Heaps /\ head \in Links /\ heap[b] = NULL
        /\ debug => head \in InHeap(heap) \cup {NULL, b}
    BY <1>1, <1>3, <1>5 DEF Alloc, Live, TypeOK, Writable, InHeap
  <2>. HIDE DEF size
  <2>2. entry \in Entries /\ entry.size = size /\ entry.type = type
    BY <1>2 DEF Entries, Links
  <2>. HIDE DEF entry
  <2>3. /\ heap' \in Heaps /\ SameBlocks(heap', heap, Blocks \ {b})
        /\ heap'[b] # NULL /\ heap'[b].size = size /\ heap'[b].type = type
    BY <2>1, <2>2, PutHeap
  <2>4. TypeOK'
    BY <1>1, <1>2, <2>1, <2>3 DEF TypeOK, Links, limits, Takes, Collector
  <2>5. IsFiniteSet(Bytes(heap, Types)) /\ IsFiniteSet(Bytes(heap, {"APPLICATION"}))
    BY <1>1, <2>1, ApplicationIsPart DEF Counted
  <2>6. /\ IsFiniteSet(Bytes(heap', Types))
        /\ Cardinality(Bytes(heap', Types)) = Cardinality(Bytes(heap, Types)) + size
    BY <1>2, <2>1, <2>3, <2>5, BytesWithBlock
  <2>7. Counted'
    BY <1>1, <2>1, <2>6 DEF Counted, BytesOf
  <2>8. Cardinality(Bytes(heap', {"APPLICATION"}))
          = Cardinality(Bytes(heap, {"APPLICATION"})) + (IF type = "APPLICATION" THEN size ELSE 0)
    BY <1>2, <2>1, <2>3, <2>5, BytesWithBlock
  <2>9. BytesOf({"APPLICATION"})' <= allocated' /\ BytesOf({"APPLICATION"})' \in Nat
    BY <2>3, <2>6, <2>7, ApplicationIsPart DEF Counted, BytesOf
  <2>10. type # "APPLICATION" => BytesOf({"APPLICATION"})' <= BytesOf({"APPLICATION"})
    <3>1. Cardinality(Bytes(heap, {"APPLICATION"})) \in Nat
      BY <2>1, <2>5, ApplicationIsPart
    <3>. QED
      BY <2>8, <3>1 DEF BytesOf
  <2>11. size \in Int /\ size <= size
    BY <1>2
  <2>12. Kept'
    BY <1>1, <1>2, <1>3, <2>1, <2>9, <2>10, <2>11, KeptByTaking
  <2>. QED
    BY <2>4, <2>7, <2>12 DEF IInv
<1>. QED
  BY <1>4, <1>5 DEF Alloc

\* What a block that leaves the heap, and in debug builds the list, leaves behind.
LEMMA LeavesTheList ==
  ASSUME TypeOK, NEW b \in Live, Writable(Neighbours(b), Live)
  PROVE  LET left == Left(heap, b) IN
         /\ heap \in Heaps /\ head \in Links /\ b \in Blocks /\ b \in InHeap(heap)
         /\ heap[b] \in Entries /\ Linkable(heap, b)
         /\ left \in Heaps /\ left[b] = NULL /\ SameBlocks(left, heap, Blocks \ {b})
         /\ HeadWithout(b) \in Links
<1>. USE NullIsNoEntry
<1>1. heap \in Heaps /\ head \in Links /\ b \in Blocks /\ b \in InHeap(heap) /\ heap[b] \in Entries
  BY DEF TypeOK, Live, InHeap, Heaps
<1>2. Linkable(heap, b)
  BY DEF Writable, Neighbours, Linkable, Live, InHeap
<1>3. HeadWithout(b) \in Links
  BY <1>1 DEF HeadWithout, Entries
<1>. QED
  BY <1>1, <1>2, <1>3, LeftHeap

LEMMA FreesKeeps ==
  ASSUME IInv, NEW b \in Live, Frees(b), Collector(gc')
  PROVE  IInv'
<1>. USE NullIsNoEntry, MemoryLimiterAssumption
<1>. DEFINE size == heap[b].size
            type == heap[b].type
<1>1. TypeOK /\ Counted /\ Kept
  BY DEF IInv
<1>2. CASE Aborts
  BY <1>2, AbortsKeeps
<1>3. CASE Writable(Neighbours(b), Live) /\ ~Aborts
  <2>1. /\ heap \in Heaps /\ b \in Blocks /\ heap[b] \in Entries /\ size \in Nat /\ type \in Types
        /\ heap[b] # NULL
        /\ Left(heap, b) \in Heaps /\ Left(heap, b)[b] = NULL
        /\ SameBlocks(Left(heap, b), heap, Blocks \ {b})
        /\ HeadWithout(b) \in Links
    BY <1>1, <1>3, LeavesTheList DEF Entries
  <2>2. /\ heap' = Left(heap, b) /\ head' = HeadWithout(b)
        /\ allocated' = Max({allocated - size, 0})
        /\ UNCHANGED <<limits, debug, raced, aborted>>
    BY <1>3 DEF Frees, Left
  <2>. HIDE DEF size, type
  <2>3. IsFiniteSet(Bytes(heap, Types)) /\ IsFiniteSet(Bytes(heap, {"APPLICATION"}))
    BY <1>1, <2>1, ApplicationIsPart DEF Counted
  <2>4. /\ IsFiniteSet(Bytes(heap', Types))
        /\ Cardinality(Bytes(heap, Types)) = Cardinality(Bytes(heap', Types)) + size
    BY <2>1, <2>2, <2>3, BytesWithoutBlock DEF size, type
  <2>5. Cardinality(Bytes(heap, {"APPLICATION"}))
          = Cardinality(Bytes(heap', {"APPLICATION"})) + (IF type = "APPLICATION" THEN size ELSE 0)
    BY <2>1, <2>2, <2>3, BytesWithoutBlock DEF size, type
  <2>6. /\ IsFiniteSet(Bytes(heap', {"APPLICATION"}))
        /\ Cardinality(Bytes(heap', {"APPLICATION"})) \in Nat /\ Cardinality(Bytes(heap', Types)) \in Nat
        /\ Cardinality(Bytes(heap', {"APPLICATION"})) <= Cardinality(Bytes(heap', Types))
    BY <2>1, <2>2, <2>4, ApplicationIsPart
  <2>7. allocated' = allocated - size /\ allocated' = Cardinality(Bytes(heap', Types))
    <3>1. allocated = Cardinality(Bytes(heap', Types)) + size
      BY <1>1, <2>4 DEF Counted, BytesOf
    <3>. QED
      BY <2>1, <2>2, <2>6, <3>1, MaxOf
  <2>8. Counted'
    BY <2>4, <2>7 DEF Counted, BytesOf
  <2>9. TypeOK'
    BY <1>1, <2>1, <2>2, <2>6, <2>7 DEF TypeOK, limits, Collector
  <2>10. Kept'
    <3>1. -size \in Int /\ -size <= 0 /\ allocated' = allocated + (-size) /\ Takes(-size)
      BY <1>1, <2>1, <2>2, <2>7 DEF TypeOK, Takes
    <3>2. Cardinality(Bytes(heap, {"APPLICATION"})) \in Nat
      BY <2>1, <2>3, ApplicationIsPart
    <3>3. Cardinality(Bytes(heap', {"APPLICATION"}))
            = Cardinality(Bytes(heap, {"APPLICATION"})) + (IF type = "APPLICATION" THEN -size ELSE 0)
      BY <2>1, <2>5, <2>6, <3>2
    <3>4. PICK n \in Int, m \in Nat : n = -size /\ m = 0
      BY <3>1
    <3>5. /\ BytesOf({"APPLICATION"})' <= BytesOf({"APPLICATION"})
          /\ BytesOf({"APPLICATION"})' \in Nat /\ BytesOf({"APPLICATION"})' <= allocated'
      BY <2>1, <2>6, <2>7, <3>2, <3>3 DEF BytesOf
    <3>6. n <= 0 /\ n <= m /\ allocated' = allocated + n /\ Takes(n)
      BY <3>1, <3>4
    <3>. HIDE DEF size, type
    <3>7. \E kind \in Types : TRUE
      BY <2>1
    <3>8. PICK kind \in Types : TRUE
      BY <3>7
    <3>. QED
      BY <1>1, <2>2, <3>5, <3>6, KeptByTaking
  <2>. QED
    BY <2>8, <2>9, <2>10 DEF IInv
<1>. QED
  BY <1>2, <1>3 DEF Frees, Writable

\* A block that is refused its new size keeps its bytes.
LEMMA RefusesKeeps ==
  ASSUME IInv, NEW b \in Live, Writable(Neighbours(b), Live), Refuses(b), Collector(gc')
  PROVE  IInv'
<1>1. TypeOK /\ Counted /\ Kept
  BY DEF IInv
<1>2. /\ heap \in Heaps /\ b \in InHeap(heap) /\ Linkable(heap, b) /\ HeadWithout(b) \in Links
  BY <1>1, LeavesTheList
<1>3. heap' = Unlink(heap, b) /\ heap' \in Heaps /\ SameBlocks(heap', heap, Blocks)
  BY <1>2, LeftHeap DEF Refuses
<1>4. \A types : Bytes(heap', types) = Bytes(heap, types)
  BY <1>2, <1>3, SameBytes
<1>. QED
  BY <1>1, <1>2, <1>3, <1>4 DEF Refuses, IInv, TypeOK, Counted, Kept, BytesOf, limits,
                                   Collector

\* A block that gets its new size: the bytes of the old one leave, those of the new one come.
LEMMA MovesKeeps ==
  ASSUME IInv, NEW type \in Types, NEW b \in Live, NEW to \in {b} \cup (Blocks \ Live),
         NEW asked \in Sizes, Writable(Neighbours(b), Live),
         Fits(type, Growth(b, asked + Header)),
         Moves(type, b, to, asked + Header), Collector(gc')
  PROVE  IInv'
<1>. USE NullIsNoEntry, MemoryLimiterAssumption
<1>. DEFINE size == asked + Header
            old == heap[b].size
            kind == heap[b].type
            left == Left(heap, b)
            entry == [heap[b] EXCEPT !.size = size, !.type = type]
            n == size - old
<1>1. TypeOK /\ Counted /\ Kept
  BY DEF IInv
<1>2. /\ heap \in Heaps /\ b \in Blocks /\ heap[b] \in Entries /\ old \in Nat /\ kind \in Types
      /\ heap[b] # NULL
      /\ left \in Heaps /\ left[b] = NULL /\ SameBlocks(left, heap, Blocks \ {b})
      /\ HeadWithout(b) \in Links /\ size \in Nat /\ n \in Int
  BY <1>1, LeavesTheList DEF Entries
<1>5. Fits(type, Growth(b, size)) /\ Growth(b, size) = Max({n, 0})
  BY DEF Growth
<1>3. CASE Aborts
  BY <1>3, AbortsKeeps
<1>4. CASE Writable({HeadWithout(b)}, (Live \ {b}) \cup {to}) /\ ~Aborts
  <2>1. /\ heap' = PutFirst(left, HeadWithout(b), to, entry)
        /\ head' = (IF debug THEN to ELSE head)
        /\ allocated' = allocated + size - old /\ Takes(n)
        /\ UNCHANGED <<limits, debug, aborted>>
    BY <1>4 DEF Moves, Left, CountedWith
  <2>2. to \in Blocks /\ left[to] = NULL /\ InHeap(left) = Live \ {b}
    BY <1>2 DEF Live, SameBlocks, InHeap
  <2>3. debug => HeadWithout(b) \in InHeap(left) \cup {NULL, to}
    BY <1>4, <2>2 DEF Writable
  <2>4. entry \in Entries /\ entry.size = size /\ entry.type = type
    BY <1>2 DEF Entries
  <2>5. Growth(b, size) \in Nat /\ n <= Growth(b, size)
    <3>1. Max({n, 0}) \in Nat /\ n <= Max({n, 0})
      BY <1>2, MaxOf
    <3>. QED
      BY <1>5, <3>1
  <2>. HIDE DEF left, entry, size, old, kind
  <2>6. /\ heap' \in Heaps /\ SameBlocks(heap', left, Blocks \ {to})
        /\ heap'[to] # NULL /\ heap'[to].size = size /\ heap'[to].type = type
    <3>. DEFINE put == PutFirst(left, HeadWithout(b), to, entry)
    <3>3. PICK first \in Links : first = HeadWithout(b)
      BY <1>2
    <3>4. PICK e \in Entries : e = entry
      BY <2>4
    <3>5. PICK l \in Heaps : l = left
      BY <1>2
    <3>6. LET g == PutFirst(l, first, to, e) IN
          /\ g \in Heaps /\ SameBlocks(g, l, Blocks \ {to})
          /\ g[to] # NULL /\ g[to].size = e.size /\ g[to].type = e.type
      BY <2>2, <2>3, <3>3, <3>5, PutHeap
    <3>1. /\ put \in Heaps /\ SameBlocks(put, left, Blocks \ {to})
          /\ put[to] # NULL /\ put[to].size = entry.size /\ put[to].type = entry.type
      BY <3>3, <3>4, <3>5, <3>6
    <3>2. heap' = put
      BY <2>1
    <3>. HIDE DEF put
    <3>. QED
      BY <2>4, <3>1, <3>2
  <2>7. IsFiniteSet(Bytes(heap, Types)) /\ IsFiniteSet(Bytes(heap, {"APPLICATION"}))
    BY <1>1, <1>2, ApplicationIsPart DEF Counted
  <2>8. /\ IsFiniteSet(Bytes(left, Types)) /\ IsFiniteSet(Bytes(left, {"APPLICATION"}))
        /\ Cardinality(Bytes(heap, Types)) = Cardinality(Bytes(left, Types)) + old
        /\ Cardinality(Bytes(heap, {"APPLICATION"}))
             = Cardinality(Bytes(left, {"APPLICATION"})) + (IF kind = "APPLICATION" THEN old ELSE 0)
    BY <1>2, <2>7, BytesWithoutBlock DEF old, kind
  <2>9. /\ IsFiniteSet(Bytes(heap', Types))
        /\ Cardinality(Bytes(heap', Types)) = Cardinality(Bytes(left, Types)) + size
        /\ Cardinality(Bytes(heap', {"APPLICATION"}))
             = Cardinality(Bytes(left, {"APPLICATION"})) + (IF type = "APPLICATION" THEN size ELSE 0)
    BY <1>2, <2>2, <2>6, <2>8, BytesWithBlock
  <2>10. /\ Cardinality(Bytes(left, Types)) \in Nat /\ Cardinality(Bytes(left, {"APPLICATION"})) \in Nat
         /\ Cardinality(Bytes(heap', Types)) \in Nat
         /\ Cardinality(Bytes(heap', {"APPLICATION"})) \in Nat
         /\ Cardinality(Bytes(heap', {"APPLICATION"})) <= Cardinality(Bytes(heap', Types))
    BY <1>2, <2>6, <2>8, <2>9, ApplicationIsPart
  <2>11. allocated' = allocated + n /\ allocated' = Cardinality(Bytes(heap', Types))
    <3>1. allocated = Cardinality(Bytes(left, Types)) + old
      BY <1>1, <2>8 DEF Counted, BytesOf
    <3>. QED
      BY <1>2, <2>1, <2>9, <2>10, <3>1
  <2>12. type # "APPLICATION" =>
           Cardinality(Bytes(heap', {"APPLICATION"})) <= Cardinality(Bytes(heap, {"APPLICATION"}))
    BY <1>2, <2>8, <2>9, <2>10
  <2>13. Counted'
    BY <2>9, <2>11 DEF Counted, BytesOf
  <2>14. TypeOK'
    BY <1>1, <2>1, <2>2, <2>6, <2>10, <2>11 DEF TypeOK, limits, Takes, Links, Collector
  <2>15. Kept'
    <3>1. Fits(type, Growth(b, size))
      BY <1>5
    <3>2. \E m \in Nat : m = Growth(b, size)
      BY <2>5
    <3>3. PICK m \in Nat : m = Growth(b, size)
      BY <3>2
    <3>4. Fits(type, m) /\ n <= m
      BY <2>5, <3>1, <3>3
    <3>. HIDE DEF n
    <3>. QED
      BY <1>1, <1>2, <2>1, <2>10, <2>11, <2>12, <3>4, KeptByTaking DEF BytesOf
  <2>. QED
    BY <2>13, <2>14, <2>15 DEF IInv
<1>. QED
  BY <1>3, <1>4 DEF Moves

LEMMA ReallocKeeps ==
  ASSUME IInv, NEW type \in Types, NEW b \in Live, NEW to \in {b, NULL} \cup (Blocks \ Live),
         NEW asked \in Sizes, Realloc(type, b, to, asked)
  PROVE  IInv'
<1>1. Collector(gc')
  BY DEF Realloc, IInv, TypeOK
<1>2. CASE Aborts
  BY <1>1, <1>2, AbortsKeeps
<1>3. CASE ~Aborts /\ to = NULL
  BY <1>1, <1>3, RefusesKeeps DEF Realloc
<1>4. CASE ~Aborts /\ to # NULL
  <2>1. /\ Writable(Neighbours(b), Live) /\ Moves(type, b, to, asked + Header)
        /\ Fits(type, Growth(b, asked + Header))
    BY <1>4 DEF Realloc
  <2>2. to \in {b} \cup (Blocks \ Live)
    BY <1>4
  <2>. QED
    BY <1>1, <2>1, <2>2, MovesKeeps
<1>. QED
  BY <1>2, <1>3, <1>4

LEMMA SetLimitKeeps ==
  ASSUME IInv, (\E limit \in Limits : SetLimitChecks(limit)) \/ SetsTotal \/ SetsApplication
  PROVE  IInv'
<1>. USE NullIsNoEntry, MemoryLimiterAssumption
<1>1. TypeOK /\ Counted /\ Kept
  BY DEF IInv
<1>2. UNCHANGED <<heap, head, allocated, debug, gc, aborted>>
  BY DEF SetLimitChecks, SetsTotal, SetsApplication, limitKeeps
<1>3. Counted' /\ BytesOf({"APPLICATION"})' = BytesOf({"APPLICATION"})
  BY <1>1, <1>2 DEF Counted, BytesOf
<1>4. TypeOK' /\ Kept'
  <2>1. CASE \E limit \in Limits : SetLimitChecks(limit)
    <3>1. PICK limit \in Limits : SetLimitChecks(limit)
      BY <2>1
    <3>2. limit \in Int /\ allocated \in Nat /\ SystemLimit \in Nat
      BY <1>1 DEF TypeOK
    <3>3. /\ limit >= allocated + SystemLimit /\ limiting' = "TOTAL" /\ new_limit' = limit
          /\ raced' = FALSE /\ UNCHANGED <<total_limit, application_limit>>
      BY <3>1 DEF SetLimitChecks
    <3>4. allocated <= limit - SystemLimit
      BY <3>2, <3>3
    <3>5. Kept'
      BY <1>2, <3>3, <3>4 DEF Kept
    <3>6. TypeOK'
      BY <1>1, <1>2, <3>2, <3>3 DEF TypeOK, Collector
    <3>. QED
      BY <3>5, <3>6
  <2>2. CASE SetsTotal
    BY <1>1, <1>2, <2>2 DEF SetsTotal, TypeOK, Kept, Collector
  <2>3. CASE SetsApplication
    <3>1. BytesOf({"APPLICATION"}) <= allocated /\ BytesOf({"APPLICATION"}) \in Nat
      BY <1>1, ApplicationIsPart DEF TypeOK, Counted, BytesOf
    <3>2. /\ total_limit' = total_limit /\ raced' = raced /\ new_limit' = 0
          /\ application_limit' = total_limit - SystemLimit /\ limiting' = NULL
          /\ limiting = "APPLICATION"
      BY <2>3 DEF SetsApplication
    <3>3. TypeOK'
      BY <1>1, <1>2, <3>2 DEF TypeOK, Collector
    <3>4. ~raced => allocated <= total_limit - SystemLimit /\ allocated <= total_limit
      BY <1>1, <3>2 DEF Kept, TypeOK
    <3>5. ~raced => BytesOf({"APPLICATION"}) <= total_limit - SystemLimit
      BY <1>1, <3>1, <3>4 DEF TypeOK
    <3>. QED
      BY <1>2, <1>3, <3>2, <3>3, <3>4, <3>5 DEF Kept
  <2>. QED
    BY <2>1, <2>2, <2>3
<1>. QED
  BY <1>3, <1>4 DEF IInv

LEMMA CollectingKeeps ==
  ASSUME IInv, gcStarts \/ gcFrees
  PROVE  IInv'
<1>. USE NullIsNoEntry
<1>1. heap \in Heaps /\ Collector(gc)
  BY DEF IInv, TypeOK
<1>2. CASE gcStarts
  <2>1. Collector(gc')
    BY <1>1, <1>2 DEF gcStarts, Live, Links, Collector
  <2>2. CASE Aborts
    BY <2>1, <2>2, AbortsKeeps
  <2>3. CASE UNCHANGED <<heap, head, allocated, limits, debug, raced, aborted>>
    BY <2>1, <2>3 DEF IInv, TypeOK, Counted, Kept, BytesOf, limits, Collector
  <2>. QED
    BY <1>2, <2>2, <2>3 DEF gcStarts
<1>3. CASE gcFrees /\ gc \in Live
  <2>1. Frees(gc) /\ gc' = heap[gc].prev
    BY <1>3 DEF gcFrees
  <2>2. heap[gc] \in Entries
    BY <1>1, <1>3 DEF Live, Heaps
  <2>3. Collector(gc')
    BY <1>1, <1>3, <2>1, <2>2 DEF Entries, Collector, gcFrees
  <2>4. \E b \in Live : Frees(b)
    BY <1>3, <2>1
  <2>. QED
    BY <2>3, <2>4, FreesKeeps
<1>4. CASE gcFrees /\ gc \notin Live
  BY <1>1, <1>4, AbortsKeeps DEF gcFrees
<1>. QED
  BY <1>2, <1>3, <1>4

LEMMA StepKeeps == IInv /\ [Next]_vars => IInv'
<1>. SUFFICES ASSUME IInv, [Next]_vars PROVE IInv'
  OBVIOUS
<1>1. ASSUME NEW type \in Types, NEW b \in Blocks, NEW asked \in Sizes, Alloc(type, b, asked)
      PROVE  IInv'
  BY <1>1, AllocKeeps
<1>2. ASSUME NEW type \in Types, NEW b \in Live, NEW to \in {b, NULL} \cup (Blocks \ Live),
             NEW asked \in Sizes, Realloc(type, b, to, asked)
      PROVE  IInv'
  BY <1>2, ReallocKeeps
<1>3. ASSUME NEW b \in Live, Free(b) PROVE IInv'
  <2>1. Frees(b) /\ Collector(gc')
    BY <1>3 DEF Free, IInv, TypeOK
  <2>. QED
    BY <2>1, FreesKeeps
<1>4. CASE UNCHANGED vars
  BY <1>4 DEF IInv, vars, TypeOK, Counted, Kept, BytesOf, Collector
<1>. QED
  BY <1>1, <1>2, <1>3, <1>4, SetLimitKeeps, CollectingKeeps DEF Next, Call

-----------------------------------------------------------------------------
(* What keeps the list whole.                                              *)

\* In a debug build: a whole list, with the collector in it, if it runs.
Linked == Whole(heap, head) /\ gc \in Live \cup {NULL}

\* What is known of a block of a whole list: its neighbours are in use, it is found, and
\* the list is whole without it.
LEMMA LinkedBlock ==
  ASSUME TypeOK, debug, Linked, NEW b \in Live
  PROVE  /\ Writable(Neighbours(b), Live) /\ b \in Reached(heap, head)
         /\ Whole(Left(heap, b), HeadWithout(b))
         /\ Left(heap, b) \in Heaps /\ InHeap(Left(heap, b)) = Live \ {b}
         /\ HeadWithout(b) \in (Live \ {b}) \cup {NULL}
         /\ heap[b].prev \in (Live \ {b}) \cup {NULL}
<1>. USE NullIsNoEntry
<1>1. /\ heap \in Heaps /\ head \in Links /\ Whole(heap, head) /\ b \in InHeap(heap)
      /\ Live = InHeap(heap) /\ b \in Blocks /\ b # NULL
  BY DEF TypeOK, Linked, Live, InHeap
<1>2. Writable(Neighbours(b), Live)
  BY <1>1 DEF Writable, Neighbours, Whole
<1>3. b \in Reached(heap, head)
  BY <1>1, WholeIsReached DEF Linked, ListIsWhole
<1>4. HeadWithout(b) = FirstLeft(heap, head, b)
  BY DEF HeadWithout, FirstLeft
<1>5. Whole(Left(heap, b), HeadWithout(b))
  BY <1>1, <1>4, LeftWhole
<1>6. Left(heap, b) \in Heaps /\ InHeap(Left(heap, b)) = Live \ {b}
  BY <1>1, <1>2, LeavesTheList DEF InHeap, SameBlocks
<1>7. HeadWithout(b) \in (Live \ {b}) \cup {NULL}
  BY <1>5, <1>6 DEF Whole
<1>8. heap[b].prev # b
  BY <1>1, WholeHasNoLoop
<1>. QED
  BY <1>1, <1>2, <1>3, <1>5, <1>6, <1>7, <1>8 DEF Whole

\* The newest block of a whole list is put first again.
LEMMA NewestIsPutFirst ==
  ASSUME TypeOK, debug, Linked, NEW type \in Types, NEW b \in Live, heap[b].prev = NULL,
         NEW to \in {b} \cup (Blocks \ Live), NEW asked \in Sizes, UNCHANGED gc, gc = NULL,
         Moves(type, b, to, asked + Header)
  PROVE  aborted' = aborted /\ Linked'
<1>. USE NullIsNoEntry, MemoryLimiterAssumption
<1>. DEFINE size == asked + Header
            left == Left(heap, b)
            entry == [heap[b] EXCEPT !.size = size, !.type = type]
<1>1. /\ heap[b] \in Entries /\ heap[b].prev = NULL /\ HeadWithout(b) = heap[b].next
      /\ size \in Nat
  BY DEF TypeOK, Live, Heaps, HeadWithout
<1>2. entry \in Entries /\ entry.prev = NULL /\ entry.next = heap[b].next
  BY <1>1 DEF Entries
<1>3. /\ Whole(left, HeadWithout(b)) /\ left \in Heaps /\ InHeap(left) = Live \ {b}
      /\ HeadWithout(b) \in (Live \ {b}) \cup {NULL} /\ to \in Blocks
  BY LinkedBlock DEF Live
<1>4. HeadWithout(b) \in Links /\ left[to] = NULL
  BY <1>3 DEF Live, Links, InHeap
<1>5. Writable({HeadWithout(b)}, (Live \ {b}) \cup {to})
  BY <1>3 DEF Writable
<1>6. heap' = PutFirst(left, HeadWithout(b), to, entry) /\ head' = to /\ aborted' = aborted
  BY <1>5 DEF Moves, Left
<1>. HIDE DEF left, entry
<1>7. Whole(PutFirst(left, HeadWithout(b), to, entry), to)
  BY <1>1, <1>2, <1>3, <1>4, PutWhole
<1>. QED
  BY <1>6, <1>7 DEF Linked

\* A list that is whole and not empty has a last entry: it would be longer than itself.
LEMMA WholeHasALast ==
  ASSUME NEW h \in Heaps, NEW first \in Links, Whole(h, first), first # NULL
  PROVE  \E b \in InHeap(h) : h[b].next = NULL
<1>. USE NullIsNoEntry, MemoryLimiterAssumption
<1>. SUFFICES ASSUME \A b \in InHeap(h) : h[b].next # NULL PROVE FALSE
  OBVIOUS
<1>. DEFINE S == InHeap(h)
            T == S \ {first}
            next == [b \in S |-> h[b].next]
<1>1. S \subseteq Blocks /\ first \in S /\ NULL \notin S
  BY DEF Whole, InHeap
<1>2. IsFiniteSet(S) /\ IsFiniteSet(T)
  BY <1>1, FS_Subset
<1>3. Cardinality(T) < Cardinality(S)
  BY <1>1, <1>2, FS_RemoveElement, FS_CardinalityType
<1>4. \A b \in S : h[b].next \in S /\ h[h[b].next].prev = b
  BY DEF Whole
<1>5. h[first].prev = NULL
  BY <1>1 DEF Whole
<1>6. next \in [S -> T]
  BY <1>1, <1>4, <1>5
<1>7. PICK x \in S, y \in S : x # y /\ next[x] = next[y]
  <2>. HIDE DEF S, T, next
  <2>. QED
    BY <1>2, <1>3, <1>6, FS_PigeonHole
<1>. QED
  BY <1>4, <1>7

\* Nothing but a resize of an older block, or a refused one, breaks a whole list.
LEMMA StepKeepsTheList ==
  ASSUME IInv, debug, Linked, Next
  PROVE  ~aborted' /\ ((Linked /\ debug)' \/ ResizesWrongly)
<1>. USE NullIsNoEntry, MemoryLimiterAssumption
<1>1. TypeOK /\ ~aborted /\ head \in Links /\ heap \in Heaps
  BY DEF IInv, TypeOK, Next
<1>2. ASSUME NEW type \in Types, NEW b \in Blocks, NEW asked \in Sizes, Alloc(type, b, asked)
      PROVE  ~aborted' /\ (Linked /\ debug)'
  <2>. DEFINE entry == [size |-> asked + Header, type |-> type, next |-> NULL, prev |-> NULL]
  <2>1. Writable({head}, Live \cup {b})
    BY DEF Linked, Whole, Writable, Live, InHeap
  <2>2. /\ heap' = PutFirst(heap, head, b, entry) /\ head' = b /\ heap[b] = NULL
        /\ UNCHANGED <<debug, aborted, gc>> /\ gc = NULL
    BY <1>2, <2>1 DEF Alloc, Live, Calling
  <2>3. entry \in Entries /\ entry.prev = NULL /\ entry.next = NULL
    <3>1. asked + Header \in Nat
      OBVIOUS
    <3>. QED
      BY <3>1 DEF Entries, Links
  <2>. HIDE DEF entry
  <2>4. Whole(PutFirst(heap, head, b, entry), b)
    BY <1>1, <2>2, <2>3, PutWhole DEF Linked
  <2>. QED
    BY <1>1, <2>2, <2>4 DEF Linked
<1>3. ASSUME NEW type \in Types, NEW b \in Live, NEW to \in {b, NULL} \cup (Blocks \ Live),
             NEW asked \in Sizes, Realloc(type, b, to, asked)
      PROVE  ~aborted' /\ ((Linked /\ debug)' \/ ResizesWrongly)
  <2>1. Writable(Neighbours(b), Live) /\ HeadWithout(b) \in (Live \ {b}) \cup {NULL}
    BY <1>1, LinkedBlock
  <2>2. UNCHANGED gc /\ gc = NULL
    BY <1>3 DEF Realloc, Calling
  <2>3. CASE to = NULL
    <3>1. Refuses(b)
      BY <1>3, <2>1, <2>3 DEF Realloc
    <3>2. ResizesWrongly
      BY <1>3, <2>3 DEF ResizesWrongly
    <3>. QED
      BY <1>1, <3>1, <3>2 DEF Refuses
  <2>4. CASE to # NULL
    <3>1. Moves(type, b, to, asked + Header) /\ to \in {b} \cup (Blocks \ Live)
      BY <1>3, <2>1, <2>4 DEF Realloc
    <3>2. Writable({HeadWithout(b)}, (Live \ {b}) \cup {to})
      BY <2>1 DEF Writable
    <3>3. UNCHANGED <<aborted, debug>>
      BY <3>1, <3>2 DEF Moves
    <3>4. CASE heap[b].prev = NULL
      BY <1>1, <2>2, <3>1, <3>3, <3>4, NewestIsPutFirst
    <3>5. CASE heap[b].prev # NULL
      BY <1>1, <1>3, <3>3, <3>5 DEF ResizesWrongly
    <3>. QED
      BY <3>4, <3>5
  <2>. QED
    BY <2>3, <2>4
<1>4. ASSUME NEW b \in Live, Frees(b), gc' \in (Live \ {b}) \cup {NULL}
      PROVE  ~aborted' /\ (Linked /\ debug)'
  <2>1. /\ Writable(Neighbours(b), Live) /\ b \in Reached(heap, head)
        /\ Whole(Left(heap, b), HeadWithout(b)) /\ InHeap(Left(heap, b)) = Live \ {b}
    BY <1>1, LinkedBlock
  <2>2. heap' = Left(heap, b) /\ head' = HeadWithout(b) /\ UNCHANGED <<debug, aborted>>
    BY <1>4, <2>1 DEF Frees, Left
  <2>3. Live' = Live \ {b}
    BY <2>1, <2>2 DEF Live, InHeap
  <2>. QED
    BY <1>1, <1>4, <2>1, <2>2, <2>3 DEF Linked
<1>5. ASSUME NEW b \in Live, Free(b) PROVE ~aborted' /\ (Linked /\ debug)'
  BY <1>4, <1>5 DEF Free, Calling
<1>6. CASE (\E limit \in Limits : SetLimitChecks(limit)) \/ SetsTotal \/ SetsApplication
  <2>1. UNCHANGED <<heap, head, gc, debug, aborted>>
    BY <1>6 DEF SetLimitChecks, SetsTotal, SetsApplication, limitKeeps
  <2>. QED
    BY <1>1, <2>1 DEF Linked, Live
<1>7. CASE gcStarts
  <2>1. Reached(heap, head) = Live
    BY <1>1, WholeIsReached DEF Linked, ListIsWhole
  <2>2. head # NULL /\ head \in Live
    BY <1>7 DEF gcStarts, Linked, Whole, Live, InHeap
  <2>3. {b \in Reached(heap, head) \cap Live : heap[b].next = NULL} # {}
    <3>1. \E b \in InHeap(heap) : heap[b].next = NULL
      BY <1>1, <2>2, WholeHasALast DEF Linked
    <3>. QED
      BY <2>1, <3>1 DEF Live, InHeap
  <2>4. gc' \in Live /\ UNCHANGED <<heap, head, debug, aborted>>
    BY <1>7, <2>3 DEF gcStarts
  <2>. QED
    BY <1>1, <2>4 DEF Linked, Live
<1>8. CASE gcFrees
  <2>1. gc \in Live /\ Frees(gc) /\ gc' = heap[gc].prev
    BY <1>8 DEF gcFrees, Linked
  <2>2. heap[gc].prev \in (Live \ {gc}) \cup {NULL}
    BY <1>1, <2>1, LinkedBlock
  <2>3. \E b \in Live : Frees(b) /\ gc' \in (Live \ {b}) \cup {NULL}
    BY <2>1, <2>2
  <2>. QED
    BY <1>4, <2>3
<1>. QED
  BY <1>2, <1>3, <1>5, <1>6, <1>7, <1>8 DEF Next, Call

\* A release build has no list, and follows no pointer.
LEMMA ReleaseHasNoList ==
  ASSUME IInv, ~debug, Next
  PROVE  ~aborted' /\ ~debug'
<1>1. ~aborted /\ gc = NULL
  BY DEF IInv, TypeOK, Collector, Next
<1>2. \A links, blocks : Writable(links, blocks)
  BY DEF Writable
<1>3. ASSUME NEW type \in Types, NEW b \in Blocks, NEW asked \in Sizes, Alloc(type, b, asked)
      PROVE  ~aborted' /\ ~debug'
  BY <1>1, <1>2, <1>3 DEF Alloc
<1>4. ASSUME NEW type \in Types, NEW b \in Live, NEW to \in {b, NULL} \cup (Blocks \ Live),
             NEW asked \in Sizes, Realloc(type, b, to, asked)
      PROVE  ~aborted' /\ ~debug'
  BY <1>1, <1>2, <1>4 DEF Realloc, Refuses, Moves
<1>5. ASSUME NEW b \in Live, Free(b) PROVE ~aborted' /\ ~debug'
  BY <1>1, <1>5 DEF Free, Frees
<1>6. CASE (\E limit \in Limits : SetLimitChecks(limit)) \/ SetsTotal \/ SetsApplication
  BY <1>1, <1>6 DEF SetLimitChecks, SetsTotal, SetsApplication, limitKeeps
<1>. QED
  BY <1>1, <1>3, <1>4, <1>5, <1>6 DEF Next, Call, gcStarts, gcFrees

-----------------------------------------------------------------------------

\* Whatever is allocated, resized, freed and collected, the variables keep their types:
\* what is counted is never negative, and gc never stands at an address outside the heap.
THEOREM TypeCorrect == Spec => []TypeOK
<1>1. IInv => TypeOK
  BY DEF IInv
<1>. QED
  BY <1>1, Initially, StepKeeps, PTL DEF Spec

\* iotc_memory_allocated is the sum of the sizes of the blocks and their entries, through
\* every order of iotc_memory_limiter_alloc, _realloc, _free and _gc, whatever becomes of
\* the list of a debug build.
THEOREM WhatIsCountedIsAllocated == Spec => []AllocatedIsTheSum
<1>1. IInv => AllocatedIsTheSum
  BY DEF IInv, Counted, AllocatedIsTheSum
<1>. QED
  BY <1>1, Initially, StepKeeps, PTL DEF Spec

\* The application leaves the system its reserve in every order of allocations and of
\* the three steps of iotc_memory_limiter_set_limit, if none took memory between them.
THEOREM TheReserveIsLeft == Spec => []ReserveIsLeft
<1>1. IInv => ReserveIsLeft
  BY DEF IInv, Kept, ReserveIsLeft
<1>. QED
  BY <1>1, Initially, StepKeeps, PTL DEF Spec

\* In a debug build only two ways of resizing a block break the list of entries, which
\* otherwise holds every allocated block once and is linked both ways; and from a whole
\* list nothing leads to a failed assertion or to freed memory.
THEOREM TheListIsKept == Spec => OnlyResizingBreaksTheList
<1>1. IInv /\ Next => (ListIsWhole => ~aborted' /\ (ListIsWhole' \/ ResizesWrongly))
  <2>. SUFFICES ASSUME IInv, Next, ListIsWhole
                PROVE  ~aborted' /\ (ListIsWhole' \/ ResizesWrongly)
    OBVIOUS
  <2>1. TypeOK /\ IInv' /\ TypeOK'
    BY StepKeeps DEF IInv
  <2>2. CASE debug
    <3>1. Linked
      BY <2>1, <2>2, WholeIsReached DEF Linked
    <3>2. ~aborted' /\ ((Linked /\ debug)' \/ ResizesWrongly)
      BY <2>2, <3>1, StepKeepsTheList
    <3>3. (Linked /\ debug)' => ListIsWhole'
      <4>1. PICK h \in Heaps, first \in Links : h = heap' /\ first = head'
        BY <2>1 DEF TypeOK
      <4>2. Whole(h, first) => Reached(h, first) = InHeap(h) /\ LinkedBothWays(h, first)
        BY WholeMeans
      <4>. QED
        BY <4>1, <4>2 DEF Linked, ListIsWhole, LinkedBothWays, InHeap, Live
    <3>. QED
      BY <3>2, <3>3
  <2>3. CASE ~debug
    BY <2>3, ReleaseHasNoList DEF ListIsWhole
  <2>. QED
    BY <2>2, <2>3
<1>2. IInv /\ [Next]_vars => [ListIsWhole => ~aborted' /\ (ListIsWhole' \/ ResizesWrongly)]_vars
  BY <1>1
<1>. QED
  BY <1>2, Initially, StepKeeps, PTL DEF Spec, OnlyResizingBreaksTheList
=============================================================================
