--------------------------- MODULE MqttClientProofs ---------------------------
(***************************************************************************)
(* Proofs about MqttClient, for any number of requests and connections:    *)
(* every task has one owner, and what the application asks for is reported *)
(* at most once.                                                           *)
(***************************************************************************)
EXTENDS MqttClient, SequenceTheorems, FiniteSetTheorems, TLAPS

-----------------------------------------------------------------------------
(* Sequences, whatever their elements are, and what is counted in them.    *)

AnySeq(s) == s \in Seq(Range(s))

LEMMA IsAnySeq ==
  ASSUME NEW S, NEW s \in Seq(S)
  PROVE  AnySeq(s)
<1>1. Len(s) \in Nat /\ s \in [1..Len(s) -> S] /\ DOMAIN s = 1..Len(s)
  BY LenProperties
<1>2. s \in [1..Len(s) -> Range(s)]
  BY <1>1 DEF Range
<1>. QED
  BY <1>1, <1>2, SeqDef DEF AnySeq

LEMMA AnySeqParts ==
  ASSUME NEW s, AnySeq(s)
  PROVE  /\ Len(s) \in Nat /\ DOMAIN s = 1..Len(s)
         /\ s = <<>> <=> Len(s) = 0
         /\ s # <<>> => /\ Len(s) > 0 /\ Head(s) = s[1]
                        /\ AnySeq(Tail(s)) /\ Len(Tail(s)) = Len(s) - 1
                        /\ \A i \in DOMAIN Tail(s) : Tail(s)[i] = s[i + 1] /\ i + 1 \in DOMAIN s
<1>1. s \in Seq(Range(s))
  BY DEF AnySeq
<1>2. Len(s) \in Nat /\ DOMAIN s = 1..Len(s)
  BY <1>1, LenProperties
<1>3. s = <<>> <=> Len(s) = 0
  BY <1>1, EmptySeq
<1>4. ASSUME s # <<>>
      PROVE  /\ Len(s) > 0 /\ Head(s) = s[1]
             /\ AnySeq(Tail(s)) /\ Len(Tail(s)) = Len(s) - 1
             /\ \A i \in DOMAIN Tail(s) : Tail(s)[i] = s[i + 1] /\ i + 1 \in DOMAIN s
  <2>1. /\ Tail(s) \in Seq(Range(s)) /\ Len(Tail(s)) = Len(s) - 1
        /\ \A i \in 1..Len(Tail(s)) : Tail(s)[i] = s[i + 1]
    BY <1>1, <1>4, HeadTailProperties
  <2>2. AnySeq(Tail(s)) /\ DOMAIN Tail(s) = 1..Len(Tail(s))
    BY <2>1, IsAnySeq, LenProperties
  <2>3. Head(s) = s[1]
    BY <1>1, <1>4
  <2>. QED
    BY <1>2, <1>3, <1>4, <2>1, <2>2, <2>3
<1>. QED
  BY <1>2, <1>3, <1>4

LEMMA AnyConcat ==
  ASSUME NEW s, NEW t, AnySeq(s), AnySeq(t)
  PROVE  /\ AnySeq(s \o t) /\ Len(s \o t) = Len(s) + Len(t)
         /\ DOMAIN (s \o t) = 1..Len(s) + Len(t)
         /\ \A i \in 1..Len(s) + Len(t) :
              (s \o t)[i] = IF i <= Len(s) THEN s[i] ELSE t[i - Len(s)]
<1>. DEFINE S == Range(s) \cup Range(t)
<1>1. s \in Seq(S) /\ t \in Seq(S)
  BY SeqMonotonic DEF AnySeq
<1>2. /\ s \o t \in Seq(S) /\ Len(s \o t) = Len(s) + Len(t)
      /\ \A i \in 1..Len(s) + Len(t) :
           (s \o t)[i] = IF i <= Len(s) THEN s[i] ELSE t[i - Len(s)]
  BY <1>1, ConcatProperties
<1>. QED
  BY <1>2, IsAnySeq, LenProperties

LEMMA AnyAppend ==
  ASSUME NEW s, NEW x, AnySeq(s)
  PROVE  AnySeq(Append(s, x)) /\ Append(s, x) = s \o <<x>> /\ Len(Append(s, x)) = Len(s) + 1
<1>. DEFINE S == Range(s) \cup {x}
<1>1. s \in Seq(S) /\ x \in S
  BY SeqMonotonic DEF AnySeq
<1>2. Append(s, x) \in Seq(S) /\ Len(Append(s, x)) = Len(s) + 1
  BY <1>1, AppendProperties
<1>3. Append(s, x) = s \o <<x>>
  BY <1>1, AppendIsConcat
<1>. QED
  BY <1>2, <1>3, IsAnySeq

LEMMA AnyLiteral ==
  /\ AnySeq(<<>>) /\ Len(<<>>) = 0 /\ DOMAIN <<>> = {}
  /\ \A x : AnySeq(<<x>>) /\ Len(<<x>>) = 1 /\ DOMAIN <<x>> = {1} /\ <<x>>[1] = x
<1>1. AnySeq(<<>>)
  BY EmptySeq, IsAnySeq
<1>2. ASSUME NEW x PROVE AnySeq(<<x>>)
  <2>1. <<x>> \in Seq({x})
    OBVIOUS
  <2>. QED
    BY <2>1, IsAnySeq
<1>3. Len(<<>>) = 0 /\ DOMAIN <<>> = {}
  OBVIOUS
<1>4. \A x : Len(<<x>>) = 1 /\ DOMAIN <<x>> = {1} /\ <<x>>[1] = x
  OBVIOUS
<1>. QED
  BY <1>1, <1>2, <1>3, <1>4

-----------------------------------------------------------------------------
(* What is counted: the handlers that push a task or report one, and the   *)
(* places of a task in a queue.                                            *)

\* h will hand t to the logic layer.
Pushed(h, t) ==
  /\ h.fn = "push" /\ h.layer \in {"CONTROL", "LOGIC"} /\ h.state = "OK"
  /\ h.data.task = t

\* h will report t to the application.
Told(h, t) == h.fn = "callback" /\ h.layer = "CONTROL" /\ h.data.task = t

callbacksOf(handlers, t) == Cardinality({i \in DOMAIN handlers : Told(handlers[i], t)})

\* Where members of M stand in s.
places(s, M) == {i \in DOMAIN s : s[i] \in M}

LEMMA PlacesAdd ==
  ASSUME NEW r, NEW s, NEW M, AnySeq(r), AnySeq(s)
  PROVE  /\ Cardinality(places(r \o s, M)) = Cardinality(places(r, M)) + Cardinality(places(s, M))
         /\ Cardinality(places(r, M)) \in Nat /\ Cardinality(places(s, M)) \in Nat
<1>. DEFINE m == Len(r)
            n == Len(s)
            A == places(r, M)
            B == places(s, M)
            C == places(r \o s, M)
            D == {m + i : i \in B}
            shift == [i \in B |-> m + i]
<1>1. m \in Nat /\ n \in Nat /\ DOMAIN r = 1..m /\ DOMAIN s = 1..n
  BY AnySeqParts
<1>2. /\ DOMAIN (r \o s) = 1..m + n
      /\ \A i \in 1..m + n : (r \o s)[i] = IF i <= m THEN r[i] ELSE s[i - m]
  BY AnyConcat
<1>3. A \subseteq 1..m /\ B \subseteq 1..n /\ C \subseteq 1..m + n
  BY <1>1, <1>2 DEF places
<1>4. \A i \in 1..m : i \in C <=> i \in A
  BY <1>1, <1>2 DEF places
<1>5. ASSUME NEW i \in 1..n PROVE m + i \in C <=> i \in B
  <2>1. m + i \in 1..m + n /\ ~(m + i <= m) /\ m + i - m = i
    BY <1>1
  <2>. QED
    BY <1>1, <1>2, <2>1 DEF places
<1>. HIDE DEF m, n, A, B, C
<1>6. IsFiniteSet(A) /\ IsFiniteSet(B)
  <2>1. IsFiniteSet(1..m) /\ IsFiniteSet(1..n)
    BY <1>1, FS_Interval
  <2>. QED
    BY <1>3, <2>1, FS_Subset
<1>7. shift \in Bijection(B, D)
  <2>1. shift \in [B -> D] /\ \A i \in B : shift[i] = m + i
    OBVIOUS
  <2>2. \A i, j \in B : shift[i] = shift[j] => i = j
    BY <1>1, <1>3
  <2>3. \A d \in D : \E i \in B : shift[i] = d
    OBVIOUS
  <2>. HIDE DEF shift, D
  <2>. QED
    BY <2>1, <2>2, <2>3 DEF Bijection, Injection, Surjection, IsInjective
<1>8. IsFiniteSet(D) /\ Cardinality(D) = Cardinality(B)
  BY <1>6, <1>7, FS_Bijection DEF ExistsBijection
<1>9. C = A \cup D
  <2>1. ASSUME NEW i \in C PROVE i \in A \cup D
    <3>1. CASE i <= m
      BY <1>1, <1>3, <1>4, <3>1
    <3>2. CASE i > m
      <4>1. i - m \in 1..n /\ m + (i - m) = i
        BY <1>1, <1>3, <3>2
      <4>. QED
        BY <1>5, <4>1
    <3>. QED
      BY <1>1, <1>3, <3>1, <3>2
  <2>2. ASSUME NEW i \in A \cup D PROVE i \in C
    BY <1>3, <1>4, <1>5
  <2>. QED
    BY <2>1, <2>2
<1>10. A \cap D = {}
  BY <1>1, <1>3
<1>11. Cardinality(A \cup D) = Cardinality(A) + Cardinality(D) - Cardinality({})
  BY <1>6, <1>8, <1>10, FS_Union
<1>12. Cardinality({}) = 0 /\ Cardinality(A) \in Nat /\ Cardinality(B) \in Nat
  BY <1>6, FS_EmptySet, FS_CardinalityType
<1>13. Cardinality(C) = Cardinality(A) + Cardinality(B)
  BY <1>8, <1>9, <1>11, <1>12
<1>. QED
  BY <1>12, <1>13 DEF A, B, C

LEMMA PushesAdd ==
  ASSUME NEW r, NEW s, NEW t, AnySeq(r), AnySeq(s)
  PROVE  /\ pushesOf(r \o s, t) = pushesOf(r, t) + pushesOf(s, t)
         /\ pushesOf(r, t) \in Nat /\ pushesOf(s, t) \in Nat
<1>. DEFINE M == {h \in Range(r) \cup Range(s) \cup Range(r \o s) : Pushed(h, t)}
<1>1. /\ pushesOf(r, t) = Cardinality(places(r, M))
      /\ pushesOf(s, t) = Cardinality(places(s, M))
      /\ pushesOf(r \o s, t) = Cardinality(places(r \o s, M))
  <2>1. /\ \A i \in DOMAIN r : r[i] \in M <=> Pushed(r[i], t)
        /\ \A i \in DOMAIN s : s[i] \in M <=> Pushed(s[i], t)
        /\ \A i \in DOMAIN (r \o s) : (r \o s)[i] \in M <=> Pushed((r \o s)[i], t)
    BY DEF Range
  <2>. HIDE DEF M
  <2>. QED
    BY <2>1 DEF pushesOf, Pushed, places
<1>. HIDE DEF M
<1>. QED
  BY <1>1, PlacesAdd

LEMMA CallbacksAdd ==
  ASSUME NEW r, NEW s, NEW t, AnySeq(r), AnySeq(s)
  PROVE  /\ callbacksOf(r \o s, t) = callbacksOf(r, t) + callbacksOf(s, t)
         /\ callbacksOf(r, t) \in Nat /\ callbacksOf(s, t) \in Nat
<1>. DEFINE M == {h \in Range(r) \cup Range(s) \cup Range(r \o s) : Told(h, t)}
<1>1. /\ callbacksOf(r, t) = Cardinality(places(r, M))
      /\ callbacksOf(s, t) = Cardinality(places(s, M))
      /\ callbacksOf(r \o s, t) = Cardinality(places(r \o s, M))
  <2>1. /\ \A i \in DOMAIN r : r[i] \in M <=> Told(r[i], t)
        /\ \A i \in DOMAIN s : s[i] \in M <=> Told(s[i], t)
        /\ \A i \in DOMAIN (r \o s) : (r \o s)[i] \in M <=> Told((r \o s)[i], t)
    BY DEF Range
  <2>. HIDE DEF M
  <2>. QED
    BY <2>1 DEF callbacksOf, places
<1>. HIDE DEF M
<1>. QED
  BY <1>1, PlacesAdd

LEMMA CountsAdd ==
  ASSUME NEW r, NEW s, NEW t, AnySeq(r), AnySeq(s)
  PROVE  /\ countIn(r \o s, t) = countIn(r, t) + countIn(s, t)
         /\ countIn(r, t) \in Nat /\ countIn(s, t) \in Nat
<1>1. /\ countIn(r, t) = Cardinality(places(r, {t}))
      /\ countIn(s, t) = Cardinality(places(s, {t}))
      /\ countIn(r \o s, t) = Cardinality(places(r \o s, {t}))
  BY DEF countIn, places
<1>. QED
  BY <1>1, PlacesAdd

LEMMA CountsOfOne ==
  ASSUME NEW h, NEW t
  PROVE  /\ pushesOf(<<h>>, t) = IF Pushed(h, t) THEN 1 ELSE 0
         /\ callbacksOf(<<h>>, t) = IF Told(h, t) THEN 1 ELSE 0
         /\ countIn(<<h>>, t) = IF h = t THEN 1 ELSE 0
<1>1. DOMAIN <<h>> = {1} /\ <<h>>[1] = h
  BY AnyLiteral
<1>2. Cardinality({}) = 0 /\ Cardinality({1}) = 1
  BY FS_EmptySet, FS_Singleton
<1>3. pushesOf(<<h>>, t) = IF Pushed(h, t) THEN 1 ELSE 0
  <2>1. pushesOf(<<h>>, t) = Cardinality({i \in {1} : Pushed(h, t)})
    BY <1>1 DEF pushesOf, Pushed
  <2>2. {i \in {1} : Pushed(h, t)} = IF Pushed(h, t) THEN {1} ELSE {}
    OBVIOUS
  <2>. QED
    BY <1>2, <2>1, <2>2
<1>4. callbacksOf(<<h>>, t) = IF Told(h, t) THEN 1 ELSE 0
  <2>1. callbacksOf(<<h>>, t) = Cardinality({i \in {1} : Told(h, t)})
    BY <1>1 DEF callbacksOf
  <2>2. {i \in {1} : Told(h, t)} = IF Told(h, t) THEN {1} ELSE {}
    OBVIOUS
  <2>. QED
    BY <1>2, <2>1, <2>2
<1>5. countIn(<<h>>, t) = IF h = t THEN 1 ELSE 0
  <2>1. countIn(<<h>>, t) = Cardinality({i \in {1} : h = t})
    BY <1>1 DEF countIn
  <2>2. {i \in {1} : h = t} = IF h = t THEN {1} ELSE {}
    OBVIOUS
  <2>. QED
    BY <1>2, <2>1, <2>2
<1>. QED
  BY <1>3, <1>4, <1>5

LEMMA CountsOfNone ==
  ASSUME NEW s, NEW t
  PROVE  /\ (\A i \in DOMAIN s : ~Pushed(s[i], t)) => pushesOf(s, t) = 0
         /\ (\A i \in DOMAIN s : ~Told(s[i], t)) => callbacksOf(s, t) = 0
         /\ t \notin Range(s) => countIn(s, t) = 0
<1>1. Cardinality({}) = 0
  BY FS_EmptySet
<1>2. ASSUME \A i \in DOMAIN s : ~Pushed(s[i], t) PROVE pushesOf(s, t) = 0
  <2>1. {i \in DOMAIN s : Pushed(s[i], t)} = {}
    BY <1>2
  <2>. QED
    BY <1>1, <2>1 DEF pushesOf, Pushed
<1>3. ASSUME \A i \in DOMAIN s : ~Told(s[i], t) PROVE callbacksOf(s, t) = 0
  <2>1. {i \in DOMAIN s : Told(s[i], t)} = {}
    BY <1>3
  <2>. QED
    BY <1>1, <2>1 DEF callbacksOf
<1>4. ASSUME t \notin Range(s) PROVE countIn(s, t) = 0
  <2>1. {i \in DOMAIN s : s[i] = t} = {}
    BY <1>4 DEF Range
  <2>. QED
    BY <1>1, <2>1 DEF countIn
<1>. QED
  BY <1>2, <1>3, <1>4

\* What is counted of a sequence is counted of its first element and of the rest.
LEMMA CountsOfTail ==
  ASSUME NEW s, AnySeq(s), s # <<>>, NEW t
  PROVE  /\ pushesOf(s, t) = (IF Pushed(Head(s), t) THEN 1 ELSE 0) + pushesOf(Tail(s), t)
         /\ callbacksOf(s, t) = (IF Told(Head(s), t) THEN 1 ELSE 0) + callbacksOf(Tail(s), t)
         /\ countIn(s, t) = (IF Head(s) = t THEN 1 ELSE 0) + countIn(Tail(s), t)
<1>1. AnySeq(<<Head(s)>>) /\ AnySeq(Tail(s))
  BY AnyLiteral, AnySeqParts
<1>2. s = <<Head(s)>> \o Tail(s)
  <2>1. s \in Seq(Range(s))
    BY DEF AnySeq
  <2>2. /\ Tail(s) \in Seq(Range(s)) /\ Len(Tail(s)) = Len(s) - 1 /\ Head(s) \in Range(s)
        /\ \A i \in 1..Len(Tail(s)) : Tail(s)[i] = s[i + 1]
    BY <2>1, HeadTailProperties
  <2>3. /\ <<Head(s)>> \in Seq(Range(s)) /\ Len(<<Head(s)>>) = 1 /\ <<Head(s)>>[1] = Head(s)
    BY <2>2
  <2>4. /\ <<Head(s)>> \o Tail(s) \in Seq(Range(s)) /\ Len(<<Head(s)>> \o Tail(s)) = Len(s)
        /\ \A i \in 1..Len(s) :
             (<<Head(s)>> \o Tail(s))[i] = IF i <= 1 THEN <<Head(s)>>[i] ELSE Tail(s)[i - 1]
    BY <2>1, <2>2, <2>3, ConcatProperties, LenProperties
  <2>5. Len(s) \in Nat /\ Len(s) > 0 /\ Head(s) = s[1]
    BY AnySeqParts
  <2>6. ASSUME NEW i \in 1..Len(s) PROVE s[i] = (<<Head(s)>> \o Tail(s))[i]
    <3>1. CASE i = 1
      BY <2>3, <2>4, <2>5, <3>1
    <3>2. CASE i # 1
      <4>1. i - 1 \in 1..Len(Tail(s)) /\ i - 1 + 1 = i /\ ~(i <= 1)
        BY <2>2, <2>5, <3>2
      <4>. QED
        BY <2>2, <2>4, <4>1
    <3>. QED
      BY <3>1, <3>2
  <2>. QED
    BY <2>1, <2>4, <2>6, SeqEqual
<1>. DEFINE first == <<Head(s)>>
            rest == Tail(s)
<1>3. /\ pushesOf(first, t) = (IF Pushed(Head(s), t) THEN 1 ELSE 0)
      /\ callbacksOf(first, t) = (IF Told(Head(s), t) THEN 1 ELSE 0)
      /\ countIn(first, t) = (IF Head(s) = t THEN 1 ELSE 0)
  BY CountsOfOne
<1>. HIDE DEF first, rest
<1>4. /\ pushesOf(first \o rest, t) = pushesOf(first, t) + pushesOf(rest, t)
      /\ callbacksOf(first \o rest, t) = callbacksOf(first, t) + callbacksOf(rest, t)
      /\ countIn(first \o rest, t) = countIn(first, t) + countIn(rest, t)
  BY <1>1, PushesAdd, CallbacksAdd, CountsAdd DEF first, rest
<1>. QED
  BY <1>2, <1>3, <1>4 DEF first, rest

\* What RemoveFirst takes out is gone, and nothing else is.
LEMMA CountsOfRemoved ==
  ASSUME NEW S, NEW s \in Seq(S), NEW t, countIn(s, t) = 1
  PROVE  /\ RemoveFirst(s, t) \in Seq(S)
         /\ countIn(RemoveFirst(s, t), t) = 0
         /\ \A u : u # t => countIn(RemoveFirst(s, t), u) = countIn(s, u)
<1>. DEFINE I == {i \in 1..Len(s) : s[i] = t}
<1>1. Len(s) \in Nat /\ DOMAIN s = 1..Len(s) /\ \A i \in 1..Len(s) : s[i] \in S
  BY LenProperties, ElementOfSeq
<1>2. PICK k : I = {k}
  <2>1. Cardinality(I) = 1
    BY <1>1 DEF countIn
  <2>2. IsFiniteSet(1..Len(s)) /\ I \subseteq 1..Len(s)
    BY <1>1, FS_Interval
  <2>3. IsFiniteSet(I)
    BY <2>2, FS_Subset
  <2>. HIDE DEF I
  <2>. QED
    BY <2>1, <2>3, FS_Singleton
<1>3. k \in 1..Len(s) /\ s[k] = t /\ k \in Nat
  BY <1>1, <1>2
<1>. DEFINE front == SubSeq(s, 1, k - 1)
            back == SubSeq(s, k + 1, Len(s))
            mid == front \o <<t>>
            whole == mid \o back
<1>4. RemoveFirst(s, t) = front \o back
  <2>1. \E i \in 1..Len(s) : s[i] = t
    BY <1>3
  <2>2. Min(I) = k
    <3>1. k <= k
      BY <1>3
    <3>. HIDE DEF I
    <3>. QED
      BY <1>2, <3>1 DEF Min
  <2>. QED
    BY <1>2, <2>1, <2>2 DEF RemoveFirst, RemoveAt, SelectInSeq
<1>5. /\ front \in Seq(S) /\ Len(front) = k - 1 /\ \A i \in 1..k - 1 : front[i] = s[i]
      /\ back \in Seq(S) /\ Len(back) = Len(s) - k
      /\ \A i \in 1..Len(s) - k : back[i] = s[k + i]
  <2>1. /\ front \in Seq(S) /\ Len(front) = (IF 1 <= k - 1 THEN k - 1 - 1 + 1 ELSE 0)
        /\ \A i \in 1..k - 1 - 1 + 1 : front[i] = s[1 + i - 1]
    BY <1>1, <1>3, SubSeqProperties
  <2>2. /\ back \in Seq(S)
        /\ Len(back) = (IF k + 1 <= Len(s) THEN Len(s) - (k + 1) + 1 ELSE 0)
        /\ \A i \in 1..Len(s) - (k + 1) + 1 : back[i] = s[k + 1 + i - 1]
    BY <1>1, <1>3, SubSeqProperties
  <2>. HIDE DEF front, back
  <2>3. Len(front) = k - 1 /\ Len(back) = Len(s) - k
    <3>1. ASSUME NEW n \in Nat, NEW j \in 1..n
          PROVE  /\ (IF 1 <= j - 1 THEN j - 1 - 1 + 1 ELSE 0) = j - 1
                 /\ (IF j + 1 <= n THEN n - (j + 1) + 1 ELSE 0) = n - j
      OBVIOUS
    <3>2. /\ Len(front) = (IF 1 <= k - 1 THEN k - 1 - 1 + 1 ELSE 0)
          /\ Len(back) = (IF k + 1 <= Len(s) THEN Len(s) - (k + 1) + 1 ELSE 0)
      BY <2>1, <2>2
    <3>. QED
      BY <1>1, <1>3, <3>1, <3>2
  <2>4. \A i \in 1..k - 1 : front[i] = s[i]
    BY <1>3, <2>1
  <2>5. ASSUME NEW i \in 1..Len(s) - k PROVE back[i] = s[k + i]
    <3>1. i \in 1..Len(s) - (k + 1) + 1 /\ k + 1 + i - 1 = k + i
      BY <1>1, <1>3
    <3>2. back[i] = s[k + 1 + i - 1]
      BY <2>2, <3>1
    <3>. QED
      BY <3>1, <3>2
  <2>. QED
    BY <2>1, <2>2, <2>3, <2>4, <2>5
<1>. HIDE DEF I, front, back
<1>6. /\ <<t>> \in Seq(S) /\ Len(<<t>>) = 1 /\ <<t>>[1] = t
  BY <1>1, <1>3
<1>7. /\ mid \in Seq(S) /\ Len(mid) = k
      /\ \A i \in 1..k : mid[i] = IF i <= k - 1 THEN front[i] ELSE t
  <2>1. /\ mid \in Seq(S) /\ Len(mid) = Len(front) + Len(<<t>>)
        /\ \A i \in 1..Len(front) + Len(<<t>>) :
             mid[i] = IF i <= Len(front) THEN front[i] ELSE <<t>>[i - Len(front)]
    BY <1>5, <1>6, ConcatProperties
  <2>. HIDE DEF mid
  <2>2. Len(front) + Len(<<t>>) = k
    BY <1>3, <1>5, <1>6
  <2>3. ASSUME NEW i \in 1..k
        PROVE  mid[i] = IF i <= k - 1 THEN front[i] ELSE t
    <3>1. mid[i] = IF i <= k - 1 THEN front[i] ELSE <<t>>[i - (k - 1)]
      BY <1>5, <2>1, <2>2
    <3>2. ~(i <= k - 1) => i - (k - 1) = 1
      BY <1>3
    <3>. QED
      BY <1>6, <3>1, <3>2
  <2>. QED
    BY <2>1, <2>2, <2>3
<1>. HIDE DEF mid
<1>8. /\ whole \in Seq(S) /\ Len(whole) = Len(s)
      /\ \A i \in 1..Len(s) : whole[i] = IF i <= k THEN mid[i] ELSE back[i - k]
  <2>1. /\ whole \in Seq(S) /\ Len(whole) = Len(mid) + Len(back)
        /\ \A i \in 1..Len(mid) + Len(back) :
             whole[i] = IF i <= Len(mid) THEN mid[i] ELSE back[i - Len(mid)]
    BY <1>5, <1>7, ConcatProperties
  <2>. HIDE DEF whole
  <2>2. Len(mid) + Len(back) = Len(s)
    BY <1>1, <1>3, <1>5, <1>7
  <2>. QED
    BY <1>7, <2>1, <2>2
<1>. HIDE DEF whole
<1>9. ASSUME NEW i \in 1..Len(s) PROVE s[i] = whole[i]
  <2>1. CASE i < k
    BY <1>3, <1>5, <1>7, <1>8, <2>1
  <2>2. CASE i = k
    BY <1>3, <1>7, <1>8, <2>2
  <2>3. CASE i > k
    <3>1. i - k \in 1..Len(s) - k /\ k + (i - k) = i /\ ~(i <= k)
      BY <1>1, <1>3, <2>3
    <3>. QED
      BY <1>5, <1>8, <3>1
  <2>. QED
    BY <1>3, <2>1, <2>2, <2>3
<1>10. s = whole
  BY <1>8, <1>9, SeqEqual
<1>11. AnySeq(front) /\ AnySeq(back) /\ AnySeq(<<t>>) /\ AnySeq(mid)
  BY <1>5, <1>6, <1>7, IsAnySeq
<1>12. ASSUME NEW u
       PROVE  /\ countIn(front \o back, u) = countIn(front, u) + countIn(back, u)
              /\ countIn(s, u) = countIn(front, u) + (IF t = u THEN 1 ELSE 0) + countIn(back, u)
              /\ countIn(front, u) \in Nat /\ countIn(back, u) \in Nat
  <2>1. countIn(whole, u) = countIn(mid, u) + countIn(back, u)
    BY <1>11, CountsAdd DEF whole
  <2>2. countIn(mid, u) = countIn(front, u) + countIn(<<t>>, u)
    BY <1>11, CountsAdd DEF mid
  <2>3. countIn(<<t>>, u) = IF t = u THEN 1 ELSE 0
    BY CountsOfOne
  <2>. QED
    BY <1>10, <1>11, <2>1, <2>2, <2>3, CountsAdd
<1>13. front \o back \in Seq(S)
  BY <1>5, ConcatProperties
<1>14. countIn(front \o back, t) = 0
  BY <1>12
<1>15. ASSUME NEW u, u # t PROVE countIn(front \o back, u) = countIn(s, u)
  BY <1>12, <1>15
<1>. QED
  BY <1>4, <1>13, <1>14, <1>15

-----------------------------------------------------------------------------
(* What the inductive invariant says of the handlers, the queues and every *)
(* single task.                                                            *)

Positions == {"NEW", "FREE", "START", "SENDING", "WAITING", "RETRY"}

\* Called directly only: they are never queued.
CalledOnly == {"task", "run_next", "connect_timeout", "keepalive_once", "close_rest"}

\* What the codec is handed is a sequence of messages.
Whole(h) == h.fn = "pull" /\ h.layer = "CODEC" => AnySeq(h.data.msgs)

Queueable(h) == Whole(h) /\ ~(h.layer = "LOGIC" /\ h.fn \in CalledOnly)

\* Below the handler that runs there is at most the rest of a close_externally.
Called(handlers) == \A i \in DOMAIN handlers : i > 1 => handlers[i].fn = "close_rest"

Shape ==
  /\ AnySeq(stack) /\ Called(stack) /\ \A i \in DOMAIN stack : Whole(stack[i])
  /\ AnySeq(queue) /\ \A i \in DOMAIN queue : Queueable(queue[i])
  /\ on_socket # NULL => on_socket.layer = "IO"
  /\ AnySeq(task_queue)
  /\ q0_tasks_queue \in Seq(Q0Tasks)
  /\ q12_tasks_queue \in Seq(Q1Tasks)
  /\ current_q0_task \in Q0Tasks \cup {NULL}
  /\ cs \in [Tasks -> Positions]
  /\ DOMAIN outcome = Requests
  /\ \A t \in Requests : AnySeq(outcome[t])

\* The handler on top of the stack is fn of the logic layer.
OnTop(fn) == stack # <<>> /\ Head(stack).fn = fn /\ Head(stack).layer = "LOGIC"

Held(t) == current_q0_task = t \/ countIn(q12_tasks_queue, t) > 0

\* t has one owner if it is allocated and none if it is not; its timeout waits, and
\* its coroutine is resumed, only while the layer holds it.
Owned(t) ==
  /\ references(t) = (IF t \in Allocated THEN 1 ELSE 0)
  /\ t \in timers => Held(t)
  /\ OnTop("task") /\ Head(stack).data.task = t => Held(t)
  /\ OnTop("connect_timeout") /\ t = "CONNECT" => Held(t)

\* How often t is reported, or about to be.
calls(t) == callbacksOf(stack, t) + callbacksOf(queue, t)
told(t) == calls(t) + Len(outcome[t])

\* A request is reported at most once, and not while its coroutine is under way:
\* that it is over is told before its memory is freed only if that comes next.
ToldOnce(t) ==
  /\ told(t) \in {0, 1}
  /\ cs[t] = "NEW" => told(t) = 0
  /\ t \in Allocated /\ ~(current_q0_task = t /\ OnTop("run_next")) => told(t) = 0

-----------------------------------------------------------------------------
(* The handlers.                                                           *)

LEMMA Neighbours ==
  /\ Next_layer("IO") = "CODEC" /\ Next_layer("CODEC") = "LOGIC" /\ Next_layer("LOGIC") = "CONTROL"
  /\ Prev_layer("CODEC") = "IO" /\ Prev_layer("LOGIC") = "CODEC" /\ Prev_layer("CONTROL") = "LOGIC"
<1>1. /\ DOMAIN Chain = {1, 2, 3, 4}
      /\ Chain[1] = "IO" /\ Chain[2] = "CODEC" /\ Chain[3] = "LOGIC" /\ Chain[4] = "CONTROL"
  BY ClientAssumptions
<1>2. /\ positionOf("IO") = 1 /\ positionOf("CODEC") = 2
      /\ positionOf("LOGIC") = 3 /\ positionOf("CONTROL") = 4
  BY <1>1 DEF positionOf
<1>. QED
  BY <1>1, <1>2 DEF Next_layer, Prev_layer

\* A handler runs, the first of the stack or of the queue.
Runs == stack # <<>> \/ queue # <<>>

\* What a handler leaves behind.
LEMMA LeavesStack ==
  ASSUME Shape, Runs, NEW direct, NEW queued, AnySeq(direct), AnySeq(queued),
         Leaves(direct, queued)
  PROVE  /\ AnySeq(stack') /\ AnySeq(queue')
         /\ Called(direct) => Called(stack)'
         /\ (\A i \in DOMAIN direct : Whole(direct[i])) => \A i \in DOMAIN stack' : Whole(stack'[i])
         /\ (\A i \in DOMAIN queued : Queueable(queued[i])) =>
              \A i \in DOMAIN queue' : Queueable(queue'[i])
         /\ direct = <<>> => stack' = <<>> \/ Head(stack').fn = "close_rest"
         /\ direct # <<>> => stack' # <<>> /\ Head(stack') = direct[1]
<1>. DEFINE below == IF stack # <<>> THEN Tail(stack) ELSE <<>>
            waiting == IF stack # <<>> THEN queue ELSE Tail(queue)
            m == Len(direct)
            n == Len(below)
            k == Len(waiting)
            l == Len(queued)
<1>1. stack' = direct \o below /\ queue' = waiting \o queued
  BY DEF Leaves
<1>2. /\ AnySeq(below) /\ DOMAIN below = 1..n
      /\ \A i \in DOMAIN below : below[i].fn = "close_rest" /\ Whole(below[i])
  <2>1. CASE stack # <<>>
    <3>1. /\ AnySeq(Tail(stack)) /\ DOMAIN Tail(stack) = 1..Len(Tail(stack))
          /\ Len(Tail(stack)) \in Nat
          /\ \A i \in DOMAIN Tail(stack) : Tail(stack)[i] = stack[i + 1] /\ i + 1 \in DOMAIN stack
      BY <2>1, AnySeqParts DEF Shape
    <3>2. \A i \in DOMAIN Tail(stack) : i + 1 > 1
      BY <3>1
    <3>. QED
      BY <2>1, <3>1, <3>2 DEF Shape, Called
  <2>2. CASE stack = <<>>
    BY <2>2, AnyLiteral, AnySeqParts
  <2>. QED
    BY <2>1, <2>2
<1>3. /\ AnySeq(waiting) /\ DOMAIN waiting = 1..k
      /\ \A i \in DOMAIN waiting : Queueable(waiting[i])
  <2>1. CASE stack # <<>>
    BY <2>1, AnySeqParts DEF Shape
  <2>2. CASE stack = <<>>
    <3>1. /\ AnySeq(Tail(queue)) /\ DOMAIN Tail(queue) = 1..Len(Tail(queue))
          /\ \A i \in DOMAIN Tail(queue) : Tail(queue)[i] = queue[i + 1] /\ i + 1 \in DOMAIN queue
      BY <2>2, AnySeqParts DEF Shape, Runs
    <3>. QED
      BY <2>2, <3>1 DEF Shape
  <2>. QED
    BY <2>1, <2>2
<1>. HIDE DEF below, waiting
<1>4. /\ m \in Nat /\ n \in Nat /\ k \in Nat /\ l \in Nat
      /\ DOMAIN direct = 1..m /\ DOMAIN queued = 1..l
  BY <1>2, <1>3, AnySeqParts
<1>5. /\ AnySeq(stack') /\ DOMAIN stack' = 1..m + n
      /\ \A i \in 1..m + n : stack'[i] = IF i <= m THEN direct[i] ELSE below[i - m]
  BY <1>1, <1>2, AnyConcat
<1>6. /\ AnySeq(queue') /\ DOMAIN queue' = 1..k + l
      /\ \A i \in 1..k + l : queue'[i] = IF i <= k THEN waiting[i] ELSE queued[i - k]
  BY <1>1, <1>3, AnyConcat
<1>. HIDE DEF m, n, k, l
<1>7. \A i \in 1..m + n : (i <= m => i \in 1..m) /\ (~(i <= m) => i - m \in 1..n)
  BY <1>4
<1>8. \A i \in 1..k + l : (i <= k => i \in 1..k) /\ (~(i <= k) => i - k \in 1..l)
  BY <1>4
<1>9. Called(direct) => Called(stack)'
  BY <1>2, <1>4, <1>5, <1>7 DEF Called
<1>10. (\A i \in DOMAIN direct : Whole(direct[i])) => \A i \in DOMAIN stack' : Whole(stack'[i])
  BY <1>2, <1>4, <1>5, <1>7
<1>11. (\A i \in DOMAIN queued : Queueable(queued[i])) =>
         \A i \in DOMAIN queue' : Queueable(queue'[i])
  BY <1>3, <1>4, <1>6, <1>8
<1>12. ASSUME stack' # <<>> PROVE Head(stack') = stack'[1] /\ 1 \in DOMAIN stack'
  <2>1. /\ Len(stack') \in Nat /\ Len(stack') > 0 /\ Head(stack') = stack'[1]
        /\ DOMAIN stack' = 1..Len(stack')
    BY <1>5, <1>12, AnySeqParts
  <2>. QED
    BY <2>1
<1>13. direct = <<>> => stack' = <<>> \/ Head(stack').fn = "close_rest"
  <2>1. direct = <<>> => m = 0
    BY AnySeqParts DEF m
  <2>2. ASSUME m = 0, 1 \in 1..m + n PROVE 1 \in 1..n /\ stack'[1] = below[1]
    BY <1>4, <1>5, <1>7, <2>2
  <2>. QED
    BY <1>2, <1>5, <1>12, <2>1, <2>2
<1>14. direct # <<>> => stack' # <<>> /\ Head(stack') = direct[1]
  <2>1. direct # <<>> => m > 0
    BY AnySeqParts DEF m
  <2>2. m > 0 => 1 <= m /\ 1 \in 1..m + n
    BY <1>4
  <2>3. stack' = <<>> => DOMAIN stack' = {}
    BY AnyLiteral
  <2>. QED
    BY <1>5, <1>12, <2>1, <2>2, <2>3
<1>. QED
  BY <1>5, <1>6, <1>9, <1>10, <1>11, <1>13, <1>14

\* What is counted of the handlers: the one that runs is taken away, those it
\* calls and queues come in addition.
LEMMA LeavesCounts ==
  ASSUME Shape, Runs, NEW direct, NEW queued, AnySeq(direct), AnySeq(queued),
         Leaves(direct, queued), NEW t
  PROVE  /\ pushesOf(stack', t) + pushesOf(queue', t) + (IF Pushed(Running, t) THEN 1 ELSE 0)
              = pushesOf(stack, t) + pushesOf(queue, t) + pushesOf(direct, t) + pushesOf(queued, t)
         /\ callbacksOf(stack', t) + callbacksOf(queue', t) + (IF Told(Running, t) THEN 1 ELSE 0)
              = callbacksOf(stack, t) + callbacksOf(queue, t)
                + callbacksOf(direct, t) + callbacksOf(queued, t)
<1>. DEFINE below == IF stack # <<>> THEN Tail(stack) ELSE <<>>
            waiting == IF stack # <<>> THEN queue ELSE Tail(queue)
<1>1. stack' = direct \o below /\ queue' = waiting \o queued
  BY DEF Leaves
<1>2. AnySeq(stack) /\ AnySeq(queue)
  BY DEF Shape
<1>3. AnySeq(below) /\ AnySeq(waiting)
  BY <1>2, AnySeqParts, AnyLiteral DEF Runs
<1>4. /\ pushesOf(below, t) + pushesOf(waiting, t) + (IF Pushed(Running, t) THEN 1 ELSE 0)
           = pushesOf(stack, t) + pushesOf(queue, t)
      /\ callbacksOf(below, t) + callbacksOf(waiting, t) + (IF Told(Running, t) THEN 1 ELSE 0)
           = callbacksOf(stack, t) + callbacksOf(queue, t)
  <2>1. CASE stack # <<>>
    <3>1. /\ pushesOf(stack, t) = (IF Pushed(Running, t) THEN 1 ELSE 0) + pushesOf(Tail(stack), t)
          /\ callbacksOf(stack, t) = (IF Told(Running, t) THEN 1 ELSE 0) + callbacksOf(Tail(stack), t)
      BY <1>2, <2>1, CountsOfTail DEF Running
    <3>2. /\ pushesOf(queue, t) \in Nat /\ pushesOf(Tail(stack), t) \in Nat
          /\ callbacksOf(queue, t) \in Nat /\ callbacksOf(Tail(stack), t) \in Nat
      BY <1>2, <1>3, <2>1, PushesAdd, CallbacksAdd
    <3>3. below = Tail(stack) /\ waiting = queue
      BY <2>1
    <3>. HIDE DEF below, waiting
    <3>. QED
      BY <3>1, <3>2, <3>3
  <2>2. CASE stack = <<>>
    <3>1. /\ pushesOf(queue, t) = (IF Pushed(Running, t) THEN 1 ELSE 0) + pushesOf(Tail(queue), t)
          /\ callbacksOf(queue, t) = (IF Told(Running, t) THEN 1 ELSE 0) + callbacksOf(Tail(queue), t)
      BY <1>2, <2>2, CountsOfTail DEF Running, Runs
    <3>2. /\ pushesOf(Tail(queue), t) \in Nat /\ callbacksOf(Tail(queue), t) \in Nat
          /\ pushesOf(stack, t) \in Nat /\ callbacksOf(stack, t) \in Nat
      BY <1>2, <1>3, <2>2, PushesAdd, CallbacksAdd
    <3>3. below = stack /\ waiting = Tail(queue)
      BY <2>2
    <3>. HIDE DEF below, waiting
    <3>. QED
      BY <3>1, <3>2, <3>3
  <2>. QED
    BY <2>1, <2>2
<1>. HIDE DEF below, waiting
<1>5. /\ pushesOf(direct \o below, t) = pushesOf(direct, t) + pushesOf(below, t)
      /\ pushesOf(waiting \o queued, t) = pushesOf(waiting, t) + pushesOf(queued, t)
      /\ callbacksOf(direct \o below, t) = callbacksOf(direct, t) + callbacksOf(below, t)
      /\ callbacksOf(waiting \o queued, t) = callbacksOf(waiting, t) + callbacksOf(queued, t)
      /\ pushesOf(direct, t) \in Nat /\ pushesOf(below, t) \in Nat
      /\ pushesOf(waiting, t) \in Nat /\ pushesOf(queued, t) \in Nat
      /\ callbacksOf(direct, t) \in Nat /\ callbacksOf(below, t) \in Nat
      /\ callbacksOf(waiting, t) \in Nat /\ callbacksOf(queued, t) \in Nat
  BY <1>3, PushesAdd, CallbacksAdd
<1>6. /\ pushesOf(stack, t) \in Nat /\ pushesOf(queue, t) \in Nat
      /\ callbacksOf(stack, t) \in Nat /\ callbacksOf(queue, t) \in Nat
  BY <1>2, PushesAdd, CallbacksAdd
<1>7. /\ pushesOf(stack', t) = pushesOf(direct, t) + pushesOf(below, t)
      /\ pushesOf(queue', t) = pushesOf(waiting, t) + pushesOf(queued, t)
  BY <1>1, <1>5
<1>8. /\ callbacksOf(stack', t) = callbacksOf(direct, t) + callbacksOf(below, t)
      /\ callbacksOf(queue', t) = callbacksOf(waiting, t) + callbacksOf(queued, t)
  BY <1>1, <1>5
<1>. DEFINE p == IF Pushed(Running, t) THEN 1 ELSE 0
            c == IF Told(Running, t) THEN 1 ELSE 0
<1>9. p \in Nat /\ c \in Nat
  OBVIOUS
<1>. HIDE DEF p, c
<1>10. pushesOf(stack', t) + pushesOf(queue', t) + p
         = pushesOf(stack, t) + pushesOf(queue, t) + pushesOf(direct, t) + pushesOf(queued, t)
  BY <1>4, <1>5, <1>6, <1>7, <1>9 DEF p
<1>11. callbacksOf(stack', t) + callbacksOf(queue', t) + c
         = callbacksOf(stack, t) + callbacksOf(queue, t)
           + callbacksOf(direct, t) + callbacksOf(queued, t)
  BY <1>4, <1>5, <1>6, <1>8, <1>9 DEF c
<1>. QED
  BY <1>10, <1>11 DEF p, c

-----------------------------------------------------------------------------
(* One task during one step.                                               *)

Safe(t) == Owned(t) /\ (t \in Requests => ToldOnce(t))

LEMMA RequestsAreTasks ==
  /\ Requests \subseteq Tasks /\ Requests \cap OwnTasks = {} /\ NULL \notin Tasks
  /\ Q0Tasks \cap Q1Tasks = {} /\ OwnTasks \subseteq Q0Tasks
  /\ Tasks = OwnTasks \cup Requests /\ Q0Tasks \subseteq Tasks /\ Q1Tasks \subseteq Tasks
BY LogicAssumptions DEF Requests, Publishes, Tasks, Q0Tasks, Q1Tasks, OwnTasks

\* How often t is about to be pushed, and how often the layer holds it.
pushes(t) == pushesOf(stack, t) + pushesOf(queue, t)

holds(t) == countIn(q0_tasks_queue, t) + countIn(q12_tasks_queue, t)
            + (IF current_q0_task = t THEN 1 ELSE 0)

LEMMA ReferencesSplit ==
  ASSUME Shape, NEW t
  PROVE  /\ references(t) = pushes(t) + holds(t)
         /\ pushesOf(stack, t) \in Nat /\ pushesOf(queue, t) \in Nat /\ pushes(t) \in Nat
         /\ callbacksOf(stack, t) \in Nat /\ callbacksOf(queue, t) \in Nat /\ calls(t) \in Nat
         /\ countIn(q0_tasks_queue, t) \in Nat /\ countIn(q12_tasks_queue, t) \in Nat
         /\ holds(t) \in Nat
         /\ Held(t) => holds(t) >= 1
         /\ t \in Requests => Len(outcome[t]) \in Nat
<1>1. /\ AnySeq(stack) /\ AnySeq(queue)
      /\ AnySeq(q0_tasks_queue) /\ AnySeq(q12_tasks_queue)
  BY IsAnySeq DEF Shape
<1>2. /\ pushesOf(stack, t) \in Nat /\ pushesOf(queue, t) \in Nat
      /\ callbacksOf(stack, t) \in Nat /\ callbacksOf(queue, t) \in Nat
      /\ countIn(q0_tasks_queue, t) \in Nat /\ countIn(q12_tasks_queue, t) \in Nat
  BY <1>1, PushesAdd, CallbacksAdd, CountsAdd
<1>3. t \in Requests => Len(outcome[t]) \in Nat
  BY AnySeqParts DEF Shape
<1>. QED
  BY <1>2, <1>3 DEF references, pushes, calls, holds, Held

\* LeavesCounts, when it is known whether the handler that runs pushes or reports t.
LEMMA Balance ==
  ASSUME Shape, Runs, NEW direct, NEW queued, AnySeq(direct), AnySeq(queued),
         Leaves(direct, queued), NEW t, NEW p \in {0, 1}, NEW c \in {0, 1},
         p = 1 <=> Pushed(Running, t), c = 1 <=> Told(Running, t)
  PROVE  /\ pushes(t)' + p = pushes(t) + pushesOf(direct, t) + pushesOf(queued, t)
         /\ calls(t)' + c = calls(t) + callbacksOf(direct, t) + callbacksOf(queued, t)
         /\ pushes(t) \in Nat /\ pushes(t)' \in Nat /\ calls(t) \in Nat /\ calls(t)' \in Nat
<1>1. p = (IF Pushed(Running, t) THEN 1 ELSE 0) /\ c = (IF Told(Running, t) THEN 1 ELSE 0)
  OBVIOUS
<1>2. /\ pushesOf(stack', t) + pushesOf(queue', t) + p
           = pushesOf(stack, t) + pushesOf(queue, t) + pushesOf(direct, t) + pushesOf(queued, t)
      /\ callbacksOf(stack', t) + callbacksOf(queue', t) + c
           = callbacksOf(stack, t) + callbacksOf(queue, t)
             + callbacksOf(direct, t) + callbacksOf(queued, t)
  BY <1>1, LeavesCounts
<1>3. AnySeq(stack') /\ AnySeq(queue')
  BY LeavesStack
<1>4. /\ pushesOf(stack', t) \in Nat /\ pushesOf(queue', t) \in Nat
      /\ callbacksOf(stack', t) \in Nat /\ callbacksOf(queue', t) \in Nat
  BY <1>3, PushesAdd, CallbacksAdd
<1>5. /\ pushesOf(direct, t) \in Nat /\ pushesOf(queued, t) \in Nat
      /\ callbacksOf(direct, t) \in Nat /\ callbacksOf(queued, t) \in Nat
  BY PushesAdd, CallbacksAdd
<1>6. pushesOf(stack, t) \in Nat /\ pushesOf(queue, t) \in Nat
  BY ReferencesSplit
<1>7. callbacksOf(stack, t) \in Nat /\ callbacksOf(queue, t) \in Nat
  BY ReferencesSplit
<1>8. /\ pushes(t)' + p = pushes(t) + pushesOf(direct, t) + pushesOf(queued, t)
      /\ pushes(t) \in Nat /\ pushes(t)' \in Nat
  BY <1>2, <1>4, <1>5, <1>6 DEF pushes
<1>9. /\ calls(t)' + c = calls(t) + callbacksOf(direct, t) + callbacksOf(queued, t)
      /\ calls(t) \in Nat /\ calls(t)' \in Nat
  BY <1>2, <1>4, <1>5, <1>7 DEF calls
<1>. QED
  BY <1>8, <1>9

\* The references to t, and how often it is told, from one state to the next.
LEMMA Tally ==
  ASSUME Shape, Shape', NEW t
  PROVE  /\ references(t) = pushes(t) + holds(t) /\ references(t)' = pushes(t)' + holds(t)'
         /\ pushes(t) \in Nat /\ pushes(t)' \in Nat /\ holds(t) \in Nat /\ holds(t)' \in Nat
         /\ calls(t) \in Nat /\ calls(t)' \in Nat
         /\ t \in Requests => Len(outcome[t]) \in Nat /\ Len(outcome[t])' \in Nat
<1>1. /\ references(t) = pushes(t) + holds(t)
      /\ pushes(t) \in Nat /\ holds(t) \in Nat /\ calls(t) \in Nat
      /\ t \in Requests => Len(outcome[t]) \in Nat
  BY ReferencesSplit
<1>2. /\ AnySeq(stack') /\ AnySeq(queue')
      /\ AnySeq(q0_tasks_queue') /\ AnySeq(q12_tasks_queue')
      /\ t \in Requests => AnySeq(outcome'[t])
  BY IsAnySeq DEF Shape
<1>3. /\ pushesOf(stack', t) \in Nat /\ pushesOf(queue', t) \in Nat
      /\ callbacksOf(stack', t) \in Nat /\ callbacksOf(queue', t) \in Nat
      /\ countIn(q0_tasks_queue', t) \in Nat /\ countIn(q12_tasks_queue', t) \in Nat
  BY <1>2, PushesAdd, CallbacksAdd, CountsAdd
<1>4. t \in Requests => Len(outcome'[t]) \in Nat
  BY <1>2, AnySeqParts
<1>5. /\ references(t)' = pushes(t)' + holds(t)'
      /\ pushes(t)' \in Nat /\ holds(t)' \in Nat /\ calls(t)' \in Nat
  BY <1>3 DEF references, pushes, holds, calls
<1>. QED
  BY <1>1, <1>4, <1>5

LEMMA HeldIsAllocated ==
  ASSUME Shape, NEW t \in Tasks, Owned(t), Held(t)
  PROVE  t \in Allocated /\ pushes(t) = 0 /\ holds(t) = 1 /\ cs[t] \notin {"NEW", "FREE"}
<1>1. references(t) = pushes(t) + holds(t) /\ pushes(t) \in Nat /\ holds(t) \in Nat /\ holds(t) >= 1
  BY ReferencesSplit
<1>2. references(t) = (IF t \in Allocated THEN 1 ELSE 0)
  BY DEF Owned
<1>3. t \in Allocated
  BY <1>1, <1>2
<1>4. cs[t] \notin {"NEW", "FREE"}
  BY <1>3 DEF Allocated
<1>. QED
  BY <1>1, <1>2, <1>3, <1>4

\* None of the handlers pushes t or reports it.
Calm(handlers, t) ==
  \A i \in DOMAIN handlers :
    ~Pushed(handlers[i], t) /\ (t \in Requests => ~Told(handlers[i], t))

\* h may be called: if it resumes t, the layer holds t.
Resumable(h, t) ==
  /\ h.fn = "task" /\ h.layer = "LOGIC" /\ h.data.task = t => Held(t)
  /\ ~(h.fn = "connect_timeout" /\ h.layer = "LOGIC")

\* A step that hands t to nobody: its coroutine may move on, its timeout be set.
LEMMA QuietStep ==
  ASSUME Shape, Runs, NEW direct, NEW queued, AnySeq(direct), AnySeq(queued),
         Leaves(direct, queued), NEW t \in Tasks, Safe(t),
         ~Pushed(Running, t), t \in Requests => ~Told(Running, t), Running.fn # "run_next",
         Calm(direct, t), Calm(queued, t), direct # <<>> => Resumable(direct[1], t),
         UNCHANGED <<q0_tasks_queue, q12_tasks_queue, current_q0_task>>,
         t \in Requests => outcome'[t] = outcome[t],
         t \in timers' => t \in timers \/ Held(t),
         cs'[t] = cs[t] \/ (Held(t) /\ cs'[t] \notin {"NEW", "FREE"})
  PROVE  Safe(t)'
<1>1. pushesOf(direct, t) = 0 /\ pushesOf(queued, t) = 0
  BY CountsOfNone DEF Calm
<1>2. pushesOf(stack', t) + pushesOf(queue', t) = pushesOf(stack, t) + pushesOf(queue, t)
  <2>1. pushesOf(stack', t) + pushesOf(queue', t) + 0
          = pushesOf(stack, t) + pushesOf(queue, t) + 0 + 0
    BY <1>1, LeavesCounts
  <2>2. AnySeq(stack') /\ AnySeq(queue')
    BY LeavesStack
  <2>3. pushesOf(stack', t) \in Nat /\ pushesOf(queue', t) \in Nat
    BY <2>2, PushesAdd
  <2>. QED
    BY <2>1, <2>3, ReferencesSplit
<1>3. Held(t)' <=> Held(t)
  BY DEF Held
<1>4. t \in Allocated' <=> t \in Allocated
  BY HeldIsAllocated DEF Allocated, Safe
<1>5. references(t)' = references(t)
  BY <1>2 DEF references
<1>6. /\ direct = <<>> => stack' = <<>> \/ Head(stack').fn = "close_rest"
      /\ direct # <<>> => stack' # <<>> /\ Head(stack') = direct[1]
  BY LeavesStack
<1>7. Owned(t)'
  BY <1>3, <1>4, <1>5, <1>6 DEF Owned, Safe, OnTop, Resumable
<1>8. ASSUME t \in Requests PROVE ToldOnce(t)'
  <2>1. callbacksOf(direct, t) = 0 /\ callbacksOf(queued, t) = 0
    BY <1>8, CountsOfNone DEF Calm
  <2>2. callbacksOf(stack', t) + callbacksOf(queue', t) = callbacksOf(stack, t) + callbacksOf(queue, t)
    <3>1. callbacksOf(stack', t) + callbacksOf(queue', t) + 0
            = callbacksOf(stack, t) + callbacksOf(queue, t) + 0 + 0
      BY <1>8, <2>1, LeavesCounts
    <3>2. AnySeq(stack') /\ AnySeq(queue')
      BY LeavesStack
    <3>3. callbacksOf(stack', t) \in Nat /\ callbacksOf(queue', t) \in Nat
      BY <3>2, CallbacksAdd
    <3>. QED
      BY <3>1, <3>3, ReferencesSplit
  <2>3. told(t)' = told(t)
    BY <1>8, <2>2 DEF told, calls
  <2>4. ~OnTop("run_next")
    BY DEF OnTop, Running
  <2>5. ToldOnce(t)
    BY <1>8 DEF Safe
  <2>6. t \in Allocated => told(t) = 0
    BY <2>4, <2>5 DEF ToldOnce
  <2>7. cs'[t] = "NEW" => cs[t] = "NEW"
    OBVIOUS
  <2>. QED
    BY <1>4, <2>3, <2>5, <2>6, <2>7 DEF ToldOnce
<1>. QED
  BY <1>7, <1>8 DEF Safe

\* h is of no task: it may be queued, and neither pushes a task nor reports a request.
Plain(h) ==
  /\ Queueable(h)
  /\ ~(h.fn = "push" /\ h.layer \in {"CONTROL", "LOGIC"} /\ h.state = "OK")
  /\ ~(h.fn = "callback" /\ h.layer = "CONTROL" /\ h.data.task \in Requests)

AllPlain(handlers) == AnySeq(handlers) /\ \A i \in DOMAIN handlers : Plain(handlers[i])

\* The part of Shape that is about handlers that were called or queued.
HandlersShape ==
  /\ AnySeq(stack) /\ Called(stack) /\ \A i \in DOMAIN stack : Whole(stack[i])
  /\ AnySeq(queue) /\ \A i \in DOMAIN queue : Queueable(queue[i])

LEMMA PlainOnes ==
  /\ AllPlain(<<>>) /\ Called(<<>>) /\ \A t : Calm(<<>>, t)
  /\ \A h : Plain(h) => AllPlain(<<h>>) /\ \A t : Calm(<<h>>, t)
  /\ \A h : Called(<<h>>) /\ <<h>> # <<>> /\ <<h>>[1] = h
<1>1. \A t : Calm(<<>>, t)
  BY AnyLiteral DEF Calm
<1>2. AllPlain(<<>>) /\ Called(<<>>)
  BY AnyLiteral DEF AllPlain, Called
<1>3. ASSUME NEW h, Plain(h) PROVE AllPlain(<<h>>) /\ \A t : Calm(<<h>>, t)
  BY <1>3, AnyLiteral DEF AllPlain, Calm, Plain, Pushed, Told
<1>4. ASSUME NEW h PROVE Called(<<h>>) /\ <<h>> # <<>> /\ <<h>>[1] = h
  <2>1. Called(<<h>>)
    BY AnyLiteral DEF Called
  <2>. QED
    BY <2>1, AnyLiteral
<1>. QED
  BY <1>1, <1>2, <1>3, <1>4

\* A step of a handler that has nothing to do with tasks.
LEMMA PlainStep ==
  ASSUME Shape, Runs, NEW queued, AllPlain(queued), Leaves(<<>>, queued),
         Plain(Running), Running.fn # "run_next",
         UNCHANGED <<cs, q0_tasks_queue, q12_tasks_queue, current_q0_task, outcome>>,
         \A t \in Tasks : t \in timers' => t \in timers
  PROVE  HandlersShape' /\ \A t \in Tasks : Safe(t) => Safe(t)'
<1>1. AnySeq(<<>>) /\ Called(<<>>) /\ \A i \in DOMAIN <<>> : Whole(<<>>[i])
  BY AnyLiteral DEF Called
<1>2. AnySeq(queued) /\ \A i \in DOMAIN queued : Queueable(queued[i])
  BY DEF AllPlain, Plain
<1>3. HandlersShape'
  BY <1>1, <1>2, LeavesStack DEF HandlersShape
<1>4. ASSUME NEW t \in Tasks, Safe(t) PROVE Safe(t)'
  <2>1. ~Pushed(Running, t) /\ (t \in Requests => ~Told(Running, t))
    BY DEF Plain, Pushed, Told
  <2>2. Calm(queued, t) /\ Calm(<<>>, t)
    BY PlainOnes DEF AllPlain, Calm, Plain, Pushed, Told
  <2>. QED
    BY <1>1, <1>2, <1>4, <2>1, <2>2, QuietStep
<1>. QED
  BY <1>3, <1>4

\* A step that calls and queues nothing.
LEMMA StillStep ==
  ASSUME Shape,
         UNCHANGED <<stack, queue, cs, q0_tasks_queue, q12_tasks_queue, current_q0_task, outcome>>,
         \A t \in Tasks : t \in timers' => t \in timers
  PROVE  HandlersShape' /\ \A t \in Tasks : Safe(t) => Safe(t)'
BY DEF HandlersShape, Shape, Safe, Owned, ToldOnce, references, told, calls, Held, OnTop,
       Allocated, Called

-----------------------------------------------------------------------------
(* The network layer and the codec.                                        *)

LEMMA NetStep ==
  ASSUME Shape, NetNext, UNCHANGED <<codecVars, logicVars, appVars>>
  PROVE  Shape' /\ \A t \in Tasks : Safe(t) => Safe(t)'
<1>. USE DEF codecVars, logicVars, receiveVars, appVars, netVars, sharedUnchanged
<1>1. /\ UNCHANGED <<cs, q0_tasks_queue, q12_tasks_queue, current_q0_task, outcome, task_queue>>
      /\ UNCHANGED timers
  BY DEF NetNext, IoInit, IoConnectStart, IoConnectResume, IoPush, IoPushBusy,
         IoPushDropped, IoPull, IoPullReset, IoClose, IoCloseExternally
<1>2. on_socket' # NULL => on_socket'.layer = "IO"
  BY DEF Shape, NetNext, IoInit, IoConnectStart, IoConnectResume, IoPush, IoPushBusy,
         IoPushDropped, IoPull, IoPullReset, IoClose, IoCloseExternally, IsRunning
<1>3. Running.layer = "IO" /\ Runs /\ Running.fn # "run_next" /\ Plain(Running)
  <2>1. Running.layer = "IO" /\ Runs /\ Running.fn # "run_next"
    BY DEF NetNext, IoInit, IoConnectStart, IoConnectResume, IoPush, IoPushBusy,
           IoPushDropped, IoPull, IoPullReset, IoClose, IoCloseExternally, IsRunning, Runs
  <2>. QED
    BY <2>1 DEF Plain, Queueable, Whole
<1>4. \/ \E queued : AllPlain(queued) /\ Leaves(<<>>, queued)
      \/ UNCHANGED <<stack, queue>>
  <2>1. ASSUME NEW fn, NEW data, NEW state,
               fn = "pull" => AnySeq(data.msgs), fn \notin {"callback"}
        PROVE  AllPlain(<<OnNext("IO", fn, data, state)>>)
    BY <2>1, Neighbours, PlainOnes DEF OnNext, Handle, Plain, Queueable, Whole
  <2>2. ASSUME NEW fn, NEW data, NEW state
        PROVE  AllPlain(<<Handle(fn, "IO", data, state)>>)
    BY PlainOnes DEF Handle, Plain, Queueable, Whole
  <2>3. AllPlain(<<>>)
    BY PlainOnes
  <2>4. CASE IoInit
    BY <2>2, <2>4 DEF IoInit, Returns
  <2>5. CASE IoConnectStart
    BY <2>1, <2>3, <2>5 DEF IoConnectStart, Returns
  <2>6. CASE IoConnectResume
    BY <2>1, <2>6 DEF IoConnectResume, Returns
  <2>7. CASE IoPush
    BY <2>1, <2>2, <2>7 DEF IoPush, Returns
  <2>8. CASE IoPushBusy \/ IoPushDropped
    BY <2>3, <2>8 DEF IoPushBusy, IoPushDropped, Returns
  <2>9. CASE IoPull
    <3>1. ASSUME NEW n \in 1..Len(wire) PROVE AnySeq(SubSeq(wire, 1, n))
      <4>1. n \in Nat
        OBVIOUS
      <4>2. SubSeq(wire, 1, n) \in Seq({wire[i] : i \in 1..n})
        BY <4>1
      <4>. QED
        BY <4>2, IsAnySeq
    <3>2. ASSUME NEW n \in 1..Len(wire)
          PROVE  AllPlain(<<OnNext("IO", "pull", [msgs |-> SubSeq(wire, 1, n)], "OK")>>)
      BY <2>1, <3>1
    <3>. QED
      BY <2>9, <3>2 DEF IoPull, Returns, Aborts
  <2>10. CASE IoPullReset \/ IoClose
    BY <2>2, <2>10 DEF IoPullReset, IoClose, Returns
  <2>11. CASE IoCloseExternally
    BY <2>1, <2>11 DEF IoCloseExternally, Returns
  <2>. QED
    BY <2>4, <2>5, <2>6, <2>7, <2>8, <2>9, <2>10, <2>11 DEF NetNext
<1>5. ASSUME NEW queued, AllPlain(queued), Leaves(<<>>, queued)
      PROVE  HandlersShape' /\ \A t \in Tasks : Safe(t) => Safe(t)'
  BY <1>1, <1>3, <1>5, PlainStep
<1>6. ASSUME UNCHANGED <<stack, queue>>
      PROVE  HandlersShape' /\ \A t \in Tasks : Safe(t) => Safe(t)'
  BY <1>1, <1>6, StillStep
<1>7. HandlersShape' /\ \A t \in Tasks : Safe(t) => Safe(t)'
  BY <1>4, <1>5, <1>6
<1>. QED
  BY <1>1, <1>2, <1>7 DEF Shape, HandlersShape

LEMMA CodecStep ==
  ASSUME Shape, CodecNext, UNCHANGED <<netVars, logicVars, appVars>>
  PROVE  Shape' /\ \A t \in Tasks : Safe(t) => Safe(t)'
<1>. USE DEF logicVars, receiveVars, appVars, netVars, codecVars, codecSharedUnchanged
<1>1. /\ UNCHANGED <<cs, q0_tasks_queue, q12_tasks_queue, current_q0_task, outcome, on_socket>>
      /\ UNCHANGED timers
  BY DEF CodecNext, CodecPushMessage, CodecPushPayload, CodecPushWritten, CodecPushDropped,
         CodecPull, CodecPullMalformed, CodecPullDropped, CodecInit, CodecConnect, CodecClose,
         CodecCloseExternally
<1>2. AnySeq(task_queue')
  <2>1. task_queue' \in {task_queue, <<>>, Append(task_queue, Running.data)}
        \/ (task_queue # <<>> /\ task_queue' = Tail(task_queue))
    <3>1. Len(task_queue) = 1 \/ Len(task_queue) > 1 => task_queue # <<>>
      BY AnyLiteral
    <3>. QED
      BY <3>1 DEF CodecNext, CodecPushMessage, CodecPushPayload, CodecPushWritten,
             CodecPushDropped, CodecPull, CodecPullMalformed, CodecPullDropped, CodecInit,
             CodecConnect, CodecClose, CodecCloseExternally
  <2>2. AnySeq(task_queue)
    BY DEF Shape
  <2>3. AnySeq(Append(task_queue, Running.data)) /\ AnySeq(<<>>)
    BY <2>2, AnyAppend, AnyLiteral
  <2>4. task_queue # <<>> => AnySeq(Tail(task_queue))
    BY <2>2, AnySeqParts
  <2>. QED
    BY <2>1, <2>2, <2>3, <2>4
<1>3. Running.layer = "CODEC" /\ Runs /\ Running.fn # "run_next" /\ Whole(Running)
  <2>1. Running.layer = "CODEC" /\ Runs /\ Running.fn # "run_next"
    BY DEF CodecNext, CodecPushMessage, CodecPushPayload, CodecPushWritten, CodecPushDropped,
           CodecPull, CodecPullMalformed, CodecPullDropped, CodecInit, CodecConnect,
           CodecClose, CodecCloseExternally, IsRunning, Runs
  <2>2. stack # <<>> => Head(stack) = stack[1] /\ 1 \in DOMAIN stack
    <3>1. stack # <<>> => /\ Head(stack) = stack[1] /\ Len(stack) \in Nat /\ Len(stack) > 0
                          /\ DOMAIN stack = 1..Len(stack)
      BY AnySeqParts DEF Shape
    <3>. QED
      BY <3>1
  <2>3. queue # <<>> => Head(queue) = queue[1] /\ 1 \in DOMAIN queue
    <3>1. queue # <<>> => /\ Head(queue) = queue[1] /\ Len(queue) \in Nat /\ Len(queue) > 0
                          /\ DOMAIN queue = 1..Len(queue)
      BY AnySeqParts DEF Shape
    <3>. QED
      BY <3>1
  <2>. QED
    BY <2>1, <2>2, <2>3 DEF Shape, Running, Runs, Queueable
<1>4. Plain(Running)
  BY <1>3 DEF Plain, Queueable
<1>5. \E queued : AllPlain(queued) /\ Leaves(<<>>, queued)
  <2>1. ASSUME NEW fn, NEW data, NEW state, fn # "push" \/ state # "OK", fn \notin CalledOnly
        PROVE  Plain(OnNext("CODEC", fn, data, state))
    BY <2>1, Neighbours DEF OnNext, Handle, Plain, Queueable, Whole
  <2>2. ASSUME NEW fn, NEW data, NEW state
        PROVE  Plain(OnPrev("CODEC", fn, data, state))
    BY Neighbours DEF OnPrev, Handle, Plain, Queueable, Whole
  <2>3. \A h : Plain(h) => AllPlain(<<h>>)
    BY PlainOnes
  <2>4. \A m : Plain(HeaderOf(m)) /\ Plain(PayloadOf(m))
    BY <2>2 DEF HeaderOf, PayloadOf
  <2>5. ASSUME NEW m, NEW state, state # "OK" PROVE Plain(Confirmation(m, state))
    BY <2>1, <2>5 DEF Confirmation, CalledOnly
  <2>6. ASSUME NEW r, NEW s, AllPlain(r), AllPlain(s) PROVE AllPlain(r \o s)
    <3>1. /\ Len(r) \in Nat /\ Len(s) \in Nat /\ DOMAIN r = 1..Len(r) /\ DOMAIN s = 1..Len(s)
      BY <2>6, AnySeqParts DEF AllPlain
    <3>2. /\ AnySeq(r \o s) /\ DOMAIN (r \o s) = 1..Len(r) + Len(s)
          /\ \A i \in 1..Len(r) + Len(s) :
               (r \o s)[i] = IF i <= Len(r) THEN r[i] ELSE s[i - Len(r)]
      BY <2>6, AnyConcat DEF AllPlain
    <3>3. \A i \in 1..Len(r) + Len(s) :
            (i <= Len(r) => i \in 1..Len(r)) /\ (~(i <= Len(r)) => i - Len(r) \in 1..Len(s))
      BY <3>1
    <3>. QED
      BY <2>6, <3>1, <3>2, <3>3 DEF AllPlain
  <2>7. AllPlain(FailedConfirmations)
    <3>1. Len(task_queue) \in Nat /\ DOMAIN task_queue = 1..Len(task_queue)
      BY AnySeqParts DEF Shape
    <3>2. FailedConfirmations \in Seq({Confirmation(task_queue[i], "FAILED_WRITING") :
                                         i \in DOMAIN task_queue})
      BY <3>1 DEF FailedConfirmations
    <3>3. \A i \in DOMAIN FailedConfirmations : Plain(FailedConfirmations[i])
      BY <2>5 DEF FailedConfirmations
    <3>. QED
      BY <3>2, <3>3, IsAnySeq DEF AllPlain
  <2>8. ASSUME NEW n \in Nat PROVE AllPlain(Decoded(n))
    <3>1. Decoded(n) \in Seq({OnNext("CODEC", "pull", Running.data.msgs[i], "OK") : i \in 1..n})
      BY DEF Decoded
    <3>2. \A i \in DOMAIN Decoded(n) : Plain(Decoded(n)[i])
      BY <2>1 DEF Decoded, CalledOnly
    <3>. QED
      BY <3>1, <3>2, IsAnySeq DEF AllPlain
  <2>9. Running.fn = "pull" => Len(Running.data.msgs) \in Nat
    BY <1>3, AnySeqParts DEF Whole
  <2>10. CASE CodecPushMessage \/ CodecPushPayload \/ CodecPushDropped \/ CodecPullDropped
    BY <2>3, <2>4, <2>10, PlainOnes
       DEF CodecPushMessage, CodecPushPayload, CodecPushDropped, CodecPullDropped, Returns
  <2>11. CASE CodecPushWritten
    <3>1. Plain(Confirmation(Head(task_queue), Running.state))
      BY <2>5, <2>11 DEF CodecPushWritten
    <3>2. ASSUME NEW g, NEW h, Plain(g), Plain(h) PROVE AllPlain(<<g, h>>)
      <4>1. <<g, h>> \in Seq({g, h}) /\ \A i \in DOMAIN <<g, h>> : <<g, h>>[i] \in {g, h}
        OBVIOUS
      <4>. QED
        BY <3>2, <4>1, IsAnySeq DEF AllPlain
    <3>. QED
      BY <2>3, <2>4, <2>11, <3>1, <3>2 DEF CodecPushWritten, Returns
  <2>12. CASE CodecPull
    BY <2>8, <2>9, <2>12 DEF CodecPull, Returns, IsRunning
  <2>13. CASE CodecPullMalformed
    <3>1. PICK n \in 0..Len(Running.data.msgs) - 1 :
            Returns(<<>>, Decoded(n) \o FailedConfirmations
                          \o <<OnPrev("CODEC", "close", NULL, "ERROR")>>)
      BY <2>13 DEF CodecPullMalformed
    <3>2. n \in Nat
      BY <2>9, <2>13 DEF CodecPullMalformed, IsRunning
    <3>3. AllPlain(Decoded(n) \o FailedConfirmations
                   \o <<OnPrev("CODEC", "close", NULL, "ERROR")>>)
      BY <2>2, <2>3, <2>6, <2>7, <2>8, <3>2
    <3>. QED
      BY <3>1, <3>3 DEF Returns
  <2>14. CASE CodecInit \/ CodecConnect \/ CodecClose
    <3>1. \A state : Plain(OnNext("CODEC", "connect", NULL, state))
      BY <2>1 DEF CalledOnly
    <3>2. \A state : Plain(Handle("close_externally", "CODEC", NULL, state))
      BY DEF Handle, Plain, Queueable, Whole
    <3>. QED
      BY <2>2, <2>3, <2>14, <3>1, <3>2 DEF CodecInit, CodecConnect, CodecClose, Returns
  <2>15. CASE CodecCloseExternally
    <3>1. AllPlain(<<OnNext("CODEC", "close_externally", NULL, Running.state)>>)
      BY <2>1, <2>3 DEF CalledOnly
    <3>2. Append(FailedConfirmations, OnNext("CODEC", "close_externally", NULL, Running.state))
            = FailedConfirmations \o <<OnNext("CODEC", "close_externally", NULL, Running.state)>>
      BY <2>7, AnyAppend DEF AllPlain
    <3>. QED
      BY <2>6, <2>7, <2>15, <3>1, <3>2 DEF CodecCloseExternally, Returns
  <2>. QED
    BY <2>10, <2>11, <2>12, <2>13, <2>14, <2>15 DEF CodecNext
<1>6. HandlersShape' /\ \A t \in Tasks : Safe(t) => Safe(t)'
  BY <1>1, <1>3, <1>4, <1>5, PlainStep
<1>. QED
  BY <1>1, <1>2, <1>6 DEF Shape, HandlersShape

-----------------------------------------------------------------------------
(* The control layer, the application and the event loop.                  *)

\* A step that calls h when nothing runs.
LEMMA CalledStep ==
  ASSUME Shape, stack = <<>>, NEW h, Whole(h), stack' = <<h>>,
         UNCHANGED <<queue, cs, q0_tasks_queue, q12_tasks_queue, current_q0_task, outcome>>
  PROVE  /\ HandlersShape'
         /\ \A t \in Tasks :
              /\ Safe(t) /\ Calm(<<h>>, t) /\ (t \in timers' => t \in timers)
              /\ h.fn \in {"task", "connect_timeout"} /\ h.layer = "LOGIC" =>
                   (h.fn = "task" /\ h.data.task = t => Held(t))
                   /\ (h.fn = "connect_timeout" /\ t = "CONNECT" => Held(t))
              => Safe(t)'
<1>1. /\ AnySeq(<<h>>) /\ Called(<<h>>) /\ \A i \in DOMAIN <<h>> : <<h>>[i] = h
      /\ <<h>> # <<>> /\ Head(<<h>>) = h /\ DOMAIN <<h>> = {1} /\ <<h>>[1] = h
  BY AnyLiteral, PlainOnes
<1>2. HandlersShape'
  BY <1>1 DEF HandlersShape, Shape
<1>3. ASSUME NEW t \in Tasks, Safe(t), Calm(<<h>>, t), t \in timers' => t \in timers,
             h.fn = "task" /\ h.layer = "LOGIC" /\ h.data.task = t => Held(t),
             h.fn = "connect_timeout" /\ h.layer = "LOGIC" /\ t = "CONNECT" => Held(t)
      PROVE  Safe(t)'
  <2>1. pushesOf(stack', t) = 0 /\ pushesOf(stack, t) = 0
    BY <1>1, <1>3, CountsOfNone, AnyLiteral DEF Calm
  <2>2. t \in Requests => callbacksOf(stack', t) = 0 /\ callbacksOf(stack, t) = 0
    BY <1>1, <1>3, CountsOfNone, AnyLiteral DEF Calm
  <2>3. references(t)' = references(t) /\ (t \in Requests => told(t)' = told(t))
    BY <2>1, <2>2 DEF references, told, calls
  <2>4. /\ (Held(t)' <=> Held(t)) /\ (t \in Allocated' <=> t \in Allocated) /\ cs'[t] = cs[t]
        /\ ~OnTop("run_next")
    BY DEF Held, Allocated, OnTop
  <2>5. Owned(t)'
    BY <1>1, <1>3, <2>3, <2>4 DEF Safe, Owned, OnTop
  <2>6. t \in Requests => ToldOnce(t)'
    BY <1>3, <2>3, <2>4 DEF Safe, ToldOnce
  <2>. QED
    BY <2>5, <2>6 DEF Safe
<1>. QED
  BY <1>2, <1>3

LEMMA LoopStep ==
  ASSUME Shape,
         Ready \/ SkipSockets \/ (\E d \in ServerPublishes : ServerSends(d))
         \/ (\E t \in TimeEvents : TimerDue(t)) \/ DanglingDue \/ TimersDone \/ QueueDone
  PROVE  Shape' /\ \A t \in Tasks : Safe(t) => Safe(t)'
<1>. USE DEF loopUnchanged, layersUnchanged, netVars, codecVars, logicVars, receiveVars,
             appVars, chainVars, sharedUnchanged
<1>1. /\ UNCHANGED <<queue, cs, q0_tasks_queue, q12_tasks_queue, current_q0_task, outcome, task_queue>>
      /\ timers' \subseteq timers
      /\ on_socket' \in {on_socket, PullHandle}
  <2>1. CASE Ready
    BY <2>1 DEF Ready, SocketReady
  <2>2. CASE SkipSockets \/ DanglingDue \/ TimersDone \/ QueueDone
    BY <2>2 DEF SkipSockets, DanglingDue, TimersDone, QueueDone
  <2>3. CASE \E d \in ServerPublishes : ServerSends(d)
    BY <2>3 DEF ServerSends
  <2>4. CASE \E t \in TimeEvents : TimerDue(t)
    BY <2>4 DEF TimerDue
  <2>. QED
    BY <2>1, <2>2, <2>3, <2>4
<1>2. HandlersShape' /\ \A t \in Tasks : Safe(t) => Safe(t)'
  <2>1. CASE SkipSockets \/ (\E d \in ServerPublishes : ServerSends(d))
             \/ DanglingDue \/ TimersDone \/ QueueDone
    BY <1>1, <2>1, StillStep DEF SkipSockets, ServerSends, DanglingDue, TimersDone, QueueDone
  <2>2. CASE Ready
    <3>1. stack = <<>> /\ stack' = <<on_socket>> /\ on_socket.layer = "IO"
      BY <2>2 DEF Ready, SocketReady, Idle, Shape
    <3>2. Whole(on_socket) /\ Plain(on_socket)
      BY <3>1 DEF Plain, Queueable, Whole
    <3>3. \A t : Calm(<<on_socket>>, t)
      BY <3>2, PlainOnes
    <3>. QED
      BY <1>1, <3>1, <3>2, <3>3, CalledStep
  <2>3. ASSUME NEW u \in TimeEvents, TimerDue(u)
        PROVE  HandlersShape' /\ \A t \in Tasks : Safe(t) => Safe(t)'
    <3>. DEFINE h == DueHandle(u)
    <3>1. stack = <<>> /\ u \in timers /\ stack' = <<h>>
      BY <2>3 DEF TimerDue
    <3>2. \/ u = "connect_handler" /\ h = Handle("init", "CONTROL", NULL, "OK")
          \/ u = "keepalive_event" /\ h = Handle("keepalive_once", "LOGIC", NULL, "OK")
          \/ u = "CONNECT" /\ h = Handle("connect_timeout", "LOGIC", NULL, "OK")
          \/ u \in Tasks /\ \E state : h = TaskHandle(u, state, NULL)
      <4>1. {"connect_handler", "keepalive_event"} \cap Tasks = {}
        BY ClientAssumptions, RequestsAreTasks DEF OwnTasks
      <4>2. u \in {"connect_handler", "keepalive_event", "CONNECT"} \/ u \in Tasks \ {"CONNECT"}
        BY DEF TimeEvents, Tasks, Q0Tasks, OwnTasks
      <4>3. CASE u = "connect_handler"
        BY <4>1, <4>3 DEF DueHandle
      <4>4. CASE u = "keepalive_event"
        BY <4>1, <4>4 DEF DueHandle
      <4>5. CASE u = "CONNECT"
        BY <4>1, <4>5 DEF DueHandle
      <4>6. CASE u \in Tasks \ {"CONNECT"}
        <5>1. h = TaskHandle(u, IF cs[u] = "RETRY" THEN "RESEND" ELSE "TIMEOUT", NULL)
          BY <4>1, <4>6 DEF DueHandle
        <5>. QED
          BY <4>6, <5>1
      <4>. QED
        BY <4>2, <4>3, <4>4, <4>5, <4>6
    <3>. HIDE DEF h
    <3>3. /\ Whole(h) /\ h.fn \in {"init", "keepalive_once", "connect_timeout", "task"}
          /\ h.fn = "task" => h.data.task = u
          /\ h.fn = "connect_timeout" => u = "CONNECT"
      BY <3>2 DEF Handle, TaskHandle, Whole
    <3>4. \A t : Calm(<<h>>, t)
      BY <3>3, AnyLiteral DEF Calm, Pushed, Told
    <3>5. ASSUME NEW t \in Tasks, Safe(t) PROVE t = u => Held(t)
      BY <3>1, <3>5 DEF Safe, Owned
    <3>. QED
      BY <1>1, <3>1, <3>3, <3>4, <3>5, CalledStep
  <2>. QED
    BY <2>1, <2>2, <2>3
<1>3. on_socket' # NULL => on_socket'.layer = "IO"
  BY <1>1 DEF Shape, PullHandle, Handle
<1>. QED
  BY <1>1, <1>2, <1>3 DEF Shape, HandlersShape

\* A request was never made, or it was reported and is over.
MayBeMade(u) == cs[u] = "NEW" \/ (cs[u] = "FREE" /\ outcome[u] # <<>>)

\* The application asks for u, or to be shut down: of a request that is made again
\* nothing was reported yet.
LEMMA PushesStep ==
  ASSUME Shape, NEW u \in Tasks, Pushes(u), DOMAIN outcome' = Requests,
         \A t \in Requests \ {u} : outcome'[t] = outcome[t],
         u \in Requests => outcome'[u] = <<>> /\ MayBeMade(u)
  PROVE  /\ Shape'
         /\ \A t \in Tasks : Safe(t) /\ (t = u => cs[t] \in {"NEW", "FREE"}) => Safe(t)'
<1>. DEFINE h == Push("CONTROL", u)
<1>1. /\ queue' = Append(queue, h) /\ cs' = [cs EXCEPT ![u] = "START"]
      /\ UNCHANGED <<stack, on_socket, task_queue, q0_tasks_queue, q12_tasks_queue,
                     current_q0_task, timers>>
  BY DEF Pushes, layersUnchanged, netVars, codecVars, queuesUnchanged, sendingUnchanged,
         timersUnchanged
<1>2. /\ AnySeq(queue') /\ queue' = queue \o <<h>> /\ AnySeq(queue) /\ AnySeq(<<h>>)
  BY <1>1, AnyAppend, AnyLiteral DEF Shape
<1>3. Queueable(h) /\ (\A t : ~Told(h, t)) /\ (\A t : Pushed(h, t) <=> t = u)
  BY DEF Push, Handle, Queueable, Whole, Told, Pushed
<1>. HIDE DEF h
<1>4. \A i \in DOMAIN queue' : Queueable(queue'[i])
  <2>1. /\ DOMAIN queue = 1..Len(queue) /\ DOMAIN queue' = 1..Len(queue) + 1 /\ Len(queue) \in Nat
        /\ \A i \in 1..Len(queue) + 1 :
             queue'[i] = IF i <= Len(queue) THEN queue[i] ELSE <<h>>[i - Len(queue)]
    BY <1>2, AnyLiteral, AnyConcat, AnySeqParts
  <2>2. ASSUME NEW i \in 1..Len(queue) + 1
        PROVE  i \in 1..Len(queue) \/ (~(i <= Len(queue)) /\ i - Len(queue) = 1)
    BY <2>1
  <2>. QED
    BY <1>3, <2>1, <2>2, AnyLiteral DEF Shape
<1>5. Shape'
  <2>1. \A t \in Requests : AnySeq(outcome'[t])
    BY AnyLiteral DEF Shape
  <2>. QED
    BY <1>1, <1>2, <1>4, <2>1 DEF Shape, Positions, Called
<1>6. ASSUME NEW t
      PROVE  /\ pushesOf(queue', t) = pushesOf(queue, t) + (IF t = u THEN 1 ELSE 0)
             /\ callbacksOf(queue', t) = callbacksOf(queue, t)
  <2>1. /\ pushesOf(queue', t) = pushesOf(queue, t) + pushesOf(<<h>>, t)
        /\ callbacksOf(queue', t) = callbacksOf(queue, t) + callbacksOf(<<h>>, t)
        /\ callbacksOf(queue, t) \in Nat
    BY <1>2, PushesAdd, CallbacksAdd
  <2>. QED
    BY <1>3, <2>1, CountsOfOne
<1>7. ASSUME NEW t \in Tasks, Safe(t), t # u PROVE Safe(t)'
  <2>1. cs'[t] = cs[t] /\ (t \in Allocated' <=> t \in Allocated)
    BY <1>1, <1>7 DEF Allocated, Shape
  <2>2. references(t)' = references(t)
    BY <1>1, <1>6, <1>7, ReferencesSplit DEF references
  <2>3. t \in Requests => told(t)' = told(t)
    <3>1. calls(t)' = calls(t)
      BY <1>1, <1>6 DEF calls
    <3>2. t \in Requests => outcome'[t] = outcome[t]
      BY <1>7
    <3>. QED
      BY <3>1, <3>2 DEF told
  <2>. QED
    BY <1>1, <1>7, <2>1, <2>2, <2>3 DEF Safe, Owned, ToldOnce, Held, OnTop
<1>8. ASSUME Safe(u), cs[u] \in {"NEW", "FREE"} PROVE Safe(u)'
  <2>1. cs'[u] = "START" /\ u \in Allocated' /\ u \notin Allocated
    BY <1>1, <1>8 DEF Allocated, Shape
  <2>2. references(u)' = references(u) + 1
    <3>1. /\ pushesOf(stack', u) = pushesOf(stack, u)
          /\ pushesOf(queue', u) = pushesOf(queue, u) + 1
          /\ countIn(q0_tasks_queue', u) = countIn(q0_tasks_queue, u)
          /\ countIn(q12_tasks_queue', u) = countIn(q12_tasks_queue, u)
          /\ current_q0_task' = current_q0_task
      BY <1>1, <1>6
    <3>2. /\ pushesOf(stack, u) \in Nat /\ pushesOf(queue, u) \in Nat
          /\ countIn(q0_tasks_queue, u) \in Nat /\ countIn(q12_tasks_queue, u) \in Nat
      BY ReferencesSplit
    <3>. QED
      BY <3>1, <3>2 DEF references
  <2>3. references(u) = 0 /\ ~Held(u)
    BY <1>8, <2>1, HeldIsAllocated DEF Safe, Owned
  <2>4. Owned(u)'
    BY <1>1, <1>8, <2>1, <2>2, <2>3 DEF Safe, Owned, Held, OnTop
  <2>5. ASSUME u \in Requests PROVE ToldOnce(u)'
    <3>1. calls(u)' = calls(u) /\ calls(u) \in Nat /\ Len(outcome[u]) \in Nat
      BY <1>1, <1>6, <2>5, ReferencesSplit DEF calls
    <3>2. told(u) \in {0, 1} /\ (cs[u] = "NEW" => told(u) = 0)
      BY <1>8, <2>5 DEF Safe, ToldOnce
    <3>3. cs[u] # "NEW" => Len(outcome[u]) # 0
      BY <2>5, AnySeqParts DEF MayBeMade, Shape
    <3>4. calls(u) = 0
      BY <3>1, <3>2, <3>3 DEF told
    <3>5. outcome'[u] = <<>> /\ Len(<<>>) = 0
      BY <2>5, AnyLiteral
    <3>6. told(u)' = 0
      BY <3>1, <3>4, <3>5 DEF told
    <3>. QED
      BY <2>1, <3>6 DEF ToldOnce
  <2>. QED
    BY <2>4, <2>5 DEF Safe
<1>. QED
  BY <1>5, <1>7, <1>8

\* The steps that allocate a task of the client's own.
Starts(t) ==
  \/ t = "CONNECT" /\ IsRunning("connect", "LOGIC") /\ Running.state = "OK"
  \/ t = "KEEPALIVE" /\ IsRunning("keepalive_once", "LOGIC")
  \/ t = "SHUTDOWN" /\ Shutdown

LEMMA AppStep ==
  ASSUME Shape,
         Connect \/ (\E u \in Requests : Request(u)) \/ ShutdownCancels \/ Shutdown
  PROVE  Shape' /\ \A t \in Tasks : Safe(t) /\ (Starts(t) => cs[t] = "FREE") => Safe(t)'
<1>1. CASE Connect \/ ShutdownCancels
  <2>1. /\ UNCHANGED <<stack, queue, cs, q0_tasks_queue, q12_tasks_queue, current_q0_task,
                       outcome, on_socket, task_queue>>
        /\ timers' \subseteq timers \cup {"connect_handler"}
    BY <1>1 DEF Connect, ShutdownCancels, layersUnchanged, netVars, codecVars, logicVars, appVars
  <2>2. "connect_handler" \notin Tasks
    BY ClientAssumptions, RequestsAreTasks DEF OwnTasks
  <2>3. HandlersShape' /\ \A t \in Tasks : Safe(t) => Safe(t)'
    BY <2>1, <2>2, StillStep
  <2>. QED
    BY <2>1, <2>3 DEF Shape, HandlersShape
<1>2. ASSUME NEW u \in Requests, Request(u)
      PROVE  Shape' /\ \A t \in Tasks : Safe(t) => Safe(t)'
  <2>1. /\ u \in Tasks /\ Pushes(u) /\ MayBeMade(u)
        /\ outcome' = [outcome EXCEPT ![u] = <<>>]
    BY <1>2, RequestsAreTasks DEF Request, MayBeMade
  <2>2. /\ DOMAIN outcome' = Requests /\ outcome'[u] = <<>>
        /\ \A t \in Requests \ {u} : outcome'[t] = outcome[t]
    BY <1>2, <2>1 DEF Shape
  <2>3. cs[u] \in {"NEW", "FREE"}
    BY <2>1 DEF MayBeMade
  <2>. QED
    BY <2>1, <2>2, <2>3, PushesStep
<1>3. CASE Shutdown
  <2>1. /\ "SHUTDOWN" \in Tasks /\ "SHUTDOWN" \notin Requests /\ Pushes("SHUTDOWN")
        /\ DOMAIN outcome' = Requests /\ \A t \in Requests : outcome'[t] = outcome[t]
    BY <1>3, RequestsAreTasks DEF OwnTasks, Shutdown, Shape
  <2>. QED
    BY <1>3, <2>1, PushesStep DEF Starts
<1>. QED
  BY <1>1, <1>2, <1>3

LEMMA ControlStep ==
  ASSUME Shape,
         ControlInit \/ ControlPush \/ ControlConnect \/ ControlCloseExternally
         \/ ConnectionCallback \/ RequestCallback \/ MessageCallback \/ UserReturns
  PROVE  Shape' /\ \A t \in Tasks : Safe(t) => Safe(t)'
<1>. USE DEF controlUnchanged, layersUnchanged, netVars, codecVars, logicVars, receiveVars,
             appVars, sendingUnchanged
<1>1. /\ UNCHANGED <<cs, q0_tasks_queue, q12_tasks_queue, current_q0_task, on_socket,
                     task_queue, timers>>
      /\ ~RequestCallback => UNCHANGED outcome
  BY DEF ControlInit, ControlPush, ControlConnect, ControlCloseExternally, ConnectionCallback,
         RequestCallback, MessageCallback, UserReturns
<1>2. Runs /\ Running.layer = "CONTROL" /\ Running.fn # "run_next"
  BY DEF ControlInit, ControlPush, ControlConnect, ControlCloseExternally, ConnectionCallback,
         RequestCallback, MessageCallback, UserReturns, IsRunning, Runs
<1>3. ASSUME HandlersShape', \A t \in Requests : AnySeq(outcome'[t]), DOMAIN outcome' = Requests
      PROVE  Shape'
  BY <1>1, <1>3 DEF Shape, HandlersShape
<1>4. Plain(User) /\ AnySeq(<<User>>) /\ Called(<<User>>) /\ <<User>> # <<>>
      /\ (\A i \in DOMAIN <<User>> : Whole(<<User>>[i])) /\ <<User>>[1] = User
      /\ (\A t : Calm(<<User>>, t)) /\ \A t : Resumable(User, t)
  <2>1. Plain(User) /\ Whole(User) /\ \A t : Resumable(User, t)
    BY DEF User, Handle, Plain, Queueable, Whole, Resumable
  <2>. QED
    BY <2>1, PlainOnes, AnyLiteral
<1>5. CASE ControlInit \/ ControlConnect \/ ControlCloseExternally \/ UserReturns
  <2>1. Plain(Running)
    BY <1>5 DEF ControlInit, ControlConnect, ControlCloseExternally, UserReturns, IsRunning,
                Plain, Queueable, Whole
  <2>2. \A state : Plain(Callback("connection", state))
    BY ClientAssumptions DEF Callback, Handle, Plain, Queueable, Whole
  <2>3. \A state : \A fn \in {"init", "close"} : Plain(OnPrev("CONTROL", fn, NULL, state))
    BY Neighbours DEF OnPrev, Handle, Plain, Queueable, Whole, CalledOnly
  <2>4. \E queued : AllPlain(queued) /\ Leaves(<<>>, queued)
    BY <1>5, <2>2, <2>3, PlainOnes
       DEF ControlInit, ControlConnect, ControlCloseExternally, UserReturns, Returns
  <2>5. UNCHANGED outcome
    BY <1>5 DEF ControlInit, ControlConnect, ControlCloseExternally, UserReturns
  <2>6. HandlersShape' /\ \A t \in Tasks : Safe(t) => Safe(t)'
    BY <1>1, <1>2, <2>1, <2>4, <2>5, PlainStep
  <2>. QED
    BY <1>3, <2>5, <2>6 DEF Shape
<1>6. CASE ConnectionCallback \/ MessageCallback
  <2>1. Plain(Running)
    BY <1>6, ClientAssumptions
       DEF ConnectionCallback, MessageCallback, IsRunning, Plain, Queueable, Whole
  <2>2. Leaves(<<User>>, <<>>) /\ UNCHANGED outcome
    BY <1>6 DEF ConnectionCallback, MessageCallback, Returns
  <2>3. AnySeq(<<>>) /\ (\A i \in DOMAIN <<>> : Queueable(<<>>[i])) /\ \A t : Calm(<<>>, t)
    BY AnyLiteral, PlainOnes
  <2>4. HandlersShape'
    BY <1>2, <1>4, <2>2, <2>3, LeavesStack DEF HandlersShape
  <2>5. ASSUME NEW t \in Tasks, Safe(t) PROVE Safe(t)'
    <3>1. ~Pushed(Running, t) /\ (t \in Requests => ~Told(Running, t))
      BY <2>1 DEF Plain, Pushed, Told
    <3>. QED
      BY <1>1, <1>2, <1>4, <2>2, <2>3, <2>5, <3>1, QuietStep
  <2>. QED
    BY <1>3, <2>2, <2>4, <2>5 DEF Shape
<1>7. CASE RequestCallback
  <2>. PICK r \in Requests : r = Running.data.task
    BY <1>7 DEF RequestCallback
  <2>1. /\ r \in Requests /\ Leaves(<<User>>, <<>>) /\ Running.fn = "callback"
        /\ outcome' = [outcome EXCEPT ![r] = Append(@, Running.state)]
    BY <1>7 DEF RequestCallback, Returns, IsRunning
  <2>2. AnySeq(<<>>) /\ (\A i \in DOMAIN <<>> : Queueable(<<>>[i])) /\ \A t : Calm(<<>>, t)
    BY AnyLiteral, PlainOnes
  <2>3. HandlersShape'
    BY <1>2, <1>4, <2>1, <2>2, LeavesStack DEF HandlersShape
  <2>4. /\ DOMAIN outcome' = Requests /\ AnySeq(outcome[r])
        /\ outcome'[r] = Append(outcome[r], Running.state)
        /\ \A t \in Requests \ {r} : outcome'[t] = outcome[t]
    BY <2>1 DEF Shape
  <2>5. AnySeq(outcome'[r]) /\ Len(outcome'[r]) = Len(outcome[r]) + 1
    <3>1. AnySeq(outcome[r])
      BY <2>4
    <3>2. /\ AnySeq(Append(outcome[r], Running.state))
          /\ Len(Append(outcome[r], Running.state)) = Len(outcome[r]) + 1
      BY <3>1, AnyAppend
    <3>. QED
      BY <2>4, <3>2
  <2>6. Shape'
    BY <1>3, <2>3, <2>4, <2>5 DEF Shape
  <2>7. ASSUME NEW t \in Tasks, Safe(t), t # r PROVE Safe(t)'
    <3>1. ~Pushed(Running, t) /\ ~Told(Running, t)
      BY <2>1, <2>7 DEF Pushed, Told
    <3>. QED
      BY <1>1, <1>2, <1>4, <2>1, <2>2, <2>4, <2>7, <3>1, QuietStep
  <2>8. ASSUME Safe(r) PROVE Safe(r)'
    <3>1. ~Pushed(Running, r) /\ Told(Running, r)
      BY <1>2, <2>1 DEF Pushed, Told
    <3>2. /\ pushesOf(<<User>>, r) = 0 /\ callbacksOf(<<User>>, r) = 0
          /\ pushesOf(<<>>, r) = 0 /\ callbacksOf(<<>>, r) = 0
      BY <1>4, <2>1, <2>2, CountsOfNone DEF Calm
    <3>3. stack' # <<>> /\ Head(stack') = User
      BY <1>2, <1>4, <2>1, <2>2, LeavesStack
    <3>4. /\ ~OnTop("run_next") /\ (r \in Allocated' <=> r \in Allocated)
          /\ ~OnTop("run_next")' /\ ~OnTop("task")' /\ ~OnTop("connect_timeout")'
      BY <1>1, <2>1, <3>3 DEF OnTop, Running, Allocated, User, Handle
    <3>5. pushes(r)' + 0 = pushes(r) + 0 + 0 /\ calls(r)' + 1 = calls(r) + 0 + 0
      BY <1>2, <1>4, <2>1, <2>2, <3>1, <3>2, Balance
    <3>6. references(r)' = references(r) /\ told(r)' = told(r)
      <4>1. /\ references(r) = pushes(r) + holds(r) /\ references(r)' = pushes(r)' + holds(r)'
            /\ pushes(r) \in Nat /\ pushes(r)' \in Nat /\ calls(r) \in Nat /\ calls(r)' \in Nat
            /\ Len(outcome[r]) \in Nat
        BY <2>1, <2>6, Tally
      <4>2. holds(r)' = holds(r)
        BY <1>1 DEF holds
      <4>3. told(r) = calls(r) + Len(outcome[r]) /\ told(r)' = calls(r)' + (Len(outcome[r]) + 1)
        BY <2>5 DEF told
      <4>. QED
        BY <3>5, <4>1, <4>2, <4>3
    <3>7. Owned(r)'
      BY <1>1, <2>8, <3>4, <3>6 DEF Safe, Owned, Held
    <3>8. ToldOnce(r)'
      BY <1>1, <2>1, <2>8, <3>4, <3>6 DEF Safe, ToldOnce
    <3>. QED
      BY <3>7, <3>8 DEF Safe
  <2>. QED
    BY <2>6, <2>7, <2>8
<1>8. CASE ControlPush
  <2>. DEFINE h == OnPrev("CONTROL", "push", Running.data, Running.state)
  <2>1. Leaves(<<>>, <<h>>) /\ Running.fn = "push" /\ UNCHANGED outcome
    BY <1>8 DEF ControlPush, Returns, IsRunning
  <2>2. h = Handle("push", "LOGIC", Running.data, Running.state)
    BY Neighbours DEF OnPrev
  <2>3. /\ \A t : Pushed(h, t) <=> Pushed(Running, t)
        /\ \A t : ~Told(h, t) /\ ~Told(Running, t)
        /\ Queueable(h)
    BY <1>2, <2>1, <2>2 DEF Pushed, Told, Handle, Queueable, Whole, CalledOnly
  <2>. HIDE DEF h
  <2>4. /\ AnySeq(<<>>) /\ AnySeq(<<h>>) /\ Called(<<>>) /\ (\A i \in DOMAIN <<>> : Whole(<<>>[i]))
        /\ \A i \in DOMAIN <<h>> : Queueable(<<h>>[i])
    BY <2>3, AnyLiteral, PlainOnes
  <2>5. HandlersShape' /\ (stack' = <<>> \/ Head(stack').fn = "close_rest")
    BY <1>2, <2>1, <2>4, LeavesStack DEF HandlersShape
  <2>6. Shape'
    BY <1>3, <2>1, <2>5 DEF Shape
  <2>7. ASSUME NEW t \in Tasks, Safe(t) PROVE Safe(t)'
    <3>1. /\ pushesOf(<<>>, t) = 0 /\ callbacksOf(<<>>, t) = 0
          /\ pushesOf(<<h>>, t) = (IF Pushed(Running, t) THEN 1 ELSE 0)
          /\ callbacksOf(<<h>>, t) = 0
      BY <2>3, CountsOfOne, CountsOfNone, AnyLiteral
    <3>2. PICK p \in {0, 1} : p = 1 <=> Pushed(Running, t)
      OBVIOUS
    <3>3. pushesOf(<<h>>, t) = p
      BY <3>1, <3>2
    <3>4. pushes(t)' + p = pushes(t) + 0 + p /\ calls(t)' + 0 = calls(t) + 0 + 0
      BY <1>2, <2>1, <2>3, <2>4, <3>1, <3>2, <3>3, Balance
    <3>5. references(t)' = references(t) /\ (t \in Requests => told(t)' = told(t))
      <4>1. /\ references(t) = pushes(t) + holds(t) /\ references(t)' = pushes(t)' + holds(t)'
            /\ pushes(t) \in Nat /\ pushes(t)' \in Nat /\ calls(t) \in Nat /\ calls(t)' \in Nat
        BY <2>6, Tally
      <4>2. holds(t)' = holds(t)
        BY <1>1 DEF holds
      <4>3. pushes(t)' = pushes(t) /\ calls(t)' = calls(t)
        BY <3>4, <4>1
      <4>. QED
        BY <2>1, <4>1, <4>2, <4>3 DEF told
    <3>6. /\ ~OnTop("run_next") /\ (t \in Allocated' <=> t \in Allocated)
          /\ ~OnTop("run_next")' /\ ~OnTop("task")' /\ ~OnTop("connect_timeout")'
      BY <1>1, <1>2, <2>5 DEF OnTop, Running, Allocated
    <3>. QED
      BY <1>1, <2>7, <3>5, <3>6 DEF Safe, Owned, ToldOnce, Held
  <2>. QED
    BY <2>6, <2>7
<1>. QED
  BY <1>5, <1>6, <1>7, <1>8

-----------------------------------------------------------------------------
(* The logic layer: the steps that hand no task over.                      *)

\* What is only called is on top of the stack when it runs.
LEMMA CalledIsOnTop ==
  ASSUME Shape, NEW fn \in CalledOnly, IsRunning(fn, "LOGIC")
  PROVE  OnTop(fn) /\ Running = Head(stack) /\ Runs
<1>1. queue # <<>> => Queueable(Head(queue))
  <2>1. queue # <<>> => /\ Head(queue) = queue[1] /\ Len(queue) \in Nat /\ Len(queue) > 0
                        /\ DOMAIN queue = 1..Len(queue)
    BY AnySeqParts DEF Shape
  <2>2. queue # <<>> => 1 \in DOMAIN queue
    BY <2>1
  <2>. QED
    BY <2>1, <2>2 DEF Shape
<1>. QED
  BY <1>1 DEF IsRunning, OnTop, Running, Runs, Queueable

\* A coroutine that is resumed is of a task the layer holds.
LEMMA ResumedIsHeld ==
  ASSUME Shape, IsRunning("task", "LOGIC"), NEW t, t = Running.data.task, Safe(t)
  PROVE  Held(t)
<1>1. OnTop("task") /\ Running = Head(stack)
  BY CalledIsOnTop DEF CalledOnly
<1>. QED
  BY <1>1 DEF Safe, Owned

LEMMA CountedInRange ==
  ASSUME NEW s, AnySeq(s), NEW t
  PROVE  /\ countIn(s, t) \in Nat
         /\ t \in Range(s) <=> countIn(s, t) > 0
<1>1. countIn(s, t) \in Nat
  BY CountsAdd
<1>2. ASSUME t \in Range(s) PROVE countIn(s, t) # 0
  <2>. DEFINE I == {i \in DOMAIN s : s[i] = t}
  <2>1. I # {}
    BY <1>2 DEF Range
  <2>2. I \subseteq 1..Len(s) /\ IsFiniteSet(1..Len(s))
    <3>1. Len(s) \in Nat /\ DOMAIN s = 1..Len(s)
      BY AnySeqParts
    <3>. QED
      BY <3>1, FS_Interval
  <2>3. IsFiniteSet(I)
    BY <2>2, FS_Subset
  <2>4. countIn(s, t) = Cardinality(I)
    BY DEF countIn
  <2>. HIDE DEF I
  <2>. QED
    BY <2>1, <2>3, <2>4, FS_EmptySet
<1>3. t \notin Range(s) => countIn(s, t) = 0
  BY CountsOfNone
<1>. QED
  BY <1>1, <1>2, <1>3

\* h resumes a coroutine, or goes on with the layer.
Inner(h) ==
  /\ h.layer = "LOGIC" /\ h.fn \in {"task", "run_next", "received", "close_rest"}
  /\ \A t \in Tasks : Resumable(h, t)

LEMMA InnerStep ==
  ASSUME Shape, UNCHANGED <<netVars, codecVars, appVars>>,
         Runs, Running.layer = "LOGIC", Running.fn # "run_next",
         Running.fn = "push" => Running.state # "OK",
         NEW direct, NEW queued, AnySeq(direct), AllPlain(queued), Leaves(direct, queued),
         Called(direct), \A i \in DOMAIN direct : direct[i].layer = "LOGIC"
                                                  /\ direct[i].fn \in {"task", "run_next", "received", "close_rest"},
         direct # <<>> => Inner(direct[1]),
         UNCHANGED <<q0_tasks_queue, q12_tasks_queue, current_q0_task>>,
         NEW u \in Tasks, NEW position \in {"START", "SENDING", "WAITING", "RETRY"},
         cs' = cs \/ (cs' = [cs EXCEPT ![u] = position] /\ (Safe(u) => Held(u))),
         timers' \subseteq timers \cup {"keepalive_event"}
           \/ (timers' \subseteq timers \cup {"keepalive_event", u} /\ (Safe(u) => Held(u)))
  PROVE  Shape' /\ \A t \in Tasks : Safe(t) => Safe(t)'
<1>. USE DEF netVars, codecVars, appVars
<1>1. \A i \in DOMAIN direct : Whole(direct[i])
  BY DEF Whole
<1>2. AnySeq(queued) /\ \A i \in DOMAIN queued : Queueable(queued[i])
  BY DEF AllPlain, Plain
<1>3. HandlersShape'
  BY <1>1, <1>2, LeavesStack DEF HandlersShape
<1>4. cs' \in [Tasks -> Positions]
  BY DEF Shape, Positions
<1>5. Shape'
  BY <1>3, <1>4 DEF Shape, HandlersShape
<1>6. "keepalive_event" \notin Tasks
  BY ClientAssumptions, RequestsAreTasks DEF OwnTasks
<1>7. ASSUME NEW t \in Tasks, Safe(t) PROVE Safe(t)'
  <2>1. ~Pushed(Running, t) /\ ~Told(Running, t)
    BY DEF Pushed, Told
  <2>2. Calm(direct, t)
    BY DEF Calm, Pushed, Told
  <2>3. Calm(queued, t)
    BY DEF AllPlain, Plain, Calm, Pushed, Told
  <2>4. direct # <<>> => Resumable(direct[1], t)
    BY DEF Inner
  <2>5. t \in timers' => t \in timers \/ Held(t)
    BY <1>6, <1>7
  <2>6. cs'[t] = cs[t] \/ (Held(t) /\ cs'[t] \notin {"NEW", "FREE"})
    BY <1>7 DEF Shape
  <2>. QED
    BY <1>2, <1>7, <2>1, <2>2, <2>3, <2>4, <2>5, <2>6, QuietStep
<1>. QED
  BY <1>5, <1>7

\* What the coroutines call and queue.
LEMMA InnerHandlers ==
  /\ Inner(RunNext)
  /\ \A t, type : Plain(Send(t, type))
  /\ \A state : Plain(OnNext("LOGIC", "connect", NULL, state))
  /\ \A state : Plain(OnNext("LOGIC", "close_externally", NULL, state))
  /\ \A state : \A fn \in {"init", "close"} : Plain(OnPrev("LOGIC", fn, NULL, state))
  /\ \A d : Plain(Puback(d))
  /\ \A d, state : Inner(RecvHandle(d, state))
  /\ \A state : \A fn \in {"close_externally", "connect"} : Plain(Handle(fn, "LOGIC", NULL, state))
<1>1. Inner(RunNext) /\ \A d, state : Inner(RecvHandle(d, state))
  BY DEF RunNext, RecvHandle, Handle, Inner, Resumable
<1>2. \A t, type : Plain(Send(t, type))
  BY Neighbours DEF Send, OnPrev, Handle, Plain, Queueable, Whole
<1>3. \A d : Plain(Puback(d))
  BY Neighbours DEF Puback, OnPrev, Handle, Plain, Queueable, Whole
<1>4. \A state : \A fn \in {"connect", "close_externally"} : Plain(OnNext("LOGIC", fn, NULL, state))
  BY Neighbours DEF OnNext, Handle, Plain, Queueable, Whole, CalledOnly
<1>5. \A state : \A fn \in {"init", "close"} : Plain(OnPrev("LOGIC", fn, NULL, state))
  BY Neighbours DEF OnPrev, Handle, Plain, Queueable, Whole, CalledOnly
<1>6. \A state : \A fn \in {"close_externally", "connect"} : Plain(Handle(fn, "LOGIC", NULL, state))
  BY DEF Handle, Plain, Queueable, Whole, CalledOnly
<1>. QED
  BY <1>1, <1>2, <1>3, <1>4, <1>5, <1>6

\* The coroutine of u is resumed and moves on.
Moved(u, position, queued) ==
  /\ \/ IsRunning("task", "LOGIC") /\ Running.data.task = u
     \/ IsRunning("connect_timeout", "LOGIC") /\ u = "CONNECT"
  /\ MovesTo(u, position)
  /\ timers' \subseteq timers \cup {"keepalive_event", u}
  /\ UNCHANGED <<q0_tasks_queue, q12_tasks_queue, current_q0_task>>
  /\ AllPlain(queued)
  /\ Leaves(<<>>, queued) \/ Leaves(<<RunNext>>, queued)

LEMMA MovedStep ==
  ASSUME Shape, UNCHANGED <<netVars, codecVars, appVars>>,
         NEW u \in Tasks, NEW position \in {"START", "SENDING", "WAITING", "RETRY"}, NEW queued,
         Moved(u, position, queued)
  PROVE  Shape' /\ \A t \in Tasks : Safe(t) => Safe(t)'
<1>1. /\ Runs /\ Running.layer = "LOGIC" /\ Running.fn \notin {"run_next", "push"}
      /\ AllPlain(queued) /\ MovesTo(u, position)
      /\ UNCHANGED <<q0_tasks_queue, q12_tasks_queue, current_q0_task>>
      /\ timers' \subseteq timers \cup {"keepalive_event", u}
  BY DEF Moved, IsRunning, Runs
<1>2. ASSUME Safe(u) PROVE Held(u)
  <2>1. CASE IsRunning("task", "LOGIC") /\ Running.data.task = u
    BY <1>2, <2>1, ResumedIsHeld
  <2>2. CASE IsRunning("connect_timeout", "LOGIC") /\ u = "CONNECT"
    BY <1>2, <2>2, CalledIsOnTop DEF CalledOnly, Safe, Owned
  <2>. QED
    BY <2>1, <2>2 DEF Moved
<1>3. cs' = [cs EXCEPT ![u] = position]
  BY <1>1 DEF MovesTo
<1>4. CASE Leaves(<<>>, queued)
  <2>1. AnySeq(<<>>) /\ Called(<<>>) /\ DOMAIN <<>> = {}
    BY AnyLiteral, PlainOnes
  <2>. QED
    BY <1>1, <1>2, <1>3, <1>4, <2>1, InnerStep
<1>5. CASE Leaves(<<RunNext>>, queued)
  <2>1. /\ AnySeq(<<RunNext>>) /\ Called(<<RunNext>>) /\ <<RunNext>>[1] = RunNext
        /\ \A i \in DOMAIN <<RunNext>> : <<RunNext>>[i] = RunNext
    BY AnyLiteral, PlainOnes
  <2>2. Inner(RunNext) /\ RunNext.layer = "LOGIC" /\ RunNext.fn = "run_next"
    BY InnerHandlers DEF RunNext, Handle
  <2>3. \A i \in DOMAIN <<RunNext>> :
          /\ <<RunNext>>[i].layer = "LOGIC"
          /\ <<RunNext>>[i].fn \in {"task", "run_next", "received", "close_rest"}
    BY <2>1, <2>2
  <2>. QED
    BY <1>1, <1>2, <1>3, <1>5, <2>1, <2>2, <2>3, InnerStep
<1>. QED
  BY <1>4, <1>5 DEF Moved

LEMMA CoroutineStep ==
  ASSUME Shape, UNCHANGED <<netVars, codecVars, appVars>>,
         \/ ConnectTaskDropped \/ ConnectTaskStart \/ ConnectTaskSent \/ ConnectTaskNotSent
         \/ ConnectTaskAccepted \/ ConnectTaskRefused \/ ConnectTimesOut
         \/ KeepaliveTaskStart \/ KeepaliveTaskSent \/ KeepaliveTaskTimesOut \/ KeepaliveTaskAnswered
         \/ ShutdownTaskStart \/ ShutdownTaskSent
         \/ PublishQ0Start \/ PublishQ1Dropped \/ PublishQ1Sends \/ PublishQ1Sent
         \/ SubscribeSends \/ SubscribeSent \/ SubscribeNotSent
  PROVE  Shape' /\ \A t \in Tasks : Safe(t) => Safe(t)'
<1>. USE DEF Returns, Resumes, Sends, SetsTimeout, CancelsTimeout, timersUnchanged,
             queuesUnchanged, sendingUnchanged, onlyMoves
<1>1. /\ AllPlain(<<>>) /\ \A t, type : AllPlain(<<Send(t, type)>>)
      /\ \A state : AllPlain(<<OnNext("LOGIC", "connect", NULL, state)>>)
      /\ \A state : AllPlain(<<OnPrev("LOGIC", "close", NULL, state)>>)
  BY InnerHandlers, PlainOnes
<1>2. CASE ConnectTaskDropped
  <2>1. Moved("CONNECT", "START", <<>>)
    BY <1>1, <1>2 DEF ConnectTaskDropped, Moved
  <2>. QED
    BY <2>1, MovedStep, RequestsAreTasks DEF OwnTasks
<1>3. CASE ConnectTaskStart
  <2>1. Moved("CONNECT", "SENDING", <<Send("CONNECT", "CONNECT")>>)
    BY <1>1, <1>3 DEF ConnectTaskStart, Moved
  <2>. QED
    BY <2>1, MovedStep, RequestsAreTasks DEF OwnTasks
<1>4. CASE ConnectTaskSent
  <2>1. Moved("CONNECT", "WAITING", <<>>)
    BY <1>1, <1>4 DEF ConnectTaskSent, Moved
  <2>. QED
    BY <2>1, MovedStep, RequestsAreTasks DEF OwnTasks
<1>5. CASE ConnectTaskNotSent \/ ConnectTaskAccepted \/ ConnectTaskRefused \/ ConnectTimesOut
  <2>1. \E state : Moved("CONNECT", "START", <<OnNext("LOGIC", "connect", NULL, state)>>)
    <3>1. CASE ConnectTaskNotSent
      BY <1>1, <3>1 DEF ConnectTaskNotSent, Moved
    <3>2. CASE ConnectTaskAccepted
      BY <1>1, <3>2 DEF ConnectTaskAccepted, Moved
    <3>3. CASE ConnectTaskRefused
      BY <1>1, <3>3 DEF ConnectTaskRefused, Moved
    <3>4. CASE ConnectTimesOut
      BY <1>1, <3>4 DEF ConnectTimesOut, Moved
    <3>. QED
      BY <1>5, <3>1, <3>2, <3>3, <3>4
  <2>. QED
    BY <2>1, MovedStep, RequestsAreTasks DEF OwnTasks
<1>6. CASE KeepaliveTaskStart
  <2>1. Moved("KEEPALIVE", "SENDING", <<Send("KEEPALIVE", "PINGREQ")>>)
    BY <1>1, <1>6 DEF KeepaliveTaskStart, Moved
  <2>. QED
    BY <2>1, MovedStep, RequestsAreTasks DEF OwnTasks
<1>7. CASE KeepaliveTaskSent
  <2>1. Moved("KEEPALIVE", "WAITING", <<>>)
    BY <1>1, <1>7 DEF KeepaliveTaskSent, Moved
  <2>. QED
    BY <2>1, MovedStep, RequestsAreTasks DEF OwnTasks
<1>8. CASE KeepaliveTaskTimesOut
  <2>1. Moved("KEEPALIVE", "START", <<OnPrev("LOGIC", "close", NULL, "TIMEOUT")>>)
    BY <1>1, <1>8 DEF KeepaliveTaskTimesOut, Moved
  <2>. QED
    BY <2>1, MovedStep, RequestsAreTasks DEF OwnTasks
<1>9. CASE KeepaliveTaskAnswered
  <2>1. Moved("KEEPALIVE", "START", <<>>)
    BY <1>1, <1>9 DEF KeepaliveTaskAnswered, Moved
  <2>. QED
    BY <2>1, MovedStep, RequestsAreTasks DEF OwnTasks
<1>10. CASE ShutdownTaskStart
  <2>1. Moved("SHUTDOWN", "SENDING", <<Send("SHUTDOWN", "DISCONNECT")>>)
    BY <1>1, <1>10 DEF ShutdownTaskStart, Moved
  <2>. QED
    BY <2>1, MovedStep, RequestsAreTasks DEF OwnTasks
<1>11. CASE ShutdownTaskSent
  <2>1. Moved("SHUTDOWN", "START", <<OnPrev("LOGIC", "close", NULL, "OK")>>)
    BY <1>1, <1>11 DEF ShutdownTaskSent, Moved
  <2>. QED
    BY <2>1, MovedStep, RequestsAreTasks DEF OwnTasks
<1>12. CASE PublishQ0Start
  <2>1. PICK t \in Q0Publishes : Moved(t, "SENDING", <<Send(t, "PUBLISH")>>)
    BY <1>1, <1>12 DEF PublishQ0Start, Moved
  <2>. QED
    BY <2>1, MovedStep DEF Tasks, Q0Tasks
<1>13. CASE PublishQ1Dropped
  <2>1. PICK t \in Q1Publishes : Moved(t, "START", <<>>)
    BY <1>1, <1>13 DEF PublishQ1Dropped, Moved
  <2>. QED
    BY <2>1, MovedStep DEF Tasks, Q1Tasks
<1>14. CASE PublishQ1Sends
  <2>1. PICK t \in Q1Publishes : Moved(t, "SENDING", <<Send(t, "PUBLISH")>>)
    BY <1>1, <1>14 DEF PublishQ1Sends, Moved
  <2>. QED
    BY <2>1, MovedStep DEF Tasks, Q1Tasks
<1>15. CASE PublishQ1Sent
  <2>1. PICK t \in Q1Publishes : Moved(t, "WAITING", <<>>)
    BY <1>1, <1>15 DEF PublishQ1Sent, Moved
  <2>. QED
    BY <2>1, MovedStep DEF Tasks, Q1Tasks
<1>16. CASE SubscribeSends
  <2>1. PICK t \in Subscribes : Moved(t, "SENDING", <<Send(t, "SUBSCRIBE")>>)
    BY <1>1, <1>16 DEF SubscribeSends, Moved
  <2>. QED
    BY <2>1, MovedStep DEF Tasks, Q1Tasks
<1>17. CASE SubscribeSent \/ SubscribeNotSent
  <2>1. \E t \in Subscribes : Moved(t, "WAITING", <<>>) \/ Moved(t, "RETRY", <<>>)
    BY <1>1, <1>17 DEF SubscribeSent, SubscribeNotSent, Moved
  <2>. QED
    BY <2>1, MovedStep DEF Tasks, Q1Tasks
<1>. QED
  BY <1>2, <1>3, <1>4, <1>5, <1>6, <1>7, <1>8, <1>9, <1>10, <1>11, <1>12, <1>13, <1>14,
     <1>15, <1>16, <1>17

\* A handler of the layer that moves no coroutine: it may resume one.
Passed(direct, queued) ==
  /\ Runs /\ Running.layer = "LOGIC" /\ Running.fn # "run_next"
  /\ Running.fn = "push" => Running.state # "OK"
  /\ UNCHANGED <<cs, q0_tasks_queue, q12_tasks_queue, current_q0_task>>
  /\ timers' \subseteq timers
  /\ direct = <<>> \/ \E h : direct = <<h>> /\ Inner(h)
  /\ AllPlain(queued)
  /\ Leaves(direct, queued)

LEMMA PassedStep ==
  ASSUME Shape, UNCHANGED <<netVars, codecVars, appVars>>,
         NEW direct, NEW queued, Passed(direct, queued)
  PROVE  Shape' /\ \A t \in Tasks : Safe(t) => Safe(t)'
<1>1. "CONNECT" \in Tasks
  BY RequestsAreTasks DEF OwnTasks
<1>2. /\ Runs /\ Running.layer = "LOGIC" /\ Running.fn # "run_next"
      /\ Running.fn = "push" => Running.state # "OK"
      /\ UNCHANGED <<cs, q0_tasks_queue, q12_tasks_queue, current_q0_task>>
      /\ timers' \subseteq timers
      /\ AllPlain(queued) /\ Leaves(direct, queued)
  BY DEF Passed
<1>3. /\ AnySeq(direct) /\ Called(direct)
      /\ \A i \in DOMAIN direct : direct[i].layer = "LOGIC"
                                  /\ direct[i].fn \in {"task", "run_next", "received", "close_rest"}
      /\ direct # <<>> => Inner(direct[1])
  <2>1. CASE direct = <<>>
    BY <2>1, AnyLiteral, PlainOnes
  <2>2. CASE \E h : direct = <<h>> /\ Inner(h)
    <3>1. PICK h : direct = <<h>> /\ Inner(h)
      BY <2>2
    <3>2. /\ AnySeq(<<h>>) /\ Called(<<h>>) /\ <<h>>[1] = h
          /\ \A i \in DOMAIN <<h>> : <<h>>[i] = h
      BY AnyLiteral, PlainOnes
    <3>. QED
      BY <3>1, <3>2 DEF Inner
  <2>. QED
    BY <2>1, <2>2 DEF Passed
<1>. QED
  BY <1>1, <1>2, <1>3, InnerStep

\* The tasks a message may be for are held; so may their coroutines be resumed.
LEMMA OwnersAreHeld ==
  ASSUME Shape, NEW id, NEW t \in OwnersOf(id)
  PROVE  Held(t) /\ \A state, msg : Inner(TaskHandle(t, state, msg))
<1>1. Held(t)
  <2>1. CASE t \in Current
    BY <2>1 DEF Current, Held
  <2>2. CASE t \in Range(q12_tasks_queue)
    <3>1. AnySeq(q12_tasks_queue)
      BY IsAnySeq DEF Shape
    <3>. QED
      BY <2>2, <3>1, CountedInRange DEF Held
  <2>. QED
    BY <2>1, <2>2 DEF OwnersOf
<1>2. \A state, msg : Inner(TaskHandle(t, state, msg))
  BY <1>1 DEF TaskHandle, Handle, Inner, Resumable
<1>. QED
  BY <1>1, <1>2

Passes ==
  \/ \E direct, queued : Passed(direct, queued)
  \/ /\ UNCHANGED <<stack, queue, cs, q0_tasks_queue, q12_tasks_queue, current_q0_task>>
     /\ UNCHANGED timers

LEMMA PassesStep ==
  ASSUME Shape, UNCHANGED <<netVars, codecVars, appVars>>,
         \/ PublishQ0Dropped \/ LogicPushConfirms \/ LogicPushIgnores \/ LogicPull
         \/ LogicPullPublish \/ LogicPullIgnores \/ PubackSent \/ LogicInit \/ LogicClose
         \/ LogicCloseExternallyConnecting \/ LogicCloseExternallyAgain \/ SubscribeAborts
         \/ (LogicConnect /\ Running.state # "OK")
  PROVE  Shape' /\ \A t \in Tasks : Safe(t) => Safe(t)'
<1>. USE DEF Returns, timersUnchanged, queuesUnchanged, sendingUnchanged, onlyMoves, receivesOnly,
             IsRunning, Runs
<1>1. /\ AllPlain(<<>>)
      /\ \A state : AllPlain(<<OnNext("LOGIC", "connect", NULL, state)>>)
      /\ \A state : AllPlain(<<OnNext("LOGIC", "close_externally", NULL, state)>>)
      /\ \A state : \A fn \in {"init", "close"} : AllPlain(<<OnPrev("LOGIC", fn, NULL, state)>>)
      /\ \A state : \A fn \in {"close_externally", "connect"} : AllPlain(<<Handle(fn, "LOGIC", NULL, state)>>)
      /\ \A d : AllPlain(<<Puback(d)>>)
  BY InnerHandlers, PlainOnes
<1>2. ASSUME NEW d PROVE AllPlain(TopicHandler(d))
  <2>1. \A data : Plain(Handle("message", "CONTROL", data, "OK"))
    BY DEF Handle, Plain, Queueable, Whole
  <2>2. TopicHandler(d) = <<>>
        \/ \E data : TopicHandler(d) = <<Handle("message", "CONTROL", data, "OK")>>
    BY DEF TopicHandler
  <2>. QED
    BY <1>1, <2>1, <2>2, PlainOnes
<1>3. ASSUME \/ PublishQ0Dropped \/ LogicPushIgnores \/ LogicPullIgnores
      PROVE  Passed(<<>>, <<>>)
  BY <1>1, <1>3 DEF Passed, PublishQ0Dropped, LogicPushIgnores, LogicPullIgnores
<1>4. ASSUME LogicInit PROVE Passed(<<>>, <<OnPrev("LOGIC", "init", NULL, "OK")>>)
  BY <1>1, <1>4 DEF Passed, LogicInit
<1>5. ASSUME LogicClose
      PROVE  \E queued : Passed(<<>>, queued)
  BY <1>1, <1>5 DEF Passed, LogicClose
<1>6. ASSUME LogicCloseExternallyConnecting \/ LogicCloseExternallyAgain
             \/ (LogicConnect /\ Running.state # "OK")
      PROVE  \E queued : Passed(<<>>, queued)
  BY <1>1, <1>6 DEF Passed, LogicCloseExternallyConnecting, LogicCloseExternallyAgain, LogicConnect
<1>7. ASSUME LogicPushConfirms PROVE \E direct : Passed(direct, <<>>)
  <2>1. \A h \in Confirms(Running.data) : Inner(h)
    <3>1. \A id : \A t \in OwnersOf(id) : \A state : Inner(TaskHandle(t, state, NULL))
      BY OwnersAreHeld
    <3>2. ASSUME NEW h \in Confirms(Running.data)
          PROVE  \/ \E d, state : h = RecvHandle(d, state)
                 \/ \E id : \E t \in OwnersOf(id) : \E state : h = TaskHandle(t, state, NULL)
      BY DEF Confirms
    <3>. QED
      BY <3>1, <3>2, InnerHandlers
  <2>. QED
    BY <1>1, <1>7, <2>1 DEF Passed, LogicPushConfirms
<1>8. ASSUME LogicPull PROVE \E direct : Passed(direct, <<>>)
  <2>1. \A t \in OwnersOf(Running.data.id) : Inner(TaskHandle(t, "OK", Running.data))
    BY OwnersAreHeld
  <2>. QED
    BY <1>1, <1>8, <2>1 DEF Passed, LogicPull
<1>9. ASSUME LogicPullPublish
      PROVE  (\E queued : Passed(<<>>, queued))
             \/ (UNCHANGED <<stack, queue, cs, q0_tasks_queue, q12_tasks_queue, current_q0_task>>
                 /\ UNCHANGED timers)
  BY <1>1, <1>2, <1>9 DEF Passed, LogicPullPublish, OnPublish, Aborts
<1>10. ASSUME PubackSent PROVE \E queued : Passed(<<>>, queued)
  BY <1>1, <1>2, <1>10 DEF Passed, PubackSent, PubackWritten, PubackNotWritten
<1>11. ASSUME SubscribeAborts
       PROVE  UNCHANGED <<stack, queue, cs, q0_tasks_queue, q12_tasks_queue, current_q0_task>>
              /\ UNCHANGED timers
  BY <1>11 DEF SubscribeAborts, Aborts
<1>12. Passes
  <2>1. CASE PublishQ0Dropped \/ LogicPushIgnores \/ LogicPullIgnores
    BY <1>3, <2>1 DEF Passes
  <2>2. CASE LogicInit
    BY <1>4, <2>2 DEF Passes
  <2>3. CASE LogicClose
    BY <1>5, <2>3 DEF Passes
  <2>4. CASE LogicCloseExternallyConnecting \/ LogicCloseExternallyAgain
             \/ (LogicConnect /\ Running.state # "OK")
    BY <1>6, <2>4 DEF Passes
  <2>5. CASE LogicPushConfirms
    BY <1>7, <2>5 DEF Passes
  <2>6. CASE LogicPull
    BY <1>8, <2>6 DEF Passes
  <2>7. CASE LogicPullPublish
    BY <1>9, <2>7 DEF Passes
  <2>8. CASE PubackSent
    BY <1>10, <2>8 DEF Passes
  <2>9. CASE SubscribeAborts
    BY <1>11, <2>9 DEF Passes
  <2>. QED
    BY <2>1, <2>2, <2>3, <2>4, <2>5, <2>6, <2>7, <2>8, <2>9, Zenon
<1>13. ASSUME UNCHANGED <<stack, queue, cs, q0_tasks_queue, q12_tasks_queue, current_q0_task>>,
              UNCHANGED timers
       PROVE  Shape' /\ \A t \in Tasks : Safe(t) => Safe(t)'
  <2>1. UNCHANGED <<outcome, on_socket, task_queue>>
    BY DEF appVars, netVars, codecVars
  <2>2. HandlersShape' /\ \A t \in Tasks : Safe(t) => Safe(t)'
    BY <1>13, <2>1, StillStep
  <2>. QED
    BY <1>13, <2>1, <2>2 DEF Shape, HandlersShape
<1>. QED
  BY <1>12, <1>13, PassedStep DEF Passes

\* iotc_mqtt_logic_layer_close_externally tells the current task.
LEMMA CloseExternallyStep ==
  ASSUME Shape, UNCHANGED <<netVars, codecVars, appVars>>, LogicCloseExternally
  PROVE  Shape' /\ \A t \in Tasks : Safe(t) => Safe(t)'
<1>. DEFINE n == Cardinality(Current)
            told_first == [i \in 1..n |-> TaskHandle(current_q0_task, "TIMEOUT", NULL)]
            rest == Handle("close_rest", "LOGIC", NULL, Running.state)
            direct == told_first \o <<rest>>
<1>1. /\ Runs /\ Running.layer = "LOGIC" /\ Running.fn = "close_externally"
      /\ Leaves(direct, <<>>)
      /\ UNCHANGED <<cs, q0_tasks_queue, q12_tasks_queue, current_q0_task>>
      /\ timers' \subseteq timers
  BY DEF LogicCloseExternally, IsRunning, Runs, Returns, onlyMoves, queuesUnchanged, sendingUnchanged
<1>2. n = 0 \/ (n = 1 /\ current_q0_task # NULL)
  <2>1. Current = {} \/ (Current = {current_q0_task} /\ current_q0_task # NULL)
    BY DEF Current
  <2>2. Cardinality({}) = 0 /\ Cardinality({current_q0_task}) = 1
    BY FS_EmptySet, FS_Singleton
  <2>. QED
    BY <2>1, <2>2
<1>3. /\ AnySeq(told_first) /\ Len(told_first) = n
      /\ \A i \in 1..n : told_first[i] = TaskHandle(current_q0_task, "TIMEOUT", NULL)
  <2>1. n \in Nat
    BY <1>2
  <2>. HIDE DEF n
  <2>2. told_first \in Seq({TaskHandle(current_q0_task, "TIMEOUT", NULL)}) /\ Len(told_first) = n
    BY <2>1
  <2>. QED
    BY <2>1, <2>2, IsAnySeq
<1>. HIDE DEF n, told_first
<1>4. /\ AnySeq(direct) /\ DOMAIN direct = 1..n + 1
      /\ \A i \in 1..n + 1 :
           direct[i] = IF i <= n THEN told_first[i] ELSE <<rest>>[i - n]
  BY <1>3, AnyConcat, AnyLiteral
<1>5. \A i \in DOMAIN direct :
        \/ direct[i] = rest
        \/ i = 1 /\ n = 1 /\ direct[i] = TaskHandle(current_q0_task, "TIMEOUT", NULL)
  <2>1. <<rest>>[1] = rest
    BY AnyLiteral
  <2>2. CASE n = 0
    BY <1>4, <2>1, <2>2
  <2>3. CASE n = 1
    BY <1>3, <1>4, <2>1, <2>3
  <2>. QED
    BY <1>2, <2>2, <2>3
<1>6. /\ rest.fn = "close_rest" /\ rest.layer = "LOGIC" /\ Inner(rest)
      /\ Inner(TaskHandle(current_q0_task, "TIMEOUT", NULL))
      /\ TaskHandle(current_q0_task, "TIMEOUT", NULL).fn = "task"
      /\ TaskHandle(current_q0_task, "TIMEOUT", NULL).layer = "LOGIC"
  BY DEF Handle, TaskHandle, Inner, Resumable, Held
<1>7. direct # <<>> => 1 \in DOMAIN direct
  BY <1>2, <1>4
<1>. HIDE DEF direct, rest
<1>8. /\ Called(direct) /\ (direct # <<>> => Inner(direct[1]))
      /\ \A i \in DOMAIN direct : direct[i].layer = "LOGIC"
                                  /\ direct[i].fn \in {"task", "run_next", "received", "close_rest"}
  BY <1>5, <1>6, <1>7 DEF Called
<1>9. AllPlain(<<>>) /\ "CONNECT" \in Tasks
  BY PlainOnes, RequestsAreTasks DEF OwnTasks
<1>. QED
  BY <1>1, <1>4, <1>8, <1>9, InnerStep

-----------------------------------------------------------------------------
(* The steps that give a task to the layer, or take it away.               *)

\* How the references to t and its reports change when a handler of the layer runs.
LEMMA Reckoning ==
  ASSUME Shape, Shape', Runs, Running.layer = "LOGIC", NEW direct, NEW queued,
         AnySeq(direct), AnySeq(queued), Leaves(direct, queued), UNCHANGED outcome,
         NEW t, NEW p \in {0, 1}, p = 1 <=> Pushed(Running, t)
  PROVE  /\ references(t)' + p + holds(t)
              = references(t) + pushesOf(direct, t) + pushesOf(queued, t) + holds(t)'
         /\ t \in Requests =>
              told(t)' = told(t) + callbacksOf(direct, t) + callbacksOf(queued, t)
         /\ references(t) \in Nat /\ references(t)' \in Nat
         /\ holds(t) \in Nat /\ holds(t)' \in Nat
         /\ t \in Requests => told(t) \in Nat /\ told(t)' \in Nat
<1>1. ~Told(Running, t)
  BY DEF Told
<1>2. /\ pushes(t)' + p = pushes(t) + pushesOf(direct, t) + pushesOf(queued, t)
      /\ calls(t)' + 0 = calls(t) + callbacksOf(direct, t) + callbacksOf(queued, t)
  BY <1>1, Balance
<1>3. /\ pushesOf(direct, t) \in Nat /\ pushesOf(queued, t) \in Nat
      /\ callbacksOf(direct, t) \in Nat /\ callbacksOf(queued, t) \in Nat
  BY PushesAdd, CallbacksAdd
<1>4. /\ references(t) = pushes(t) + holds(t) /\ references(t)' = pushes(t)' + holds(t)'
      /\ pushes(t) \in Nat /\ pushes(t)' \in Nat /\ holds(t) \in Nat /\ holds(t)' \in Nat
      /\ calls(t) \in Nat /\ calls(t)' \in Nat
      /\ t \in Requests => Len(outcome[t]) \in Nat /\ Len(outcome[t])' \in Nat
  BY Tally
<1>5. /\ references(t)' + p + holds(t)
           = references(t) + pushesOf(direct, t) + pushesOf(queued, t) + holds(t)'
      /\ references(t) \in Nat /\ references(t)' \in Nat
  <2>. DEFINE r == references(t) r1 == references(t)' b == pushes(t) b1 == pushes(t)'
              h == holds(t) h1 == holds(t)' d == pushesOf(direct, t) q == pushesOf(queued, t)
  <2>1. /\ r = b + h /\ r1 = b1 + h1 /\ b1 + p = b + d + q
        /\ b \in Nat /\ b1 \in Nat /\ h \in Nat /\ h1 \in Nat /\ d \in Nat /\ q \in Nat
    BY <1>2, <1>3, <1>4
  <2>. HIDE DEF r, r1, b, b1, h, h1, d, q
  <2>2. r1 + p + h = r + d + q + h1 /\ r \in Nat /\ r1 \in Nat
    BY <2>1
  <2>. QED
    BY <2>2 DEF r, r1, h, h1, d, q
<1>6. ASSUME t \in Requests
      PROVE  /\ told(t)' = told(t) + callbacksOf(direct, t) + callbacksOf(queued, t)
             /\ told(t) \in Nat /\ told(t)' \in Nat
  <2>1. Len(outcome[t])' = Len(outcome[t]) /\ Len(outcome[t]) \in Nat
    BY <1>4, <1>6
  <2>. DEFINE m == calls(t) m1 == calls(t)' l == Len(outcome[t])
              d == callbacksOf(direct, t) q == callbacksOf(queued, t)
  <2>2. /\ told(t) = m + l /\ told(t)' = m1 + l /\ m1 + 0 = m + d + q
        /\ m \in Nat /\ m1 \in Nat /\ l \in Nat /\ d \in Nat /\ q \in Nat
    BY <1>2, <1>3, <1>4, <2>1 DEF told
  <2>. HIDE DEF m, m1, l, d, q
  <2>3. m1 + l = m + l + d + q /\ m + l \in Nat /\ m1 + l \in Nat
    BY <2>2
  <2>. QED
    BY <2>2, <2>3 DEF m, d, q, l
<1>. QED
  BY <1>4, <1>5, <1>6

\* The layer lets go of t, or keeps it; nothing else happens to t.
LEMMA LetGoStep ==
  ASSUME Shape, Shape', Runs, Running.layer = "LOGIC",
         NEW direct, NEW queued, AnySeq(direct), AnySeq(queued), Leaves(direct, queued),
         UNCHANGED outcome, NEW t \in Tasks, Safe(t), ~Pushed(Running, t),
         Calm(direct, t), Calm(queued, t),
         \/ /\ holds(t) >= 1 /\ holds(t)' = 0 /\ cs'[t] = "FREE" /\ t \notin timers'
         \/ /\ holds(t)' = holds(t) /\ cs'[t] = cs[t]
            /\ t \in timers' => t \in timers
            /\ Held(t) => Held(t)'
            /\ ~(current_q0_task = t /\ OnTop("run_next")),
         direct # <<>> /\ direct[1].fn = "task" /\ direct[1].layer = "LOGIC"
           /\ direct[1].data.task = t => Held(t)',
         direct # <<>> => direct[1].fn # "connect_timeout"
  PROVE  Safe(t)'
<1>1. /\ pushesOf(direct, t) = 0 /\ pushesOf(queued, t) = 0
      /\ t \in Requests => callbacksOf(direct, t) = 0 /\ callbacksOf(queued, t) = 0
  BY CountsOfNone DEF Calm
<1>2. /\ references(t)' + 0 + holds(t) = references(t) + 0 + 0 + holds(t)'
      /\ references(t) \in Nat /\ references(t)' \in Nat /\ holds(t) \in Nat /\ holds(t)' \in Nat
      /\ t \in Requests => told(t)' = told(t) + 0 + 0 /\ told(t) \in Nat
  BY <1>1, Reckoning
<1>3. /\ direct = <<>> => stack' = <<>> \/ Head(stack').fn = "close_rest"
      /\ direct # <<>> => stack' # <<>> /\ Head(stack') = direct[1]
  BY LeavesStack
<1>4. ~OnTop("connect_timeout")'
  BY <1>3 DEF OnTop
<1>5. OnTop("task")' /\ (Head(stack).data.task = t)' => Held(t)'
  BY <1>3 DEF OnTop
<1>6. t \in Requests => told(t)' = told(t)
  BY <1>2
<1>7. CASE holds(t) >= 1 /\ holds(t)' = 0 /\ cs'[t] = "FREE" /\ t \notin timers'
  <2>1. t \notin Allocated'
    BY <1>7 DEF Allocated
  <2>2. references(t) = (IF t \in Allocated THEN 1 ELSE 0)
    BY DEF Safe, Owned
  <2>3. references(t)' = 0
    BY <1>2, <1>7, <2>2
  <2>4. Owned(t)'
    BY <1>4, <1>5, <1>7, <2>1, <2>3 DEF Owned
  <2>. QED
    BY <1>6, <1>7, <2>1, <2>4 DEF Safe, ToldOnce
<1>8. CASE /\ holds(t)' = holds(t) /\ cs'[t] = cs[t]
           /\ t \in timers' => t \in timers
           /\ Held(t) => Held(t)'
           /\ ~(current_q0_task = t /\ OnTop("run_next"))
  <2>1. t \in Allocated' <=> t \in Allocated
    BY <1>8 DEF Allocated
  <2>2. references(t)' = references(t)
    BY <1>2, <1>8
  <2>3. Owned(t)'
    BY <1>4, <1>5, <1>8, <2>1, <2>2 DEF Safe, Owned
  <2>. QED
    BY <1>4, <1>5, <1>6, <1>8, <2>1, <2>3 DEF Safe, ToldOnce
<1>. QED
  BY <1>7, <1>8

\* What is left of Shape when the handlers are in order.
LEMMA ShapeFollows ==
  ASSUME Shape, Runs, NEW direct, NEW queued, AnySeq(direct), AllPlain(queued),
         Leaves(direct, queued), Called(direct),
         \A i \in DOMAIN direct : Whole(direct[i]),
         UNCHANGED <<on_socket, task_queue, outcome>>,
         q0_tasks_queue' \in Seq(Q0Tasks), q12_tasks_queue' \in Seq(Q1Tasks),
         current_q0_task' \in Q0Tasks \cup {NULL}, cs' \in [Tasks -> Positions]
  PROVE  Shape'
<1>1. AnySeq(queued) /\ \A i \in DOMAIN queued : Queueable(queued[i])
  BY DEF AllPlain, Plain
<1>2. HandlersShape'
  BY <1>1, LeavesStack DEF HandlersShape
<1>. QED
  BY <1>2 DEF Shape, HandlersShape

LEMMA RunNextStep ==
  ASSUME Shape, UNCHANGED <<netVars, codecVars, appVars>>, RunNextQ0
  PROVE  Shape' /\ \A t \in Tasks : Safe(t) => Safe(t)'
<1>. DEFINE h == TaskHandle(Head(q0_tasks_queue), "OK", NULL)
<1>1. /\ OnTop("run_next") /\ Runs /\ Running.layer = "LOGIC" /\ Running.fn = "run_next"
      /\ UNCHANGED <<on_socket, task_queue, outcome, q12_tasks_queue>>
      /\ cs' = [t \in Tasks |-> IF t \in Current THEN "FREE" ELSE cs[t]]
      /\ timers' \subseteq timers /\ timers' \cap Current = {}
  BY CalledIsOnTop DEF RunNextQ0, CalledOnly, IsRunning, netVars, codecVars, appVars, Frees
<1>2. PICK direct : \/ /\ direct = <<>> /\ q0_tasks_queue = <<>>
                       /\ current_q0_task' = NULL /\ UNCHANGED q0_tasks_queue
                       /\ Leaves(direct, <<>>)
                    \/ /\ direct = <<>> /\ q0_tasks_queue # <<>>
                       /\ current_q0_task' = NULL
                       /\ q0_tasks_queue' = Append(Tail(q0_tasks_queue), Head(q0_tasks_queue))
                       /\ Leaves(direct, <<>>)
                    \/ /\ direct = <<h>> /\ q0_tasks_queue # <<>>
                       /\ current_q0_task' = Head(q0_tasks_queue)
                       /\ q0_tasks_queue' = Tail(q0_tasks_queue)
                       /\ Leaves(direct, <<>>)
  BY DEF RunNextQ0, Returns
<1>3. /\ AnySeq(direct) /\ Called(direct) /\ Leaves(direct, <<>>) /\ AllPlain(<<>>)
      /\ \A i \in DOMAIN direct : direct[i] = h
      /\ direct # <<>> => current_q0_task' = Head(q0_tasks_queue) /\ direct[1] = h
  BY <1>2, AnyLiteral, PlainOnes
<1>4. /\ h.fn = "task" /\ h.layer = "LOGIC" /\ h.data.task = Head(q0_tasks_queue)
  BY DEF TaskHandle, Handle
<1>. HIDE DEF h
<1>5. /\ q0_tasks_queue \in Seq(Q0Tasks) /\ AnySeq(q0_tasks_queue)
      /\ q0_tasks_queue # <<>> => /\ Head(q0_tasks_queue) \in Q0Tasks
                                  /\ Tail(q0_tasks_queue) \in Seq(Q0Tasks)
  BY IsAnySeq DEF Shape
<1>6. /\ q0_tasks_queue' \in Seq(Q0Tasks) /\ current_q0_task' \in Q0Tasks \cup {NULL}
      /\ q12_tasks_queue' \in Seq(Q1Tasks) /\ cs' \in [Tasks -> Positions]
  <2>1. q12_tasks_queue' \in Seq(Q1Tasks) /\ cs' \in [Tasks -> Positions]
    BY <1>1 DEF Shape, Positions
  <2>2. current_q0_task' \in Q0Tasks \cup {NULL}
    BY <1>2, <1>5
  <2>3. q0_tasks_queue # <<>> =>
          Append(Tail(q0_tasks_queue), Head(q0_tasks_queue)) \in Seq(Q0Tasks)
    BY <1>5
  <2>4. q0_tasks_queue' \in Seq(Q0Tasks)
    BY <1>2, <1>5, <2>3
  <2>. QED
    BY <2>1, <2>2, <2>4
<1>7. Shape'
  <2>1. \A i \in DOMAIN direct : Whole(direct[i])
    BY <1>3, <1>4 DEF Whole
  <2>. QED
    BY <1>1, <1>3, <1>6, <2>1, ShapeFollows
<1>8. ASSUME NEW t \in Tasks
      PROVE  holds(t)' + (IF current_q0_task = t THEN 1 ELSE 0) = holds(t)
  <2>1. /\ countIn(q0_tasks_queue, t) \in Nat /\ countIn(q12_tasks_queue, t) \in Nat
        /\ t # NULL
    BY ReferencesSplit, RequestsAreTasks
  <2>2. CASE q0_tasks_queue = <<>>
    BY <1>1, <1>2, <2>1, <2>2 DEF holds
  <2>3. CASE q0_tasks_queue # <<>>
    <3>. DEFINE first == Head(q0_tasks_queue) rest == Tail(q0_tasks_queue)
                one == IF first = t THEN 1 ELSE 0
    <3>1. countIn(q0_tasks_queue, t) = one + countIn(rest, t)
      BY <1>5, <2>3, CountsOfTail
    <3>2. AnySeq(rest) /\ AnySeq(<<first>>)
      BY <1>5, <2>3, IsAnySeq, AnyLiteral
    <3>3. countIn(rest, t) \in Nat
      BY <3>2, CountsAdd
    <3>4. countIn(Append(rest, first), t) = countIn(rest, t) + one
      <4>1. Append(rest, first) = rest \o <<first>>
        BY <3>2, AnyAppend
      <4>2. countIn(rest \o <<first>>, t) = countIn(rest, t) + countIn(<<first>>, t)
        BY <3>2, CountsAdd
      <4>. QED
        BY <4>1, <4>2, CountsOfOne
    <3>5. CASE current_q0_task' = NULL /\ q0_tasks_queue' = Append(rest, first)
      BY <1>1, <2>1, <3>1, <3>3, <3>4, <3>5 DEF holds
    <3>6. CASE current_q0_task' = first /\ q0_tasks_queue' = rest
      BY <1>1, <2>1, <3>1, <3>3, <3>6 DEF holds
    <3>. QED
      BY <1>2, <2>3, <3>5, <3>6
  <2>. QED
    BY <2>2, <2>3
<1>9. ASSUME NEW t \in Tasks, Safe(t) PROVE Safe(t)'
  <2>1. Calm(direct, t) /\ Calm(<<>>, t) /\ AnySeq(<<>>)
    BY <1>3, <1>4, PlainOnes, AnyLiteral DEF Calm, Pushed, Told
  <2>2. /\ direct # <<>> => direct[1].fn # "connect_timeout"
        /\ (direct # <<>> /\ direct[1].fn = "task" /\ direct[1].layer = "LOGIC"
              /\ direct[1].data.task = t) => Held(t)'
    BY <1>3, <1>4 DEF Held
  <2>3. holds(t) \in Nat /\ holds(t)' \in Nat
    BY <1>7, Tally
  <2>4. CASE current_q0_task = t
    <3>1. t \in Current /\ holds(t) = 1
      BY <1>9, <2>4, HeldIsAllocated, RequestsAreTasks DEF Current, Held, Safe
    <3>. QED
      BY <1>1, <1>3, <1>7, <1>8, <1>9, <2>1, <2>2, <2>3, <2>4, <3>1, LetGoStep DEF Pushed
  <2>5. CASE current_q0_task # t
    <3>1. t \notin Current /\ cs'[t] = cs[t] /\ (Held(t) => Held(t)')
      BY <1>1, <2>5 DEF Current, Held
    <3>2. holds(t)' = holds(t)
      BY <1>8, <2>3, <2>5
    <3>. QED
      BY <1>1, <1>3, <1>7, <1>9, <2>1, <2>2, <2>5, <3>1, <3>2, LetGoStep DEF Pushed
  <2>. QED
    BY <2>4, <2>5
<1>. QED
  BY <1>7, <1>9

LEMMA CloseRestStep ==
  ASSUME Shape, UNCHANGED <<netVars, codecVars, appVars>>, LogicCloseRest
  PROVE  Shape' /\ \A t \in Tasks : Safe(t) => Safe(t)'
<1>. DEFINE F == Current \cup Range(q0_tasks_queue) \cup Range(q12_tasks_queue)
            queued == <<OnNext("LOGIC", "close_externally", NULL, Running.state)>>
<1>1. /\ OnTop("close_rest") /\ Runs /\ Running.layer = "LOGIC" /\ Running.fn = "close_rest"
      /\ UNCHANGED <<on_socket, task_queue, outcome>>
      /\ cs' = [t \in Tasks |-> IF t \in F THEN "FREE" ELSE cs[t]]
      /\ timers' \subseteq timers /\ timers' \cap F = {}
      /\ q0_tasks_queue' = <<>> /\ q12_tasks_queue' = <<>> /\ current_q0_task' = NULL
      /\ Leaves(<<>>, queued)
  BY CalledIsOnTop DEF LogicCloseRest, CalledOnly, IsRunning, netVars, codecVars, appVars, Frees,
     Returns
<1>2. /\ AllPlain(queued) /\ AnySeq(queued) /\ \A t : Calm(queued, t) /\ Calm(<<>>, t)
      /\ AnySeq(<<>>) /\ Called(<<>>) /\ DOMAIN <<>> = {}
  BY InnerHandlers, PlainOnes, AnyLiteral DEF AllPlain
<1>. HIDE DEF queued
<1>3. Shape'
  <2>1. cs' \in [Tasks -> Positions]
    BY <1>1 DEF Shape, Positions
  <2>. QED
    BY <1>1, <1>2, <2>1, ShapeFollows
<1>4. AnySeq(q0_tasks_queue) /\ AnySeq(q12_tasks_queue)
  BY IsAnySeq DEF Shape
<1>5. ASSUME NEW t \in Tasks, Safe(t) PROVE Safe(t)'
  <2>1. /\ t # NULL
        /\ countIn(q0_tasks_queue, t) \in Nat /\ countIn(q12_tasks_queue, t) \in Nat
        /\ t \in Range(q0_tasks_queue) <=> countIn(q0_tasks_queue, t) > 0
        /\ t \in Range(q12_tasks_queue) <=> countIn(q12_tasks_queue, t) > 0
    BY <1>4, CountedInRange, RequestsAreTasks
  <2>2. holds(t)' = 0
    <3>1. countIn(<<>>, t) = 0
      BY CountsOfNone, AnyLiteral DEF Range
    <3>. QED
      BY <1>1, <2>1, <3>1 DEF holds
  <2>3. CASE t \in F
    <3>1. holds(t) >= 1
      BY <2>1, <2>3 DEF holds, Current
    <3>2. cs'[t] = "FREE" /\ t \notin timers'
      BY <1>1, <2>3
    <3>. HIDE DEF F
    <3>. QED
      BY <1>1, <1>2, <1>3, <1>5, <2>2, <3>1, <3>2, LetGoStep DEF Pushed
  <2>4. CASE t \notin F
    <3>1. holds(t) = 0 /\ current_q0_task # t /\ ~Held(t)
      BY <2>1, <2>4 DEF holds, Current, Held
    <3>2. cs'[t] = cs[t] /\ (t \in timers' => t \in timers)
      BY <1>1, <2>4
    <3>. HIDE DEF F
    <3>. QED
      BY <1>1, <1>2, <1>3, <1>5, <2>2, <3>1, <3>2, LetGoStep DEF Pushed
  <2>. QED
    BY <2>3, <2>4
<1>. QED
  BY <1>3, <1>5

\* A coroutine of QoS 0 that is over is reported, and then freed at once.
LEMMA PublishSentStep ==
  ASSUME Shape, UNCHANGED <<netVars, codecVars, appVars>>, PublishQ0Sent
  PROVE  Shape' /\ \A t \in Tasks : Safe(t) => Safe(t)'
<1>1. PICK u, state :
        /\ u \in Q0Publishes
        /\ IsRunning("task", "LOGIC") /\ Running.data.task = u
        /\ cs' = [cs EXCEPT ![u] = "START"]
        /\ Leaves(<<RunNext>>, <<Callback(u, state)>>)
        /\ UNCHANGED <<q0_tasks_queue, q12_tasks_queue, current_q0_task, timers>>
  BY DEF PublishQ0Sent, Resumes, MovesTo, Returns, timersUnchanged, onlyMoves, queuesUnchanged,
         sendingUnchanged
<1>. DEFINE direct == <<RunNext>>
            queued == <<Callback(u, state)>>
<1>2. /\ OnTop("task") /\ Runs /\ Running.layer = "LOGIC" /\ Running.fn = "task"
      /\ u \in Requests /\ u \in Tasks /\ u \in Q0Tasks /\ u \notin Q1Tasks /\ u # NULL
      /\ UNCHANGED <<on_socket, task_queue, outcome>>
  BY <1>1, CalledIsOnTop, RequestsAreTasks
     DEF CalledOnly, IsRunning, netVars, codecVars, appVars, Requests, Publishes, Q0Tasks
<1>3. /\ RunNext.fn = "run_next" /\ RunNext.layer = "LOGIC"
      /\ Callback(u, state).fn = "callback" /\ Callback(u, state).layer = "CONTROL"
      /\ Callback(u, state).data.task = u
  BY DEF RunNext, Callback, Handle
<1>4. /\ AnySeq(direct) /\ Called(direct) /\ direct # <<>> /\ direct[1] = RunNext
      /\ DOMAIN direct = {1} /\ \A i \in DOMAIN direct : direct[i] = RunNext
      /\ AnySeq(queued) /\ DOMAIN queued = {1} /\ \A i \in DOMAIN queued : queued[i] = Callback(u, state)
  BY AnyLiteral, PlainOnes
<1>5. ASSUME NEW t
      PROVE  /\ pushesOf(direct, t) = 0 /\ pushesOf(queued, t) = 0 /\ callbacksOf(direct, t) = 0
             /\ callbacksOf(queued, t) = IF t = u THEN 1 ELSE 0
             /\ Calm(direct, t) /\ (t # u => Calm(queued, t))
  <2>1. ~Pushed(RunNext, t) /\ ~Pushed(Callback(u, state), t) /\ ~Told(RunNext, t)
        /\ (Told(Callback(u, state), t) <=> t = u)
    BY <1>3 DEF Pushed, Told
  <2>. QED
    BY <1>4, <2>1, CountsOfOne DEF Calm
<1>6. Shape'
  <2>1. Whole(RunNext) /\ Queueable(Callback(u, state))
    BY <1>3 DEF Whole, Queueable
  <2>2. HandlersShape'
    BY <1>1, <1>2, <1>4, <2>1, LeavesStack DEF HandlersShape
  <2>3. cs' \in [Tasks -> Positions]
    BY <1>1 DEF Shape, Positions
  <2>. QED
    BY <1>1, <1>2, <2>2, <2>3 DEF Shape, HandlersShape
<1>. HIDE DEF direct, queued
<1>7. ASSUME NEW t \in Tasks, Safe(t), t # u PROVE Safe(t)'
  <2>1. ~Pushed(Running, t) /\ ~Told(Running, t)
    BY <1>2 DEF Pushed, Told
  <2>2. Resumable(direct[1], t)
    BY <1>3, <1>4 DEF Resumable
  <2>3. cs'[t] = cs[t]
    BY <1>1, <1>7 DEF Shape
  <2>. QED
    BY <1>1, <1>2, <1>4, <1>5, <1>7, <2>1, <2>2, <2>3, QuietStep DEF direct, queued
<1>8. ASSUME Safe(u) PROVE Safe(u)'
  <2>1. Held(u) /\ current_q0_task = u
    <3>1. Held(u)
      BY <1>1, <1>8, ResumedIsHeld
    <3>2. countIn(q12_tasks_queue, u) = 0
      <4>1. u \notin Range(q12_tasks_queue)
        BY <1>2 DEF Shape, Range
      <4>. QED
        BY <4>1, CountsOfNone
    <3>. QED
      BY <3>1, <3>2 DEF Held
  <2>2. u \in Allocated /\ u \in Allocated' /\ ~OnTop("run_next") /\ cs'[u] = "START"
    BY <1>1, <1>2, <1>8, <2>1, HeldIsAllocated DEF Safe, Allocated, Shape, OnTop
  <2>3. told(u) = 0
    BY <1>2, <1>8, <2>2 DEF Safe, ToldOnce
  <2>4. ~Pushed(Running, u)
    BY <1>2 DEF Pushed
  <2>5. holds(u)' = holds(u)
    BY <1>1 DEF holds
  <2>6. /\ references(u)' + 0 + holds(u) = references(u) + 0 + 0 + holds(u)'
        /\ references(u) \in Nat /\ references(u)' \in Nat /\ holds(u) \in Nat
        /\ told(u)' = told(u) + 0 + 1
    BY <1>1, <1>2, <1>4, <1>5, <1>6, <2>4, Reckoning DEF direct, queued
  <2>7. references(u)' = references(u) /\ told(u)' = 1
    BY <2>3, <2>5, <2>6
  <2>8. OnTop("run_next")' /\ ~OnTop("task")' /\ ~OnTop("connect_timeout")'
    <3>1. stack' # <<>> /\ Head(stack') = RunNext
      BY <1>1, <1>2, <1>4, LeavesStack DEF direct, queued
    <3>. QED
      BY <1>3, <3>1 DEF OnTop
  <2>9. Owned(u)'
    BY <1>1, <1>8, <2>1, <2>2, <2>7, <2>8 DEF Safe, Owned, Held
  <2>10. ToldOnce(u)'
    BY <1>1, <2>1, <2>2, <2>7, <2>8 DEF ToldOnce
  <2>. QED
    BY <2>9, <2>10 DEF Safe
<1>. QED
  BY <1>2, <1>6, <1>7, <1>8

\* A coroutine of QoS 1 that is over is freed and, as a rule, reported.
Finalized(u, queued) ==
  /\ IsRunning("task", "LOGIC") /\ Running.data.task = u
  /\ FinalizesQ1(u)
  /\ Leaves(<<>>, queued)
  /\ queued = <<>> \/ \E state : queued = <<Callback(u, state)>>

LEMMA FinalizedStep ==
  ASSUME Shape, UNCHANGED <<netVars, codecVars, appVars>>,
         NEW u \in Q1Tasks, Safe(u), NEW queued, Finalized(u, queued)
  PROVE  Shape' /\ \A t \in Tasks : Safe(t) => Safe(t)'
<1>1. /\ IsRunning("task", "LOGIC") /\ Running.data.task = u
      /\ cs' = [t \in Tasks |-> IF t \in {u} THEN "FREE" ELSE cs[t]]
      /\ timers' \subseteq timers \ {u}
      /\ q12_tasks_queue' = RemoveFirst(q12_tasks_queue, u)
      /\ Leaves(<<>>, queued)
      /\ queued = <<>> \/ \E state : queued = <<Callback(u, state)>>
      /\ UNCHANGED <<q0_tasks_queue, current_q0_task>>
  BY DEF Finalized, FinalizesQ1, Frees
<1>2. /\ OnTop("task") /\ Runs /\ Running.layer = "LOGIC" /\ Running.fn = "task"
      /\ u \in Requests /\ u \in Tasks /\ u \notin Q0Tasks /\ u # NULL
      /\ UNCHANGED <<on_socket, task_queue, outcome>>
  BY <1>1, CalledIsOnTop, RequestsAreTasks
     DEF CalledOnly, IsRunning, netVars, codecVars, appVars, Requests, Publishes, Q1Tasks
<1>3. AnySeq(<<>>) /\ Called(<<>>) /\ DOMAIN <<>> = {} /\ \A t : Calm(<<>>, t)
  BY AnyLiteral, PlainOnes
<1>4. /\ AnySeq(queued) /\ \A i \in DOMAIN queued : Queueable(queued[i])
      /\ \A t \in Tasks : t # u => Calm(queued, t)
      /\ pushesOf(queued, u) = 0
      /\ callbacksOf(queued, u) \in {0, 1}
  <2>1. CASE queued = <<>>
    BY <1>3, <2>1, CountsOfNone, AnyLiteral
  <2>2. ASSUME NEW state, queued = <<Callback(u, state)>>
        PROVE  /\ AnySeq(queued) /\ \A i \in DOMAIN queued : Queueable(queued[i])
               /\ \A t \in Tasks : t # u => Calm(queued, t)
               /\ pushesOf(queued, u) = 0
               /\ callbacksOf(queued, u) \in {0, 1}
    <3>1. /\ Callback(u, state).fn = "callback" /\ Callback(u, state).layer = "CONTROL"
          /\ Callback(u, state).data.task = u
      BY DEF Callback, Handle
    <3>2. /\ AnySeq(<<Callback(u, state)>>)
          /\ \A i \in DOMAIN <<Callback(u, state)>> : <<Callback(u, state)>>[i] = Callback(u, state)
      BY AnyLiteral
    <3>3. pushesOf(<<Callback(u, state)>>, u) = 0 /\ callbacksOf(<<Callback(u, state)>>, u) \in {0, 1}
      BY <3>1, CountsOfOne DEF Pushed
    <3>. QED
      BY <2>2, <3>1, <3>2, <3>3 DEF Calm, Queueable, Whole, Pushed, Told
  <2>. QED
    BY <1>1, <2>1, <2>2
<1>5. Held(u) /\ u \in Allocated /\ holds(u) = 1 /\ cs[u] # "NEW"
  BY <1>1, <1>2, ResumedIsHeld, HeldIsAllocated DEF Safe
<1>6. /\ countIn(q12_tasks_queue, u) = 1 /\ countIn(q0_tasks_queue, u) = 0
      /\ current_q0_task # u
  <2>1. current_q0_task # u
    BY <1>2 DEF Shape
  <2>2. countIn(q12_tasks_queue, u) > 0
    BY <1>5, <2>1 DEF Held
  <2>3. countIn(q12_tasks_queue, u) \in Nat /\ countIn(q0_tasks_queue, u) \in Nat
    BY ReferencesSplit
  <2>. QED
    BY <1>5, <2>1, <2>2, <2>3 DEF holds
<1>7. /\ q12_tasks_queue' \in Seq(Q1Tasks)
      /\ countIn(q12_tasks_queue', u) = 0
      /\ \A t : t # u => countIn(q12_tasks_queue', t) = countIn(q12_tasks_queue, t)
  BY <1>1, <1>6, CountsOfRemoved DEF Shape
<1>8. Shape'
  <2>1. HandlersShape'
    BY <1>1, <1>2, <1>3, <1>4, LeavesStack DEF HandlersShape
  <2>2. cs' \in [Tasks -> Positions]
    BY <1>1 DEF Shape, Positions
  <2>. QED
    BY <1>1, <1>2, <1>7, <2>1, <2>2 DEF Shape, HandlersShape
<1>9. \A t : ~Pushed(Running, t)
  BY <1>2 DEF Pushed
<1>10. ~OnTop("run_next")
  BY <1>2 DEF OnTop
<1>11. ASSUME NEW t \in Tasks, Safe(t), t # u PROVE Safe(t)'
  <2>1. /\ holds(t)' = holds(t) /\ cs'[t] = cs[t]
        /\ t \in timers' => t \in timers
        /\ Held(t) => Held(t)'
    BY <1>1, <1>7, <1>11 DEF holds, Held
  <2>. QED
    BY <1>1, <1>2, <1>3, <1>4, <1>8, <1>9, <1>10, <1>11, <2>1, LetGoStep
<1>12. Safe(u)'
  <2>1. holds(u)' = 0
    BY <1>1, <1>6, <1>7 DEF holds
  <2>2. u \notin Allocated' /\ cs'[u] = "FREE" /\ u \notin timers'
    BY <1>1, <1>2 DEF Allocated
  <2>3. pushesOf(<<>>, u) = 0 /\ callbacksOf(<<>>, u) = 0
    BY <1>2, <1>3, CountsOfNone DEF Calm
  <2>4. /\ references(u)' + 0 + holds(u) = references(u) + 0 + 0 + holds(u)'
        /\ references(u) \in Nat /\ references(u)' \in Nat
        /\ told(u)' = told(u) + 0 + callbacksOf(queued, u)
    BY <1>1, <1>2, <1>3, <1>4, <1>8, <1>9, <2>3, Reckoning
  <2>5. references(u) = 1 /\ told(u) = 0
    BY <1>2, <1>5, <1>10 DEF Safe, Owned, ToldOnce
  <2>6. references(u)' = 0 /\ told(u)' \in {0, 1}
    BY <1>4, <1>5, <2>1, <2>4, <2>5
  <2>7. ~OnTop("task")' /\ ~OnTop("connect_timeout")'
    <3>1. stack' = <<>> \/ Head(stack').fn = "close_rest"
      BY <1>1, <1>2, <1>3, <1>4, LeavesStack
    <3>. QED
      BY <3>1 DEF OnTop
  <2>. QED
    BY <2>2, <2>6, <2>7 DEF Safe, Owned, ToldOnce
<1>. QED
  BY <1>8, <1>11, <1>12

LEMMA FinalizesStep ==
  ASSUME Shape, UNCHANGED <<netVars, codecVars, appVars>>, \A t \in Requests : Safe(t),
         PublishQ1Answered \/ SubscribeAnswered \/ SubscribeConfirmedAgain
  PROVE  Shape' /\ \A t \in Tasks : Safe(t) => Safe(t)'
<1>1. Q1Tasks \subseteq Requests
  BY DEF Q1Tasks, Requests, Publishes
<1>2. \E u \in Q1Tasks : \E queued : Finalized(u, queued)
  <2>1. CASE PublishQ1Answered
    BY <2>1 DEF PublishQ1Answered, Resumes, Returns, Finalized, Q1Tasks
  <2>2. CASE SubscribeConfirmedAgain
    BY <2>2 DEF SubscribeConfirmedAgain, Resumes, Returns, Finalized, Q1Tasks
  <2>3. CASE SubscribeAnswered
    BY <2>3 DEF SubscribeAnswered, Resumes, Returns, Finalized, Q1Tasks
  <2>. QED
    BY <2>1, <2>2, <2>3
<1>. QED
  BY <1>1, <1>2, FinalizedStep

\* A task that was pushed is handed to the layer.
Accepted(u, direct) ==
  /\ IsRunning("push", "LOGIC") /\ Running.state = "OK" /\ Running.data.task = u
  /\ Leaves(direct, <<>>)
  /\ UNCHANGED <<cs, current_q0_task, timers>>
  /\ \/ /\ u \in Q0Tasks /\ UNCHANGED q12_tasks_queue
        /\ \/ q0_tasks_queue' = <<u>> \o q0_tasks_queue
           \/ q0_tasks_queue' = Append(q0_tasks_queue, u)
        /\ direct = <<>> \/ direct = <<RunNext>>
     \/ /\ u \in Q1Tasks /\ UNCHANGED q0_tasks_queue
        /\ q12_tasks_queue' = Append(q12_tasks_queue, u)
        /\ direct = <<>> \/ direct = <<TaskHandle(u, "OK", NULL)>>

LEMMA AcceptedStep ==
  ASSUME Shape, UNCHANGED <<netVars, codecVars, appVars>>,
         NEW u \in Tasks, NEW direct, Accepted(u, direct)
  PROVE  Shape' /\ \A t \in Tasks : Safe(t) => Safe(t)'
<1>1. /\ Runs /\ Running.layer = "LOGIC" /\ Running.fn = "push"
      /\ Running.state = "OK" /\ Running.data.task = u
      /\ Leaves(direct, <<>>)
      /\ UNCHANGED <<cs, current_q0_task, timers, on_socket, task_queue, outcome>>
      /\ direct = <<>> \/ direct = <<RunNext>>
         \/ (direct = <<TaskHandle(u, "OK", NULL)>> /\ u \in Q1Tasks)
      /\ u # NULL
  BY RequestsAreTasks DEF Accepted, IsRunning, Runs, netVars, codecVars, appVars
<1>2. \A t : Pushed(Running, t) <=> t = u
  BY <1>1 DEF Pushed
<1>3. /\ RunNext.fn = "run_next" /\ RunNext.layer = "LOGIC"
      /\ TaskHandle(u, "OK", NULL).fn = "task" /\ TaskHandle(u, "OK", NULL).layer = "LOGIC"
      /\ TaskHandle(u, "OK", NULL).data.task = u
  BY DEF RunNext, TaskHandle, Handle
<1>4. /\ AnySeq(<<>>) /\ Called(<<>>) /\ DOMAIN <<>> = {} /\ AllPlain(<<>>)
      /\ \A t : Calm(<<>>, t)
  BY AnyLiteral, PlainOnes
<1>5. /\ AnySeq(direct) /\ Called(direct)
      /\ \A i \in DOMAIN direct : Whole(direct[i])
      /\ \A t : Calm(direct, t)
      /\ direct # <<>> => /\ direct[1].layer = "LOGIC"
                          /\ direct[1].fn = "run_next"
                             \/ (direct[1].fn = "task" /\ direct[1].data.task = u /\ u \in Q1Tasks)
  <2>1. CASE direct = <<>>
    BY <1>4, <2>1 DEF AllPlain, Plain
  <2>2. ASSUME NEW h, direct = <<h>>, h.layer = "LOGIC",
               h.fn = "run_next" \/ (h.fn = "task" /\ h.data.task = u /\ u \in Q1Tasks)
        PROVE  /\ AnySeq(direct) /\ Called(direct)
               /\ \A i \in DOMAIN direct : Whole(direct[i])
               /\ \A t : Calm(direct, t)
               /\ direct[1].layer = "LOGIC"
               /\ direct[1].fn = "run_next"
                  \/ (direct[1].fn = "task" /\ direct[1].data.task = u /\ u \in Q1Tasks)
    <3>1. /\ AnySeq(<<h>>) /\ Called(<<h>>) /\ <<h>>[1] = h
          /\ \A i \in DOMAIN <<h>> : <<h>>[i] = h
      BY AnyLiteral, PlainOnes
    <3>2. Whole(h) /\ \A t : ~Pushed(h, t) /\ ~Told(h, t)
      BY <2>2 DEF Whole, Pushed, Told
    <3>. QED
      BY <2>2, <3>1, <3>2 DEF Calm
  <2>3. CASE direct = <<RunNext>>
    BY <1>3, <2>2, <2>3
  <2>4. CASE direct = <<TaskHandle(u, "OK", NULL)>> /\ u \in Q1Tasks
    BY <1>3, <2>2, <2>4
  <2>. QED
    BY <1>1, <2>1, <2>3, <2>4
<1>6. /\ q0_tasks_queue' \in Seq(Q0Tasks) /\ q12_tasks_queue' \in Seq(Q1Tasks)
      /\ \A t : /\ countIn(q0_tasks_queue', t) + countIn(q12_tasks_queue', t)
                   = countIn(q0_tasks_queue, t) + countIn(q12_tasks_queue, t)
                     + (IF t = u THEN 1 ELSE 0)
                /\ countIn(q12_tasks_queue, t) > 0 => countIn(q12_tasks_queue', t) > 0
      /\ u \in Q1Tasks => countIn(q12_tasks_queue', u) > 0
  <2>1. /\ q0_tasks_queue \in Seq(Q0Tasks) /\ AnySeq(q0_tasks_queue)
        /\ q12_tasks_queue \in Seq(Q1Tasks) /\ AnySeq(q12_tasks_queue)
        /\ AnySeq(<<u>>)
    BY IsAnySeq, AnyLiteral DEF Shape
  <2>2. ASSUME NEW t
        PROVE  /\ countIn(q0_tasks_queue, t) \in Nat /\ countIn(q12_tasks_queue, t) \in Nat
               /\ countIn(<<u>>, t) = IF t = u THEN 1 ELSE 0
               /\ countIn(<<u>> \o q0_tasks_queue, t) = countIn(<<u>>, t) + countIn(q0_tasks_queue, t)
               /\ countIn(q0_tasks_queue \o <<u>>, t) = countIn(q0_tasks_queue, t) + countIn(<<u>>, t)
               /\ countIn(q12_tasks_queue \o <<u>>, t)
                    = countIn(q12_tasks_queue, t) + countIn(<<u>>, t)
    BY <2>1, CountsAdd, CountsOfOne
  <2>3. /\ Append(q0_tasks_queue, u) = q0_tasks_queue \o <<u>>
        /\ Append(q12_tasks_queue, u) = q12_tasks_queue \o <<u>>
    BY <2>1, AnyAppend
  <2>4. CASE /\ u \in Q0Tasks /\ UNCHANGED q12_tasks_queue
             /\ \/ q0_tasks_queue' = <<u>> \o q0_tasks_queue
                \/ q0_tasks_queue' = Append(q0_tasks_queue, u)
    <3>1. q0_tasks_queue' \in Seq(Q0Tasks) /\ q12_tasks_queue' \in Seq(Q1Tasks)
      <4>1. u \in Q0Tasks /\ <<u>> \in Seq(Q0Tasks)
        BY <2>4
      <4>2. <<u>> \o q0_tasks_queue \in Seq(Q0Tasks) /\ Append(q0_tasks_queue, u) \in Seq(Q0Tasks)
        BY <2>1, <4>1
      <4>. QED
        BY <2>1, <2>4, <4>2
    <3>2. u \notin Q1Tasks
      BY <2>4, RequestsAreTasks
    <3>3. ASSUME NEW t
          PROVE  /\ countIn(q0_tasks_queue', t) + countIn(q12_tasks_queue', t)
                    = countIn(q0_tasks_queue, t) + countIn(q12_tasks_queue, t)
                      + (IF t = u THEN 1 ELSE 0)
                 /\ countIn(q12_tasks_queue, t) > 0 => countIn(q12_tasks_queue', t) > 0
      <4>1. countIn(q0_tasks_queue', t) = countIn(q0_tasks_queue, t) + (IF t = u THEN 1 ELSE 0)
        <5>1. CASE q0_tasks_queue' = <<u>> \o q0_tasks_queue
          BY <2>2, <5>1
        <5>2. CASE q0_tasks_queue' = Append(q0_tasks_queue, u)
          BY <2>2, <2>3, <5>2
        <5>. QED
          BY <2>4, <5>1, <5>2
      <4>. QED
        BY <2>2, <2>4, <4>1
    <3>. QED
      BY <3>1, <3>2, <3>3
  <2>5. CASE /\ u \in Q1Tasks /\ UNCHANGED q0_tasks_queue
             /\ q12_tasks_queue' = Append(q12_tasks_queue, u)
    <3>1. q0_tasks_queue' \in Seq(Q0Tasks) /\ q12_tasks_queue' \in Seq(Q1Tasks)
      BY <2>1, <2>5
    <3>2. ASSUME NEW t
          PROVE  /\ countIn(q12_tasks_queue', t)
                      = countIn(q12_tasks_queue, t) + (IF t = u THEN 1 ELSE 0)
                 /\ countIn(q0_tasks_queue', t) = countIn(q0_tasks_queue, t)
      BY <2>2, <2>3, <2>5
    <3>. QED
      BY <2>2, <3>1, <3>2
  <2>. QED
    BY <2>4, <2>5 DEF Accepted
<1>7. Shape'
  <2>1. HandlersShape'
    BY <1>1, <1>4, <1>5, LeavesStack DEF HandlersShape
  <2>. QED
    BY <1>1, <1>6, <2>1 DEF Shape, HandlersShape
<1>8. ~OnTop("run_next")
  BY <1>1 DEF OnTop, Running
<1>9. ASSUME NEW t \in Tasks
      PROVE  holds(t)' = holds(t) + (IF t = u THEN 1 ELSE 0) /\ (Held(t) => Held(t)')
  <2>1. /\ countIn(q0_tasks_queue, t) \in Nat /\ countIn(q12_tasks_queue, t) \in Nat
    BY ReferencesSplit
  <2>. QED
    BY <1>1, <1>6, <2>1 DEF holds, Held
<1>10. ASSUME NEW t \in Tasks, Safe(t), t # u PROVE Safe(t)'
  <2>1. holds(t)' = holds(t) /\ (Held(t) => Held(t)')
    BY <1>9, <1>10, ReferencesSplit
  <2>2. ~Pushed(Running, t)
    BY <1>2, <1>10
  <2>3. direct # <<>> => ~(direct[1].fn = "task" /\ direct[1].layer = "LOGIC"
                           /\ direct[1].data.task = t)
    BY <1>5, <1>10
  <2>. QED
    BY <1>1, <1>4, <1>5, <1>7, <1>8, <1>10, <2>1, <2>2, <2>3, LetGoStep
<1>11. ASSUME Safe(u) PROVE Safe(u)'
  <2>1. /\ pushesOf(direct, u) = 0 /\ pushesOf(<<>>, u) = 0
        /\ u \in Requests => callbacksOf(direct, u) = 0 /\ callbacksOf(<<>>, u) = 0
    BY <1>4, <1>5, CountsOfNone DEF Calm
  <2>2. /\ references(u)' + 1 + holds(u) = references(u) + 0 + 0 + holds(u)'
        /\ references(u) \in Nat /\ references(u)' \in Nat
        /\ holds(u) \in Nat /\ holds(u)' \in Nat
        /\ u \in Requests => told(u)' = told(u) + 0 + 0 /\ told(u) \in Nat
    BY <1>1, <1>2, <1>4, <1>5, <1>7, <2>1, Reckoning
  <2>3. references(u)' = references(u) /\ (u \in Requests => told(u)' = told(u))
    BY <1>9, <2>2
  <2>4. /\ direct = <<>> => stack' = <<>> \/ Head(stack').fn = "close_rest"
        /\ direct # <<>> => stack' # <<>> /\ Head(stack') = direct[1]
    BY <1>1, <1>4, <1>5, LeavesStack
  <2>5. ~OnTop("connect_timeout")' /\ (OnTop("task")' => Held(u)')
    BY <1>5, <1>6, <2>4 DEF OnTop, Held
  <2>6. cs'[u] = cs[u] /\ (u \in Allocated' <=> u \in Allocated) /\ timers' = timers
    BY <1>1 DEF Allocated
  <2>7. Owned(u)'
    BY <1>9, <1>11, <2>3, <2>5, <2>6 DEF Safe, Owned
  <2>8. u \in Requests => ToldOnce(u)'
    BY <1>8, <1>11, <2>3, <2>6 DEF Safe, ToldOnce
  <2>. QED
    BY <2>7, <2>8 DEF Safe
<1>. QED
  BY <1>7, <1>10, <1>11

LEMMA AcceptsStep ==
  ASSUME Shape, UNCHANGED <<netVars, codecVars, appVars>>, LogicPushQ0 \/ LogicPushQ1
  PROVE  Shape' /\ \A t \in Tasks : Safe(t) => Safe(t)'
<1>1. \E u \in Tasks : \E direct : Accepted(u, direct)
  <2>1. CASE LogicPushQ0
    <3>1. PICK u \in Q0Tasks :
            /\ IsRunning("push", "LOGIC") /\ pushesTask(u)
            /\ q0_tasks_queue' = IF u \in {"CONNECT", "SHUTDOWN"}
                                   THEN <<u>> \o q0_tasks_queue
                                   ELSE Append(q0_tasks_queue, u)
            /\ Returns(IF current_q0_task = NULL THEN <<RunNext>> ELSE <<>>, <<>>)
            /\ UNCHANGED <<cs, current_q0_task, timers, q12_tasks_queue>>
      BY <2>1 DEF LogicPushQ0, timersUnchanged
    <3>. DEFINE direct == IF current_q0_task = NULL THEN <<RunNext>> ELSE <<>>
    <3>2. Accepted(u, direct)
      BY <3>1 DEF Accepted, pushesTask, Returns
    <3>3. u \in Tasks
      BY RequestsAreTasks
    <3>. QED
      BY <3>2, <3>3
  <2>2. CASE LogicPushQ1
    <3>1. PICK u \in Q1Tasks :
            /\ IsRunning("push", "LOGIC") /\ pushesTask(u)
            /\ q12_tasks_queue' = Append(q12_tasks_queue, u)
            /\ Returns(IF connection_state = "OPENED"
                         THEN <<TaskHandle(u, "OK", NULL)>> ELSE <<>>, <<>>)
            /\ UNCHANGED <<cs, current_q0_task, timers, q0_tasks_queue>>
      BY <2>2 DEF LogicPushQ1, timersUnchanged
    <3>. DEFINE direct == IF connection_state = "OPENED"
                            THEN <<TaskHandle(u, "OK", NULL)>> ELSE <<>>
    <3>2. Accepted(u, direct)
      BY <3>1 DEF Accepted, pushesTask, Returns
    <3>3. u \in Tasks
      BY RequestsAreTasks
    <3>. QED
      BY <3>2, <3>3
  <2>. QED
    BY <2>1, <2>2
<1>. QED
  BY <1>1, AcceptedStep

\* A task that was pushed on a layer that closes is freed.
LEMMA PushFreesStep ==
  ASSUME Shape, UNCHANGED <<netVars, codecVars, appVars>>, LogicPushFrees
  PROVE  Shape' /\ \A t \in Tasks : Safe(t) => Safe(t)'
<1>1. PICK u \in Tasks :
        /\ IsRunning("push", "LOGIC") /\ Running.state = "OK" /\ Running.data.task = u
        /\ cs' = [t \in Tasks |-> IF t \in {u} THEN "FREE" ELSE cs[t]]
        /\ timers' \subseteq timers \ {u}
        /\ Leaves(<<>>, <<>>)
        /\ UNCHANGED <<q0_tasks_queue, q12_tasks_queue, current_q0_task>>
  BY DEF LogicPushFrees, pushesTask, Frees, Returns, onlyMoves, queuesUnchanged, sendingUnchanged
<1>2. /\ Runs /\ Running.layer = "LOGIC" /\ Running.fn = "push"
      /\ UNCHANGED <<on_socket, task_queue, outcome>>
      /\ ~OnTop("run_next")
  BY <1>1 DEF IsRunning, Runs, netVars, codecVars, appVars, OnTop, Running
<1>3. /\ AnySeq(<<>>) /\ Called(<<>>) /\ DOMAIN <<>> = {} /\ AllPlain(<<>>)
      /\ \A t : Calm(<<>>, t)
  BY AnyLiteral, PlainOnes
<1>4. Shape'
  <2>1. cs' \in [Tasks -> Positions]
    BY <1>1 DEF Shape, Positions
  <2>2. q0_tasks_queue' \in Seq(Q0Tasks) /\ q12_tasks_queue' \in Seq(Q1Tasks)
        /\ current_q0_task' \in Q0Tasks \cup {NULL}
    BY <1>1 DEF Shape
  <2>. QED
    BY <1>1, <1>2, <1>3, <2>1, <2>2, ShapeFollows
<1>5. ASSUME NEW t \in Tasks, Safe(t), t # u PROVE Safe(t)'
  <2>1. /\ holds(t)' = holds(t) /\ cs'[t] = cs[t] /\ (t \in timers' => t \in timers)
        /\ (Held(t) => Held(t)')
    BY <1>1, <1>5 DEF holds, Held
  <2>2. ~Pushed(Running, t)
    BY <1>1, <1>5 DEF Pushed
  <2>. QED
    BY <1>1, <1>2, <1>3, <1>4, <1>5, <2>1, <2>2, LetGoStep
<1>6. ASSUME Safe(u) PROVE Safe(u)'
  <2>1. /\ pushesOf(<<>>, u) = 0 /\ (u \in Requests => callbacksOf(<<>>, u) = 0)
        /\ Pushed(Running, u)
    BY <1>1, <1>2, <1>3, CountsOfNone DEF Calm, Pushed
  <2>2. /\ references(u)' + 1 + holds(u) = references(u) + 0 + 0 + holds(u)'
        /\ references(u) \in Nat /\ references(u)' \in Nat
        /\ holds(u) \in Nat /\ holds(u)' \in Nat
        /\ u \in Requests => told(u)' = told(u) + 0 + 0 /\ told(u) \in Nat
    BY <1>1, <1>2, <1>3, <1>4, <2>1, Reckoning
  <2>3. holds(u)' = holds(u)
    BY <1>1 DEF holds
  <2>4. references(u)' = 0 /\ (u \in Requests => told(u)' = told(u))
    BY <1>6, <2>2, <2>3 DEF Safe, Owned
  <2>5. u \notin Allocated' /\ cs'[u] = "FREE" /\ u \notin timers'
    BY <1>1 DEF Allocated
  <2>6. ~OnTop("task")' /\ ~OnTop("connect_timeout")'
    <3>1. stack' = <<>> \/ Head(stack').fn = "close_rest"
      BY <1>1, <1>2, <1>3, LeavesStack
    <3>. QED
      BY <3>1 DEF OnTop
  <2>. QED
    BY <1>6, <2>4, <2>5, <2>6 DEF Safe, Owned, ToldOnce
<1>. QED
  BY <1>4, <1>5, <1>6

\* The layer allocates a task of its own and pushes it to itself.
LEMMA OwnTaskStep ==
  ASSUME Shape, UNCHANGED <<netVars, codecVars, appVars>>,
         KeepaliveOnce \/ (LogicConnect /\ Running.state = "OK")
  PROVE  Shape' /\ \A t \in Tasks : Safe(t) /\ (Starts(t) => cs[t] = "FREE") => Safe(t)'
<1>1. PICK u \in OwnTasks :
        /\ Runs /\ Running.layer = "LOGIC" /\ Running.fn \in {"keepalive_once", "connect"}
        /\ Starts(u)
        /\ cs' = [cs EXCEPT ![u] = "START"]
        /\ Leaves(<<Push("LOGIC", u)>>, <<>>)
        /\ UNCHANGED <<q0_tasks_queue, q12_tasks_queue, current_q0_task, timers>>
  <2>1. CASE KeepaliveOnce
    BY <2>1 DEF KeepaliveOnce, IsRunning, Runs, Starts, OwnTasks, MovesTo, Returns,
                timersUnchanged, onlyMoves, queuesUnchanged, sendingUnchanged
  <2>2. CASE LogicConnect /\ Running.state = "OK"
    BY <2>2 DEF LogicConnect, IsRunning, Runs, Starts, OwnTasks, MovesTo, Returns,
                timersUnchanged, onlyMoves, queuesUnchanged, sendingUnchanged
  <2>. QED
    BY <2>1, <2>2
<1>. DEFINE h == Push("LOGIC", u)
            direct == <<h>>
<1>2. /\ UNCHANGED <<on_socket, task_queue, outcome>> /\ ~OnTop("run_next")
      /\ u \in Tasks /\ u \notin Requests
      /\ \A t : ~Pushed(Running, t)
  BY <1>1, RequestsAreTasks DEF netVars, codecVars, appVars, OnTop, Running, Pushed
<1>3. /\ h.fn = "push" /\ h.layer = "LOGIC" /\ (\A t : Pushed(h, t) <=> t = u) /\ \A t : ~Told(h, t)
  BY DEF Push, Handle, Pushed, Told
<1>. HIDE DEF h
<1>4. /\ AnySeq(direct) /\ Called(direct) /\ direct # <<>> /\ direct[1] = h
      /\ \A i \in DOMAIN direct : direct[i] = h
      /\ \A t : pushesOf(direct, t) = IF t = u THEN 1 ELSE 0
      /\ AnySeq(<<>>) /\ Called(<<>>) /\ DOMAIN <<>> = {} /\ AllPlain(<<>>)
      /\ \A t : Calm(<<>>, t) /\ pushesOf(<<>>, t) = 0
  <2>1. \A t : Calm(<<>>, t)
    BY PlainOnes
  <2>2. \A t : pushesOf(<<>>, t) = 0
    BY <2>1, CountsOfNone DEF Calm
  <2>. QED
    BY <1>3, <2>1, <2>2, AnyLiteral, PlainOnes, CountsOfOne
<1>5. Leaves(direct, <<>>)
  BY <1>1 DEF h
<1>6. \A t : t # u => Calm(direct, t)
  BY <1>3, <1>4 DEF Calm
<1>. HIDE DEF direct
<1>7. Shape'
  <2>1. cs' \in [Tasks -> Positions]
    BY <1>1 DEF Shape, Positions
  <2>2. q0_tasks_queue' \in Seq(Q0Tasks) /\ q12_tasks_queue' \in Seq(Q1Tasks)
        /\ current_q0_task' \in Q0Tasks \cup {NULL}
    BY <1>1 DEF Shape
  <2>3. \A i \in DOMAIN direct : Whole(direct[i])
    BY <1>3, <1>4 DEF Whole
  <2>. QED
    BY <1>1, <1>2, <1>4, <1>5, <2>1, <2>2, <2>3, ShapeFollows
<1>8. ASSUME NEW t \in Tasks, Safe(t), t # u PROVE Safe(t)'
  <2>1. /\ holds(t)' = holds(t) /\ cs'[t] = cs[t] /\ (t \in timers' => t \in timers)
        /\ (Held(t) => Held(t)')
    BY <1>1, <1>8 DEF holds, Held, Shape
  <2>. QED
    BY <1>1, <1>2, <1>3, <1>4, <1>5, <1>6, <1>7, <1>8, <2>1, LetGoStep
<1>9. ASSUME Safe(u), cs[u] = "FREE" PROVE Safe(u)'
  <2>1. /\ references(u)' + 0 + holds(u) = references(u) + 1 + 0 + holds(u)'
        /\ references(u) \in Nat /\ references(u)' \in Nat
        /\ holds(u) \in Nat /\ holds(u)' \in Nat
    BY <1>1, <1>2, <1>4, <1>5, <1>7, Reckoning
  <2>2. holds(u)' = holds(u) /\ (Held(u)' <=> Held(u))
    BY <1>1 DEF holds, Held
  <2>3. u \notin Allocated /\ u \in Allocated'
    BY <1>1, <1>2, <1>9 DEF Allocated, Shape
  <2>4. references(u)' = 1 /\ ~Held(u)
    BY <1>2, <1>9, <2>1, <2>2, <2>3, HeldIsAllocated DEF Safe, Owned
  <2>5. ~OnTop("task")' /\ ~OnTop("connect_timeout")'
    <3>1. stack' # <<>> /\ Head(stack') = h
      BY <1>1, <1>4, <1>5, LeavesStack
    <3>. QED
      BY <1>3, <3>1 DEF OnTop
  <2>. QED
    BY <1>1, <1>2, <1>9, <2>2, <2>3, <2>4, <2>5 DEF Safe, Owned
<1>. QED
  BY <1>1, <1>7, <1>8, <1>9

LEMMA LogicStep ==
  ASSUME Shape, UNCHANGED <<netVars, codecVars, appVars>>, LogicNext,
         \A t \in Requests : Safe(t)
  PROVE  Shape' /\ \A t \in Tasks : Safe(t) /\ (Starts(t) => cs[t] = "FREE") => Safe(t)'
<1>1. CASE \/ ConnectTaskDropped \/ ConnectTaskStart \/ ConnectTaskSent \/ ConnectTaskNotSent
           \/ ConnectTaskAccepted \/ ConnectTaskRefused \/ ConnectTimesOut
           \/ KeepaliveTaskStart \/ KeepaliveTaskSent \/ KeepaliveTaskTimesOut
           \/ KeepaliveTaskAnswered \/ ShutdownTaskStart \/ ShutdownTaskSent
           \/ PublishQ0Start \/ PublishQ1Dropped \/ PublishQ1Sends \/ PublishQ1Sent
           \/ SubscribeSends \/ SubscribeSent \/ SubscribeNotSent
  BY <1>1, CoroutineStep, Zenon
<1>2. CASE \/ PublishQ0Dropped \/ LogicPushConfirms \/ LogicPushIgnores \/ LogicPull
           \/ LogicPullPublish \/ LogicPullIgnores \/ PubackSent \/ LogicInit \/ LogicClose
           \/ LogicCloseExternallyConnecting \/ LogicCloseExternallyAgain \/ SubscribeAborts
           \/ (LogicConnect /\ Running.state # "OK")
  BY <1>2, PassesStep, Zenon
<1>3. CASE PublishQ1Answered \/ SubscribeAnswered \/ SubscribeConfirmedAgain
  BY <1>3, FinalizesStep, Zenon
<1>4. CASE LogicPushQ0 \/ LogicPushQ1
  BY <1>4, AcceptsStep, Zenon
<1>5. CASE KeepaliveOnce \/ (LogicConnect /\ Running.state = "OK")
  BY <1>5, OwnTaskStep, Zenon
<1>6. CASE RunNextQ0
  BY <1>6, RunNextStep, Zenon
<1>7. CASE PublishQ0Sent
  BY <1>7, PublishSentStep, Zenon
<1>8. CASE LogicPushFrees
  BY <1>8, PushFreesStep, Zenon
<1>9. CASE LogicCloseExternally
  BY <1>9, CloseExternallyStep, Zenon
<1>10. CASE LogicCloseRest
  BY <1>10, CloseRestStep, Zenon
<1>. QED
  BY <1>1, <1>2, <1>3, <1>4, <1>5, <1>6, <1>7, <1>8, <1>9, <1>10, Zenon DEF LogicNext

-----------------------------------------------------------------------------
(* The whole client.                                                       *)

\* The inductive invariant of the requests.
RequestsAreSafe == Shape /\ \A t \in Requests : Safe(t)

\* A task of the client's own is free when the client may start it: what can be
\* said of all the tasks rests on it.
OwnTasksInTurn ==
  /\ IsRunning("connect", "LOGIC") /\ Running.state = "OK" => cs["CONNECT"] = "FREE"
  /\ IsRunning("keepalive_once", "LOGIC") => cs["KEEPALIVE"] = "FREE"
  /\ AppRuns /\ "connect_handler" \notin timers /\ connection_state = "OPENED"
       /\ shutdown_state = "UNINITIALISED" => cs["SHUTDOWN"] = "FREE"

LEMMA InitIsSafe ==
  ASSUME Init
  PROVE  Shape /\ \A t \in Tasks : Safe(t)
<1>1. /\ stack = <<>> /\ queue = <<>> /\ timers = {} /\ on_socket = NULL /\ task_queue = <<>>
      /\ q0_tasks_queue = <<>> /\ q12_tasks_queue = <<>> /\ current_q0_task = NULL
      /\ cs = [t \in Tasks |-> IF t \in Publishes \cup Subscribes THEN "NEW" ELSE "FREE"]
      /\ outcome = [t \in Requests |-> <<>>]
  BY DEF Init, ChainInit, NetInit, CodecInitState, LogicStart
<1>2. AnySeq(<<>>) /\ Called(<<>>) /\ DOMAIN <<>> = {} /\ Len(<<>>) = 0
  BY AnyLiteral, PlainOnes
<1>3. Shape
  BY <1>1, <1>2 DEF Shape, Positions
<1>4. ASSUME NEW t \in Tasks PROVE Safe(t)
  <2>1. t \notin Allocated /\ t # NULL
    BY <1>1, RequestsAreTasks DEF Allocated
  <2>2. pushesOf(<<>>, t) = 0 /\ callbacksOf(<<>>, t) = 0 /\ countIn(<<>>, t) = 0
    BY <1>2, CountsOfNone DEF Range
  <2>3. references(t) = 0
    BY <1>1, <2>1, <2>2 DEF references
  <2>4. t \in Requests => told(t) = 0
    BY <1>1, <1>2, <2>2 DEF told, calls
  <2>. QED
    BY <1>1, <2>1, <2>3, <2>4 DEF Safe, Owned, ToldOnce, OnTop
<1>. QED
  BY <1>3, <1>4

LEMMA StepIsSafe ==
  ASSUME Shape, [Next]_vars, \A t \in Requests : Safe(t)
  PROVE  Shape' /\ \A t \in Tasks : Safe(t) /\ (Starts(t) => cs[t] = "FREE") => Safe(t)'
<1>1. CASE NetNext /\ UNCHANGED <<codecVars, logicVars, appVars>>
  BY <1>1, NetStep, Zenon
<1>2. CASE CodecNext /\ UNCHANGED <<netVars, logicVars, appVars>>
  BY <1>2, CodecStep, Zenon
<1>3. CASE LogicNext /\ UNCHANGED <<netVars, codecVars, appVars>>
  BY <1>3, LogicStep, Zenon
<1>4. CASE \/ ControlInit \/ ControlPush \/ ControlConnect \/ ControlCloseExternally
           \/ ConnectionCallback \/ RequestCallback \/ MessageCallback \/ UserReturns
  BY <1>4, ControlStep, Zenon
<1>5. CASE Connect \/ (\E t \in Requests : Request(t)) \/ ShutdownCancels \/ Shutdown
  BY <1>5, AppStep, Zenon
<1>6. CASE \/ Ready \/ SkipSockets \/ (\E d \in ServerPublishes : ServerSends(d))
           \/ (\E t \in TimeEvents : TimerDue(t)) \/ DanglingDue \/ TimersDone \/ QueueDone
  BY <1>6, LoopStep, Zenon
<1>7. CASE UNCHANGED vars
  <2>1. /\ UNCHANGED <<stack, queue, cs, q0_tasks_queue, q12_tasks_queue, current_q0_task>>
        /\ UNCHANGED timers /\ UNCHANGED <<outcome, on_socket, task_queue>>
    BY <1>7 DEF vars, chainVars, netVars, codecVars, logicVars, appVars
  <2>2. HandlersShape' /\ \A t \in Tasks : Safe(t) => Safe(t)'
    BY <2>1, StillStep
  <2>. QED
    BY <2>1, <2>2 DEF Shape, HandlersShape
<1>. QED
  BY <1>1, <1>2, <1>3, <1>4, <1>5, <1>6, <1>7 DEF Next, Handlers

LEMMA RequestsStaySafe ==
  ASSUME RequestsAreSafe, [Next]_vars
  PROVE  RequestsAreSafe'
<1>1. Requests \subseteq Tasks /\ \A t \in Requests : ~Starts(t)
  BY RequestsAreTasks DEF Starts, OwnTasks
<1>2. Shape' /\ \A t \in Tasks : Safe(t) /\ (Starts(t) => cs[t] = "FREE") => Safe(t)'
  BY StepIsSafe DEF RequestsAreSafe
<1>. QED
  BY <1>1, <1>2 DEF RequestsAreSafe

LEMMA RequestsAreAlwaysSafe == Spec => []RequestsAreSafe
<1>1. Init => RequestsAreSafe
  BY InitIsSafe, RequestsAreTasks DEF RequestsAreSafe
<1>2. RequestsAreSafe /\ [Next]_vars => RequestsAreSafe'
  BY RequestsStaySafe
<1>. QED
  BY <1>1, <1>2, PTL DEF Spec

\* No publish and no subscribe is reported twice for one call of the API, whatever the
\* order in which its message is written, its answer comes, its timeout expires and the
\* connection ends
\* (the coroutines of iotc_mqtt_logic_layer_*_task_handlers.h push the callback of a
\* task in the step in which they give the task up).
THEOREM NoRequestIsReportedTwice == Spec => []ReportedOnce
<1>1. RequestsAreSafe => ReportedOnce
  <2>1. SUFFICES ASSUME RequestsAreSafe, NEW t \in Requests PROVE Len(outcome[t]) <= 1
    BY DEF ReportedOnce
  <2>2. told(t) \in {0, 1}
    BY <2>1 DEF RequestsAreSafe, Safe, ToldOnce
  <2>3. calls(t) \in Nat /\ Len(outcome[t]) \in Nat
    BY <2>1, ReferencesSplit DEF RequestsAreSafe
  <2>. QED
    BY <2>2, <2>3 DEF told
<1>. QED
  BY <1>1, RequestsAreAlwaysSafe, PTL

\* What TasksHaveOneOwner says of a request: while it is allocated, exactly one of
\* the handlers that push it, the queues of the layer and current_q0_task has it, and
\* none has it before it is made or after it is freed.
RequestsHaveOneOwner ==
  \A t \in Requests : references(t) = (IF t \in Allocated THEN 1 ELSE 0)

\* Every request has exactly one owner, which will free it (iotc_mqtt_logic_layer_push
\* passes it on, the coroutines finalize it, close_externally frees what is left): it
\* is neither lost nor freed twice.
THEOREM EveryRequestHasOneOwner == Spec => []RequestsHaveOneOwner
<1>1. RequestsAreSafe => RequestsHaveOneOwner
  BY DEF RequestsAreSafe, RequestsHaveOneOwner, Safe, Owned
<1>. QED
  BY <1>1, RequestsAreAlwaysSafe, PTL

\* Whose timeout waits, or whose coroutine is resumed, is held by the layer and not
\* freed.
ResumedAreHeld ==
  \A t \in Requests :
    t \in timers \/ (IsRunning("task", "LOGIC") /\ Running.data.task = t)
      => Held(t) /\ t \in Allocated

\* No timeout of a request that was freed is left in the dispatcher, and no coroutine
\* of one is resumed: by a confirmation, an answer, a timeout or the end of the
\* connection (what cancel_task_timeout and the lookups by message id are for).
THEOREM NoFreedRequestIsResumed == Spec => []ResumedAreHeld
<1>1. RequestsAreSafe => ResumedAreHeld
  <2>1. SUFFICES ASSUME RequestsAreSafe, NEW t \in Requests,
                        t \in timers \/ (IsRunning("task", "LOGIC") /\ Running.data.task = t)
                 PROVE  Held(t) /\ t \in Allocated
    BY DEF ResumedAreHeld
  <2>2. Shape /\ Safe(t) /\ t \in Tasks
    BY <2>1, RequestsAreTasks DEF RequestsAreSafe
  <2>3. Held(t)
    BY <2>1, <2>2, ResumedIsHeld DEF Safe, Owned
  <2>. QED
    BY <2>2, <2>3, HeldIsAllocated DEF Safe
<1>. QED
  BY <1>1, RequestsAreAlwaysSafe, PTL

\* A request that was reported is over.
ReportedAreOver ==
  \A t \in Requests :
    outcome[t] # <<>> => cs[t] # "NEW" /\ (t \in Allocated => OnTop("run_next"))

\* A request that was reported is freed, or the very next handler frees it: the
\* application is never told of the end of a request that goes on.
THEOREM WhatIsReportedIsOver == Spec => []ReportedAreOver
<1>1. RequestsAreSafe => ReportedAreOver
  <2>1. SUFFICES ASSUME RequestsAreSafe, NEW t \in Requests, outcome[t] # <<>>
                 PROVE  cs[t] # "NEW" /\ (t \in Allocated => OnTop("run_next"))
    BY DEF ReportedAreOver
  <2>2. ToldOnce(t)
    BY <2>1 DEF RequestsAreSafe, Safe
  <2>3. calls(t) \in Nat /\ Len(outcome[t]) \in Nat /\ Len(outcome[t]) # 0
    BY <2>1, ReferencesSplit, AnySeqParts DEF RequestsAreSafe, Shape
  <2>4. told(t) # 0
    BY <2>3 DEF told
  <2>. QED
    BY <2>2, <2>4 DEF ToldOnce
<1>. QED
  BY <1>1, RequestsAreAlwaysSafe, PTL

-----------------------------------------------------------------------------
(* The tasks of the client's own.                                          *)

TasksAreSafe == Shape /\ \A t \in Tasks : Safe(t)

\* Every task has exactly one owner, the client's own three too, if none of them is
\* started while it is still there: the task of a connect in
\* iotc_mqtt_logic_layer_connect, of a keepalive in do_mqtt_keepalive_once, of a
\* shutdown in iotc_shutdown_connection.
THEOREM TasksInTurnHaveOneOwner == Spec /\ []OwnTasksInTurn => []TasksHaveOneOwner
<1>1. Init => TasksAreSafe
  BY InitIsSafe DEF TasksAreSafe
<1>2. TasksAreSafe /\ OwnTasksInTurn /\ [Next]_vars => TasksAreSafe'
  <2>1. SUFFICES ASSUME TasksAreSafe, OwnTasksInTurn, [Next]_vars PROVE TasksAreSafe'
    OBVIOUS
  <2>2. Requests \subseteq Tasks
    BY RequestsAreTasks
  <2>3. \A t \in Tasks : Starts(t) => cs[t] = "FREE"
    BY <2>1 DEF OwnTasksInTurn, Starts, Shutdown
  <2>4. Shape' /\ \A t \in Tasks : Safe(t) /\ (Starts(t) => cs[t] = "FREE") => Safe(t)'
    BY <2>1, <2>2, StepIsSafe DEF TasksAreSafe
  <2>5. Tasks' = Tasks
    OBVIOUS
  <2>. QED
    BY <2>1, <2>3, <2>4 DEF TasksAreSafe
<1>3. TasksAreSafe => TasksHaveOneOwner
  BY DEF TasksAreSafe, TasksHaveOneOwner, Safe, Owned
<1>. QED
  BY <1>1, <1>2, <1>3, PTL DEF Spec
=============================================================================
