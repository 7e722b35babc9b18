------------------------- MODULE ListeningSyncProofs -------------------------
(***************************************************************************)
(* For any readers, devices, queues and interleavings of uploads.          *)
(***************************************************************************)
EXTENDS ListeningSync, SequenceTheorems, FiniteSetTheorems, WellFoundedInduction, TLAPS

\* What holds of a queue that is left of another one: its items are typed, and
\* each of them was there, two in two places.
Parted(new, old) ==
  \A i, j \in DOMAIN new :
    i # j => \E p, q \in DOMAIN old : p # q /\ new[i] = old[p] /\ new[j] = old[q]
From(new, old) ==
  /\ new \in Seq(Item) /\ Len(new) <= Len(old) /\ Parted(new, old)
  /\ \A i \in DOMAIN new : \E j \in DOMAIN old : new[i] = old[j]

\* A set of numbers that is not empty has a least one.
LEMMA MinIsIn ==
  ASSUME NEW S \in SUBSET Nat, S # {}
  PROVE  Min(S) \in S /\ \A y \in S : Min(S) <= y
<1>1. PICK x \in S : \A y \in S : ~(<<y, x>> \in OpToRel(<, Nat))
  BY NatLessThanWellFounded, WFMin
<1>2. OpToRel(<, Nat) = {r \in Nat \X Nat : r[1] < r[2]}
  BY DEF OpToRel
<1>3. ASSUME NEW y \in S, y < x PROVE FALSE
  <2>1. <<y, x>> \in Nat \X Nat
    OBVIOUS
  <2>2. <<y, x>> \in {r \in Nat \X Nat : r[1] < r[2]}
    BY <1>3, <2>1
  <2>3. QED BY <1>1, <1>2, <2>2
<1>4. \A y \in S : x <= y
  BY <1>3
<1>5. QED BY <1>4 DEF Min

\* A queue without one of its items has all the others and nothing else.
LEMMA WithoutOne ==
  ASSUME NEW S, NEW s \in Seq(S), NEW k \in DOMAIN s
  PROVE  /\ RemoveAt(s, k) \in Seq(S) /\ Len(RemoveAt(s, k)) = Len(s) - 1 /\ Parted(RemoveAt(s, k), s)
         /\ \A i \in DOMAIN RemoveAt(s, k) : \E j \in DOMAIN s : RemoveAt(s, k)[i] = s[j]
         /\ \A j \in DOMAIN s \ {k} : \E i \in DOMAIN RemoveAt(s, k) : RemoveAt(s, k)[i] = s[j]
<1> DEFINE a == SubSeq(s, 1, k - 1)
           b == SubSeq(s, k + 1, Len(s))
<1>1. Len(s) \in Nat /\ k \in 1 .. Len(s) /\ DOMAIN s = 1 .. Len(s) /\ \A i \in 1 .. Len(s) : s[i] \in S
  BY LenProperties, ElementOfSeq
<1>2. /\ a \in Seq(S) /\ Len(a) = k - 1
      /\ \A i \in 1 .. k - 1 : a[i] = s[i]
  <2>1. \A i \in 1 .. k - 1 : s[i] \in S
    BY <1>1
  <2>2. /\ a \in Seq(S)
        /\ Len(a) = IF 1 <= k - 1 THEN k - 1 - 1 + 1 ELSE 0
        /\ \A i \in 1 .. k - 1 - 1 + 1 : a[i] = s[1 + i - 1]
    BY <1>1, <2>1, SubSeqProperties
  <2> HIDE DEF a
  <2>3. k - 1 - 1 + 1 = k - 1 /\ \A i \in 1 .. k - 1 : 1 + i - 1 = i
    BY <1>1
  <2>4. QED BY <1>1, <2>2, <2>3
<1>3. /\ b \in Seq(S) /\ Len(b) = Len(s) - k
      /\ \A i \in 1 .. Len(s) - k : b[i] = s[k + i]
  <2>1. \A i \in k + 1 .. Len(s) : s[i] \in S
    BY <1>1
  <2>2. /\ b \in Seq(S)
        /\ Len(b) = IF k + 1 <= Len(s) THEN Len(s) - (k + 1) + 1 ELSE 0
        /\ \A i \in 1 .. Len(s) - (k + 1) + 1 : b[i] = s[k + 1 + i - 1]
    BY <1>1, <2>1, SubSeqProperties
  <2> HIDE DEF b
  <2>3. Len(s) - (k + 1) + 1 = Len(s) - k /\ \A i \in 1 .. Len(s) - k : k + 1 + i - 1 = k + i
    BY <1>1
  <2>4. QED BY <1>1, <2>2, <2>3
<1>4. RemoveAt(s, k) = a \o b
  BY DEF RemoveAt
<1> HIDE DEF a, b
<1>5. /\ a \o b \in Seq(S) /\ Len(a \o b) = Len(s) - 1
      /\ DOMAIN (a \o b) = 1 .. Len(s) - 1
      /\ \A i \in 1 .. Len(s) - 1 : (a \o b)[i] = IF i < k THEN s[i] ELSE s[i + 1]
  <2>1. /\ a \o b \in Seq(S) /\ Len(a \o b) = Len(a) + Len(b)
        /\ \A i \in 1 .. Len(a) + Len(b) : (a \o b)[i] = IF i <= Len(a) THEN a[i] ELSE b[i - Len(a)]
    BY <1>2, <1>3, ConcatProperties
  <2>2. DOMAIN (a \o b) = 1 .. Len(a \o b)
    BY <2>1, LenProperties
  <2>3. Len(a \o b) = Len(s) - 1
    BY <1>1, <1>2, <1>3, <2>1
  <2>4. ASSUME NEW i \in 1 .. Len(s) - 1
        PROVE  (a \o b)[i] = IF i < k THEN s[i] ELSE s[i + 1]
    <3>1. (a \o b)[i] = IF i <= Len(a) THEN a[i] ELSE b[i - Len(a)]
      BY <1>1, <2>1, <2>3
    <3>2. CASE i < k
      BY <1>1, <1>2, <3>1, <3>2
    <3>3. CASE ~(i < k)
      <4>1. i - (k - 1) \in 1 .. Len(s) - k /\ k + (i - (k - 1)) = i + 1 /\ ~(i <= Len(a))
        BY <1>1, <1>2, <3>3
      <4>2. b[i - (k - 1)] = s[i + 1]
        BY <1>3, <4>1
      <4>3. QED BY <1>2, <3>1, <3>3, <4>1, <4>2
    <3>4. QED BY <3>2, <3>3
  <2>5. QED BY <2>1, <2>2, <2>3, <2>4
<1>6. \A i \in 1 .. Len(s) - 1 : \E j \in DOMAIN s : (a \o b)[i] = s[j]
  <2> TAKE i \in 1 .. Len(s) - 1
  <2>1. i \in DOMAIN s /\ i + 1 \in DOMAIN s
    BY <1>1
  <2>2. QED BY <1>5, <2>1
<1>7. ASSUME NEW j \in DOMAIN s \ {k}
      PROVE  \E i \in 1 .. Len(s) - 1 : (a \o b)[i] = s[j]
  <2>1. CASE j < k
    <3>1. j \in 1 .. Len(s) - 1
      BY <1>1, <2>1
    <3>2. QED BY <1>5, <2>1, <3>1
  <2>2. CASE j > k
    <3>1. j - 1 \in 1 .. Len(s) - 1 /\ ~(j - 1 < k) /\ j - 1 + 1 = j
      BY <1>1, <2>2
    <3>2. QED BY <1>5, <3>1
  <2>3. j < k \/ j > k
    BY <1>1
  <2>4. QED BY <2>1, <2>2, <2>3
<1>8. Parted(a \o b, s)
  <2> DEFINE was(i) == IF i < k THEN i ELSE i + 1
  <2>1. ASSUME NEW i \in 1 .. Len(s) - 1
        PROVE  was(i) \in DOMAIN s /\ (a \o b)[i] = s[was(i)]
    <3>1. i \in DOMAIN s /\ i + 1 \in DOMAIN s
      BY <1>1
    <3>2. CASE i < k
      BY <1>5, <3>1, <3>2
    <3>3. CASE ~(i < k)
      BY <1>5, <3>1, <3>3
    <3>4. QED BY <3>2, <3>3
  <2>2. \A i, j \in 1 .. Len(s) - 1 : i # j => was(i) # was(j)
    BY <1>1
  <2> HIDE DEF was
  <2>3. QED BY <1>5, <2>1, <2>2 DEF Parted
<1>9. QED BY <1>4, <1>5, <1>6, <1>7, <1>8

\* What is left of a queue is numbered without gaps, and all of it was there.
LEMMA KeptItems ==
  ASSUME NEW s \in Seq(Item), NEW ids
  PROVE  /\ From(Keep(s, ids), s)
         /\ \A i \in DOMAIN Keep(s, ids) : Keep(s, ids)[i].id \in ids
         /\ \A j \in DOMAIN s : s[j].id \in ids => \E i \in DOMAIN Keep(s, ids) : Keep(s, ids)[i] = s[j]
<1> DEFINE left == {i \in DOMAIN s : s[i].id \in ids}
           upTo(i) == {j \in left : j <= i}
           n == Cardinality(left)
<1>1. Len(s) \in Nat /\ DOMAIN s = 1 .. Len(s) /\ \A i \in DOMAIN s : s[i] \in Item
  BY LenProperties, ElementOfSeq
<1>2. left \in SUBSET Nat /\ left \subseteq 1 .. Len(s) /\ IsFiniteSet(left) /\ n \in Nat
  <2>1. IsFiniteSet(1 .. Len(s))
    BY <1>1, FS_Interval
  <2>2. left \subseteq 1 .. Len(s)
    BY <1>1
  <2>3. IsFiniteSet(left)
    BY <2>1, <2>2, FS_Subset
  <2>4. QED BY <1>1, <2>2, <2>3, FS_CardinalityType
<1>3. \A i \in left : IsFiniteSet(upTo(i)) /\ Cardinality(upTo(i)) \in Nat
  <2>1. \A i \in left : upTo(i) \subseteq left
    OBVIOUS
  <2>2. QED BY <1>2, <2>1, FS_Subset, FS_CardinalityType
<1>4. \A k \in 1 .. n : \E i \in left : Cardinality(upTo(i)) = k
  <2> DEFINE T == {k \in 1 .. n : \A i \in left : Cardinality(upTo(i)) # k}
  <2> SUFFICES ASSUME T # {} PROVE FALSE
    OBVIOUS
  <2>1. T \in SUBSET Nat
    BY <1>2
  <2> DEFINE k == Min(T)
  <2>2. k \in T /\ \A y \in T : k <= y
    BY <2>1, MinIsIn
  <2> HIDE DEF k
  <2>3. CASE k = 1
    <3>1. left # {}
      <4>1. ASSUME left = {} PROVE FALSE
        <5>1. n = 0
          BY <4>1, FS_EmptySet
        <5>2. QED BY <2>2, <5>1
      <4>2. QED BY <4>1
    <3> DEFINE m == Min(left)
    <3>2. m \in left /\ \A y \in left : m <= y
      BY <1>2, <3>1, MinIsIn
    <3> HIDE DEF m
    <3>3. upTo(m) = {m}
      BY <1>2, <3>2
    <3>4. Cardinality(upTo(m)) = 1
      BY <3>3, FS_Singleton
    <3>5. QED BY <2>2, <2>3, <3>2, <3>4
  <2>4. CASE k # 1
    <3>1. k - 1 \in 1 .. n /\ k - 1 \notin T
      BY <1>2, <2>2, <2>4
    <3>2. PICK i \in left : Cardinality(upTo(i)) = k - 1
      BY <3>1
    <3> DEFINE rest == {j \in left : j > i}
    <3>3. rest # {}
      <4>1. ASSUME rest = {} PROVE FALSE
        <5>1. upTo(i) = left
          BY <1>2, <4>1
        <5>2. n = k - 1
          BY <3>2, <5>1
        <5>3. QED BY <1>2, <2>2, <5>2
      <4>2. QED BY <4>1
    <3> DEFINE m == Min(rest)
    <3>4. m \in rest /\ \A y \in rest : m <= y
      <4>1. rest \in SUBSET Nat
        BY <1>2
      <4>2. QED BY <3>3, <4>1, MinIsIn
    <3> HIDE DEF m
    <3>5. upTo(m) = upTo(i) \cup {m} /\ m \notin upTo(i)
      BY <1>2, <3>4
    <3>6. Cardinality(upTo(m)) = k - 1 + 1
      <4> DEFINE u == upTo(i)
      <4>1. IsFiniteSet(u) /\ upTo(m) = u \cup {m} /\ m \notin u /\ Cardinality(u) = k - 1
        BY <1>3, <3>2, <3>5
      <4> HIDE DEF u, upTo
      <4>2. QED BY <4>1, FS_AddElement
    <3>7. Cardinality(upTo(m)) = k
      BY <1>2, <2>2, <3>6
    <3>8. QED BY <2>2, <3>4, <3>7
  <2>5. QED BY <2>3, <2>4
<1> DEFINE at(k) == CHOOSE i \in left : Cardinality(upTo(i)) = k
<1>5. \A k \in 1 .. n : at(k) \in left
  BY <1>4
<1>6. Keep(s, ids) = [k \in 1 .. n |-> s[at(k)]]
  BY DEF Keep
<1> HIDE DEF at, n
<1>7. \A k \in 1 .. n : at(k) \in DOMAIN s /\ s[at(k)] \in Item
  BY <1>1, <1>5
<1>8. [k \in 1 .. n |-> s[at(k)]] \in Seq(Item)
  <2>1. n \in Nat /\ \A k \in 1 .. n : s[at(k)] \in Item
    BY <1>2, <1>7
  <2>2. QED BY <2>1, IsASeq
<1>9. \A k, m \in 1 .. n : k # m => at(k) # at(m)
  <2>1. \A k \in 1 .. n : Cardinality(upTo(at(k))) = k
    BY <1>4 DEF at
  <2> HIDE DEF upTo
  <2>2. QED BY <2>1
<1>10. \A i \in left : \E k \in 1 .. n : at(k) = i
  <2> TAKE i \in left
  <2> DEFINE k == Cardinality(upTo(i))
  <2>1. k \in 1 .. n
    <3>1. upTo(i) \subseteq left /\ i \in upTo(i)
      BY <1>2
    <3>2. k <= n
      BY <1>2, <3>1, FS_Subset DEF n
    <3>3. k # 0
      BY <1>3, <3>1, FS_EmptySet
    <3>4. k \in Nat
      BY <1>3
    <3>5. n \in Nat
      BY <1>2 DEF n
    <3> HIDE DEF k
    <3>6. QED BY <3>2, <3>3, <3>4, <3>5
  <2>2. at(k) \in left /\ Cardinality(upTo(at(k))) = k
    BY <1>4, <2>1 DEF at
  <2>3. ASSUME NEW a \in left, NEW b \in left, a < b PROVE Cardinality(upTo(a)) # Cardinality(upTo(b))
    <3>1. upTo(a) \subseteq upTo(b) /\ b \in upTo(b) /\ b \notin upTo(a)
      BY <1>2, <2>3
    <3>2. IsFiniteSet(upTo(b)) /\ upTo(a) # upTo(b)
      BY <1>3, <3>1
    <3> HIDE DEF upTo
    <3>3. QED BY <3>1, <3>2, FS_Subset
  <2>4. at(k) \in Nat /\ i \in Nat
    BY <1>2, <2>2
  <2> HIDE DEF upTo
  <2>5. at(k) = i
    BY <2>2, <2>3, <2>4
  <2>6. QED BY <2>1, <2>5
<1>11. n <= Len(s)
  <2>1. IsFiniteSet(1 .. Len(s)) /\ Cardinality(1 .. Len(s)) = Len(s)
    BY <1>1, FS_Interval
  <2>2. Cardinality(left) <= Cardinality(1 .. Len(s))
    BY <1>2, <2>1, FS_Subset
  <2>3. QED BY <2>1, <2>2 DEF n
<1> DEFINE kept == [k \in 1 .. n |-> s[at(k)]]
<1>12. DOMAIN kept = 1 .. n /\ \A k \in 1 .. n : kept[k] = s[at(k)]
  OBVIOUS
<1>13. Len(kept) = n
  <2>1. n \in Nat
    BY <1>2 DEF n
  <2>2. QED BY <1>8, <1>12, <2>1, LenProperties
<1> HIDE DEF kept
<1>14. Parted(kept, s)
  BY <1>7, <1>9, <1>12 DEF Parted
<1>15. \A i \in DOMAIN kept : \E j \in DOMAIN s : kept[i] = s[j]
  BY <1>7, <1>12
<1>16. \A i \in DOMAIN kept : kept[i].id \in ids
  BY <1>5, <1>12
<1>17. \A j \in DOMAIN s : s[j].id \in ids => \E i \in DOMAIN kept : kept[i] = s[j]
  BY <1>10, <1>12
<1>18. kept \in Seq(Item)
  BY <1>8 DEF kept
<1>19. From(kept, s)
  BY <1>11, <1>13, <1>14, <1>15, <1>18 DEF From
<1>20. Keep(s, ids) = kept
  BY <1>6 DEF kept
<1>21. QED BY <1>16, <1>17, <1>19, <1>20
-----------------------------------------------------------------------------
\* The current item is kept, if there is another.
Spares(new, old, current) ==
  \A j \in DOMAIN old :
    old[j].id = current /\ (\E k \in DOMAIN old : old[k].id # current)
      => \E i \in DOMAIN new : new[i] = old[j]

\* The limit drops an item, but not the current one if there is another.
LEMMA Trimmed ==
  ASSUME NEW items \in Seq(Item), NEW current
  PROVE  /\ From(Trim(items, current), items) /\ Spares(Trim(items, current), items, current)
         /\ Len(items) <= MaxQueue + 1 => Len(Trim(items, current)) <= MaxQueue
<1> DEFINE other == {i \in DOMAIN items : items[i].id # current}
           finished == {i \in other : items[i].finished}
<1>1. Len(items) \in Nat /\ DOMAIN items = 1 .. Len(items) /\ \A i \in DOMAIN items : items[i] \in Item
  BY LenProperties, ElementOfSeq
<1>2. other \in SUBSET Nat /\ finished \in SUBSET Nat
  BY <1>1
<1>3. ASSUME NEW k \in other, Trim(items, current) = RemoveAt(items, k)
      PROVE  /\ From(Trim(items, current), items)
             /\ Spares(Trim(items, current), items, current)
             /\ Len(Trim(items, current)) = Len(items) - 1
  <2>1. /\ RemoveAt(items, k) \in Seq(Item) /\ Len(RemoveAt(items, k)) = Len(items) - 1
        /\ Parted(RemoveAt(items, k), items)
        /\ \A i \in DOMAIN RemoveAt(items, k) : \E j \in DOMAIN items : RemoveAt(items, k)[i] = items[j]
        /\ \A j \in DOMAIN items \ {k} :
             \E i \in DOMAIN RemoveAt(items, k) : RemoveAt(items, k)[i] = items[j]
    BY WithoutOne
  <2>2. QED BY <1>1, <1>3, <2>1 DEF From, Spares
<1>4. Len(items) <= MaxQueue + 1 => Len(items) - 1 <= MaxQueue
  BY <1>1, BoundsAssumption
<1>5. CASE Len(items) <= MaxQueue
  BY <1>1, <1>5 DEF Trim, From, Parted, Spares
<1>6. CASE ~(Len(items) <= MaxQueue) /\ finished # {}
  <2>1. Min(finished) \in other
    BY <1>2, <1>6, MinIsIn
  <2>2. Trim(items, current) = RemoveAt(items, Min(finished))
    BY <1>6 DEF Trim
  <2>3. /\ From(Trim(items, current), items) /\ Spares(Trim(items, current), items, current)
        /\ Len(Trim(items, current)) = Len(items) - 1
    BY <1>3, <2>1, <2>2
  <2>4. QED BY <1>4, <2>3
<1>7. CASE ~(Len(items) <= MaxQueue) /\ finished = {} /\ other # {}
  <2>1. Min(other) \in other
    BY <1>2, <1>7, MinIsIn
  <2>2. Trim(items, current) = RemoveAt(items, Min(other))
    BY <1>7 DEF Trim
  <2>3. /\ From(Trim(items, current), items) /\ Spares(Trim(items, current), items, current)
        /\ Len(Trim(items, current)) = Len(items) - 1
    BY <1>3, <2>1, <2>2
  <2>4. QED BY <1>4, <2>3
<1>8. CASE ~(Len(items) <= MaxQueue) /\ finished = {} /\ other = {}
  <2>1. Trim(items, current) = Tail(items)
    BY <1>8 DEF Trim
  <2>2. items # << >>
    BY <1>1, <1>8, BoundsAssumption
  <2>3. /\ Tail(items) \in Seq(Item) /\ Len(Tail(items)) = Len(items) - 1
        /\ \A i \in 1 .. Len(Tail(items)) : Tail(items)[i] = items[i + 1]
    BY <2>2, HeadTailProperties
  <2>4. DOMAIN Tail(items) = 1 .. Len(Tail(items))
    BY <2>3, LenProperties
  <2>5. \A i \in DOMAIN Tail(items) : i + 1 \in DOMAIN items
    BY <1>1, <2>3, <2>4
  <2>6. Parted(Tail(items), items)
    BY <1>1, <2>3, <2>4, <2>5 DEF Parted
  <2>7. From(Tail(items), items) /\ Spares(Tail(items), items, current)
    BY <1>1, <1>8, <2>3, <2>4, <2>5, <2>6 DEF From, Spares
  <2>8. QED BY <1>4, <2>1, <2>3, <2>7
<1>9. QED BY <1>5, <1>6, <1>7, <1>8
-----------------------------------------------------------------------------
Readers == Users \cup {Guest}
Bys(doc) == {doc.items[i].by : i \in DOMAIN doc.items}

\* A document with other fields.
Has(doc, items, current, at) ==
  doc \in Docs /\ doc.items = items /\ doc.current = current /\ doc.at = at

LEMMA Excepted ==
  ASSUME NEW doc \in Docs, NEW items \in Seq(Item), NEW current \in News \cup {None},
         NEW t \in Time, NEW new
  PROVE  /\ new = [doc EXCEPT !.items = items, !.at = t] => Has(new, items, doc.current, t)
         /\ new = [doc EXCEPT !.items = items, !.current = current, !.at = t]
              => Has(new, items, current, t)
BY DEF Docs, Has

LEMMA FieldsOf ==
  ASSUME NEW doc \in Docs
  PROVE  /\ doc.items \in Seq(Item) /\ doc.current \in News \cup {None}
         /\ doc.auto \in BOOLEAN /\ doc.at \in Time
BY DEF Docs

LEMMA IdsAreNews ==
  ASSUME NEW doc \in Docs
  PROVE  Ids(doc) \subseteq News /\ \A j \in DOMAIN doc.items : doc.items[j].id \in News
<1>1. doc.items \in Seq(Item)
  BY FieldsOf
<1>2. \A j \in DOMAIN doc.items : doc.items[j] \in Item
  BY <1>1, LenProperties, ElementOfSeq
<1>3. \A j \in DOMAIN doc.items : doc.items[j].id \in News
  BY <1>2 DEF Item
<1>4. QED BY <1>3 DEF Ids

\* Only a queued card is the current one, and nothing else changes.
LEMMA Sanitized ==
  ASSUME NEW doc \in Docs
  PROVE  /\ Sanitize(doc) \in Docs /\ Sanitize(doc).items = doc.items
         /\ Sanitize(doc).at = doc.at /\ Bys(Sanitize(doc)) = Bys(doc) /\ Ids(Sanitize(doc)) = Ids(doc)
<1> DEFINE current == IF doc.current \in Ids(doc) THEN doc.current ELSE None
<1>1. current \in News \cup {None}
  BY FieldsOf
<1>2. Sanitize(doc) = [doc EXCEPT !.current = current]
  BY DEF Sanitize
<1> HIDE DEF current
<1>3. Sanitize(doc) \in Docs /\ Sanitize(doc).items = doc.items /\ Sanitize(doc).at = doc.at
  BY <1>1, <1>2 DEF Docs
<1>4. QED BY <1>3 DEF Bys, Ids

\* What is left of a queue without repetitions has none.
Distinct(items) == \A i, j \in DOMAIN items : items[i].id = items[j].id => i = j

LEMMA DistinctLeft ==
  ASSUME NEW old, NEW new, From(new, old), Distinct(old)
  PROVE  Distinct(new)
BY DEF From, Parted, Distinct

LEMMA NeatLeft ==
  ASSUME NEW old \in Seq(Item), NEW new, From(new, old), Neat(old)
  PROVE  Neat(new)
<1>1. Distinct(new)
  BY DistinctLeft DEF Distinct, Neat
<1>2. Len(new) \in Nat /\ Len(old) \in Nat /\ Len(new) <= Len(old) /\ Len(old) <= MaxQueue
  BY LenProperties DEF From, Neat
<1>3. Len(new) <= MaxQueue
  BY <1>2, BoundsAssumption
<1>4. QED BY <1>1, <1>3 DEF Distinct, Neat

\* A queue with one more card, of the reader by; the current one is still there.
Grows(new, old, by) ==
  /\ new \in Seq(Item)
  /\ \A i \in DOMAIN new : new[i].by = by \/ \E j \in DOMAIN old : new[i] = old[j]
AllOf(new, old) == \A j \in DOMAIN old : \E i \in DOMAIN new : new[i] = old[j]
Retains(new, old, current) ==
  \A j \in DOMAIN old : old[j].id = current => \E i \in DOMAIN new : new[i] = old[j]

LEMMA Grown ==
  ASSUME NEW items \in Seq(Item), NEW n \in News, NEW by \in Readers, NEW current
  PROVE  LET new == Trim(Append(items, NewItem(n, by)), current)
         IN  /\ Grows(new, items, by) /\ (n # current => Retains(new, items, current))
             /\ Len(items) < MaxQueue => AllOf(new, items)
             /\ Neat(items) /\ (\A i \in DOMAIN items : items[i].id # n) => Neat(new)
<1> DEFINE more == Append(items, NewItem(n, by))
           new == Trim(more, current)
<1>1. NewItem(n, by) \in Item /\ NewItem(n, by).id = n /\ NewItem(n, by).by = by
  BY DEF NewItem, Item, Readers
<1>2. Len(items) \in Nat /\ DOMAIN items = 1 .. Len(items)
  BY LenProperties
<1>3. /\ more \in Seq(Item) /\ Len(more) = Len(items) + 1 /\ more[Len(items) + 1] = NewItem(n, by)
      /\ \A i \in 1 .. Len(items) : more[i] = items[i]
  BY <1>1, AppendProperties
<1>4. DOMAIN more = 1 .. Len(items) + 1
  BY <1>3, LenProperties
<1> HIDE DEF more
<1>5. From(new, more) /\ Spares(new, more, current)
  BY <1>3, Trimmed
<1> HIDE DEF new
<1>6. \A k \in DOMAIN more : more[k] = NewItem(n, by) \/ \E j \in DOMAIN items : more[k] = items[j]
  BY <1>2, <1>3, <1>4
<1>7. ASSUME NEW i \in DOMAIN new
      PROVE  new[i].by = by \/ \E j \in DOMAIN items : new[i] = items[j]
  <2>1. PICK k \in DOMAIN more : new[i] = more[k]
    BY <1>5 DEF From
  <2>2. QED BY <1>1, <1>6, <2>1
<1>8. ASSUME NEW j \in DOMAIN items, items[j].id = current, n # current
      PROVE  \E i \in DOMAIN new : new[i] = items[j]
  <2>1. j \in DOMAIN more /\ more[j] = items[j]
    BY <1>2, <1>3, <1>4
  <2>2. Len(items) + 1 \in DOMAIN more /\ more[Len(items) + 1].id # current
    BY <1>1, <1>2, <1>3, <1>4, <1>8
  <2>3. QED BY <1>5, <1>8, <2>1, <2>2 DEF Spares
<1>9. ASSUME Neat(items), \A i \in DOMAIN items : items[i].id # n PROVE Neat(new)
  <2>1. ASSUME NEW i \in DOMAIN more, NEW j \in DOMAIN more, more[i].id = more[j].id PROVE i = j
    <3>1. CASE i \in DOMAIN items /\ j \in DOMAIN items
      BY <1>2, <1>3, <1>9, <2>1, <3>1 DEF Neat
    <3>2. CASE i = Len(items) + 1 /\ j \in DOMAIN items
      BY <1>1, <1>2, <1>3, <1>9, <2>1, <3>2
    <3>3. CASE j = Len(items) + 1 /\ i \in DOMAIN items
      BY <1>1, <1>2, <1>3, <1>9, <2>1, <3>3
    <3>4. CASE i = Len(items) + 1 /\ j = Len(items) + 1
      BY <3>4
    <3>5. \A k \in DOMAIN more : k \in DOMAIN items \/ k = Len(items) + 1
      BY <1>2, <1>4
    <3>6. QED BY <3>1, <3>2, <3>3, <3>4, <3>5
  <2>2. Distinct(new)
    BY <1>5, <2>1, DistinctLeft DEF Distinct
  <2>3. Len(more) <= MaxQueue + 1
    BY <1>2, <1>3, <1>9, BoundsAssumption DEF Neat
  <2>4. Len(new) <= MaxQueue
    BY <1>3, <2>3, Trimmed DEF new
  <2>5. QED BY <2>2, <2>4 DEF Distinct, Neat
<1>10. ASSUME Len(items) < MaxQueue, NEW j \in DOMAIN items
       PROVE  \E i \in DOMAIN new : new[i] = items[j]
  <2>1. Len(more) <= MaxQueue
    BY <1>2, <1>3, <1>10, BoundsAssumption
  <2>2. new = more
    BY <2>1 DEF new, Trim
  <2>3. j \in DOMAIN more /\ more[j] = items[j]
    BY <1>2, <1>3, <1>4
  <2>4. QED BY <2>2, <2>3
<1>11. QED BY <1>5, <1>7, <1>8, <1>9, <1>10 DEF From, Grows, Retains, AllOf, new, more
-----------------------------------------------------------------------------
\* What an edit by a reader makes of a document: no card comes from anyone else,
\* and the queue stays in order.  Which cards stay is said of each edit.
Made(doc, old, by) ==
  /\ doc \in Docs /\ Bys(doc) \subseteq Bys(old) \cup {by}
  /\ Neat(old.items) => Neat(doc.items)
Stays(n, doc, old) == n \in Ids(old) => n \in Ids(doc)

\* Items of the old queue, or of the reader, make a document of theirs.
LEMMA Assembled ==
  ASSUME NEW old \in Docs, NEW by, NEW new \in Docs,
         \A i \in DOMAIN new.items :
           new.items[i].by = by \/ \E j \in DOMAIN old.items : new.items[i].by = old.items[j].by,
         Neat(old.items) => Neat(new.items)
  PROVE  Made(new, old, by)
BY DEF Made, Bys

LEMMA Enqueued ==
  ASSUME NEW doc \in Docs, NEW n \in News, NEW by \in Readers, NEW t \in Time, n \notin Ids(doc)
  PROVE  LET new == EnqueueNews(doc, n, by, t)
         IN  /\ Made(new, doc, by) /\ (n # doc.current => Stays(doc.current, new, doc))
             /\ Len(doc.items) < MaxQueue => \A m : Stays(m, new, doc)
<1> DEFINE items == Trim(Append(doc.items, NewItem(n, by)), doc.current)
           new == EnqueueNews(doc, n, by, t)
<1>1. new = [doc EXCEPT !.items = items, !.at = t]
  BY DEF EnqueueNews
<1>2. /\ items \in Seq(Item)
      /\ \A i \in DOMAIN items : items[i].by = by \/ \E j \in DOMAIN doc.items : items[i] = doc.items[j]
      /\ \A j \in DOMAIN doc.items : doc.items[j].id = doc.current /\ n # doc.current
           => \E i \in DOMAIN items : items[i] = doc.items[j]
      /\ Len(doc.items) < MaxQueue => AllOf(items, doc.items)
      /\ Neat(doc.items) => Neat(items)
  <2>1. doc.items \in Seq(Item) /\ \A i \in DOMAIN doc.items : doc.items[i].id # n
    BY FieldsOf DEF Ids
  <2>2. /\ Grows(items, doc.items, by) /\ (n # doc.current => Retains(items, doc.items, doc.current))
        /\ Len(doc.items) < MaxQueue => AllOf(items, doc.items)
        /\ Neat(doc.items) => Neat(items)
    BY <2>1, Grown
  <2>3. QED BY <2>2 DEF Grows, Retains
<1> HIDE DEF items, new
<1>3. Has(new, items, doc.current, t)
  BY <1>1, <1>2, FieldsOf, Excepted
<1>4. Made(new, doc, by)
  <2>1. \A i \in DOMAIN items : items[i].by = by \/ \E j \in DOMAIN doc.items : items[i].by = doc.items[j].by
    BY <1>2
  <2>2. QED BY <1>3, <1>2, <2>1, Assembled DEF Has
<1>5. ASSUME n # doc.current, doc.current \in Ids(doc) PROVE doc.current \in Ids(new)
  <2>1. PICK j \in DOMAIN doc.items : doc.items[j].id = doc.current
    BY <1>5 DEF Ids
  <2>2. PICK i \in DOMAIN items : items[i] = doc.items[j]
    BY <1>2, <1>5, <2>1
  <2>3. QED BY <1>3, <2>1, <2>2 DEF Ids, Has
<1>6. ASSUME Len(doc.items) < MaxQueue, NEW m \in Ids(doc) PROVE m \in Ids(new)
  <2>1. PICK j \in DOMAIN doc.items : doc.items[j].id = m
    BY DEF Ids
  <2>2. PICK i \in DOMAIN items : items[i] = doc.items[j]
    BY <1>2, <1>6 DEF AllOf
  <2>3. QED BY <1>3, <2>1, <2>2 DEF Ids, Has
<1>7. QED BY <1>4, <1>5, <1>6 DEF Stays, new

LEMMA Removed ==
  ASSUME NEW doc \in Docs, NEW n \in News, NEW by \in Readers, NEW t \in Time
  PROVE  LET new == RemoveNews(doc, n, t)
         IN  Made(new, doc, by) /\ Ids(new) = Ids(doc) \ {n}
<1> DEFINE items == Keep(doc.items, News \ {n})
           current == IF doc.current = n THEN None ELSE doc.current
           new == RemoveNews(doc, n, t)
<1>1. new = [doc EXCEPT !.items = items, !.current = current, !.at = t]
  BY DEF RemoveNews
<1>2. /\ items \in Seq(Item)
      /\ \A i \in DOMAIN items : \E j \in DOMAIN doc.items : items[i] = doc.items[j]
      /\ \A i \in DOMAIN items : items[i].id # n
      /\ \A j \in DOMAIN doc.items : doc.items[j].id # n => \E i \in DOMAIN items : items[i] = doc.items[j]
      /\ Neat(doc.items) => Neat(items)
  <2>1. doc.items \in Seq(Item) /\ \A j \in DOMAIN doc.items : doc.items[j].id \in News
    BY FieldsOf, IdsAreNews
  <2> DEFINE ids == News \ {n}
  <2> HIDE DEF ids
  <2>2. /\ From(items, doc.items) /\ \A i \in DOMAIN items : items[i].id \in ids
        /\ \A j \in DOMAIN doc.items : doc.items[j].id \in ids => \E i \in DOMAIN items : items[i] = doc.items[j]
    <3>1. items = Keep(doc.items, ids)
      BY DEF ids, items
    <3> HIDE DEF items
    <3>2. QED BY <2>1, <3>1, KeptItems
  <2>3. Neat(doc.items) => Neat(items)
    BY <2>1, <2>2, NeatLeft
  <2> HIDE DEF items
  <2>4. QED BY <2>1, <2>2, <2>3 DEF From, ids
<1> HIDE DEF items, new
<1>3. Has(new, items, current, t)
  <2>1. current \in News \cup {None}
    BY FieldsOf
  <2>2. QED BY <1>1, <1>2, <2>1, Excepted
<1>4. Made(new, doc, by)
  <2>1. \A i \in DOMAIN items : items[i].by = by \/ \E j \in DOMAIN doc.items : items[i].by = doc.items[j].by
    BY <1>2
  <2>2. QED BY <1>3, <1>2, <2>1, Assembled DEF Has
<1>5. Ids(new) \subseteq Ids(doc) \ {n}
  BY <1>3, <1>2 DEF Ids, Has
<1>6. Ids(doc) \ {n} \subseteq Ids(new)
  BY <1>3, <1>2 DEF Ids, Has
<1>7. QED BY <1>4, <1>5, <1>6 DEF new

\* Changes of an item leave its card and who queued it.
LEMMA Changed ==
  ASSUME NEW doc \in Docs, NEW by, NEW new \in Docs, DOMAIN new.items = DOMAIN doc.items,
         Len(new.items) = Len(doc.items),
         \A i \in DOMAIN doc.items :
           new.items[i].id = doc.items[i].id /\ new.items[i].by = doc.items[i].by
  PROVE  Made(new, doc, by) /\ Ids(new) = Ids(doc) /\ \A m : Stays(m, new, doc)
<1>1. Neat(doc.items) => Neat(new.items)
  BY DEF Neat
<1>2. Made(new, doc, by)
  BY <1>1, Assembled
<1>3. Ids(new) = Ids(doc)
  BY DEF Ids
<1>4. QED BY <1>2, <1>3 DEF Stays

\* Items that keep their card and who queued it.
Relabels(new, old) ==
  /\ new \in Seq(Item) /\ DOMAIN new = DOMAIN old /\ Len(new) = Len(old)
  /\ \A i \in DOMAIN old : new[i].id = old[i].id /\ new[i].by = old[i].by

LEMMA Relabelled ==
  ASSUME NEW doc \in Docs, NEW items, items = [i \in DOMAIN doc.items |-> items[i]],
         \A i \in DOMAIN doc.items :
           items[i] \in Item /\ items[i].id = doc.items[i].id /\ items[i].by = doc.items[i].by
  PROVE  Relabels(items, doc.items)
<1>1. Len(doc.items) \in Nat /\ DOMAIN doc.items = 1 .. Len(doc.items)
  BY FieldsOf, LenProperties
<1>2. items \in [1 .. Len(doc.items) -> Item]
  BY <1>1
<1>3. items \in Seq(Item) /\ DOMAIN items = DOMAIN doc.items
  BY <1>1, <1>2, SeqDef
<1>4. Len(items) = Len(doc.items)
  BY <1>1, <1>3, LenProperties
<1>5. QED BY <1>3, <1>4 DEF Relabels

\* An item is relabelled in one of three ways: its place is set, it is finished,
\* or it starts anew.
Placed(e) == [e EXCEPT !.heard = TRUE, !.finished = FALSE]
Ended(e) == [e EXCEPT !.finished = TRUE]
Resumed(e) == [e EXCEPT !.heard = @ /\ ~e.finished, !.finished = FALSE]

LEMMA ItemKept ==
  ASSUME NEW e \in Item
  PROVE  \A new \in {Placed(e), Ended(e), Resumed(e)} : new \in Item /\ new.id = e.id /\ new.by = e.by
<1>1. Placed(e) \in Item /\ Placed(e).id = e.id /\ Placed(e).by = e.by
  BY DEF Item, Placed
<1>2. Ended(e) \in Item /\ Ended(e).id = e.id /\ Ended(e).by = e.by
  BY DEF Item, Ended
<1>3. Resumed(e) \in Item /\ Resumed(e).id = e.id /\ Resumed(e).by = e.by
  BY DEF Item, Resumed
<1>4. QED BY <1>1, <1>2, <1>3

LEMMA SomeChanged ==
  ASSUME NEW doc \in Docs, NEW n, NEW items,
         \/ items = Change(doc.items, n, Placed)
         \/ items = Change(doc.items, n, Ended)
         \/ items = Change(doc.items, n, Resumed)
  PROVE  Relabels(items, doc.items)
<1>1. \A i \in DOMAIN doc.items : doc.items[i] \in Item
  BY FieldsOf, LenProperties, ElementOfSeq
<1>2. items = [i \in DOMAIN doc.items |-> items[i]]
  BY DEF Change
<1>3. \A i \in DOMAIN doc.items :
        items[i] \in {doc.items[i], Placed(doc.items[i]), Ended(doc.items[i]), Resumed(doc.items[i])}
  BY DEF Change
<1>4. \A i \in DOMAIN doc.items :
        items[i] \in Item /\ items[i].id = doc.items[i].id /\ items[i].by = doc.items[i].by
  BY <1>1, <1>3, ItemKept
<1>5. QED BY <1>2, <1>4, Relabelled

\* The place is set.
LEMMA PlaceSet ==
  ASSUME NEW doc \in Docs, NEW n \in News, NEW by, NEW t \in Time
  PROVE  LET new == SetPlace(doc, n, t)
         IN  Made(new, doc, by) /\ Ids(new) = Ids(doc)
<1> DEFINE items == Change(doc.items, n, Placed)
           new == SetPlace(doc, n, t)
<1>1. new = [doc EXCEPT !.items = items, !.current = n, !.at = t]
  BY DEF SetPlace, Change, Placed
<1>2. Relabels(items, doc.items)
  BY SomeChanged
<1> HIDE DEF items, new
<1>3. Has(new, items, n, t)
  BY <1>1, <1>2, Excepted DEF Relabels
<1>4. QED BY <1>2, <1>3, Changed DEF Relabels, Has, new

\* The card is finished.
LEMMA MarkedFinished ==
  ASSUME NEW doc \in Docs, NEW n \in News, NEW by, NEW t \in Time
  PROVE  LET new == MarkFinished(doc, n, t)
         IN  Made(new, doc, by) /\ Ids(new) = Ids(doc)
<1> DEFINE items == Change(doc.items, n, Ended)
           new == MarkFinished(doc, n, t)
<1>1. new = [doc EXCEPT !.items = items, !.at = t]
  BY DEF MarkFinished, Change, Ended
<1>2. Relabels(items, doc.items)
  BY SomeChanged
<1> HIDE DEF items, new
<1>3. Has(new, items, doc.current, t)
  BY <1>1, <1>2, FieldsOf, Excepted DEF Relabels
<1>4. QED BY <1>2, <1>3, Changed DEF Relabels, Has, new

\* A card is played, from the queue or added to it.
LEMMA Ensured ==
  ASSUME NEW doc \in Docs, NEW n \in News, NEW by \in Readers, NEW t \in Time
  PROVE  LET new == EnsurePlaying(doc, n, by, t)
         IN  Made(new, doc, by) /\ Stays(n, new, doc)
<1> DEFINE new == EnsurePlaying(doc, n, by, t)
<1>1. CASE n \in Ids(doc)
  <2> DEFINE items == Change(doc.items, n, Resumed)
  <2>1. new = [doc EXCEPT !.items = items, !.current = n, !.at = t]
    BY <1>1 DEF EnsurePlaying, Change, Resumed
  <2>2. Relabels(items, doc.items)
    BY SomeChanged
  <2> HIDE DEF items, new
  <2>3. Has(new, items, n, t)
    BY <2>1, <2>2, Excepted DEF Relabels
  <2>4. Made(new, doc, by) /\ Stays(n, new, doc)
    BY <2>2, <2>3, Changed DEF Relabels, Has
  <2>5. QED BY <2>4 DEF new
<1>2. CASE n \notin Ids(doc)
  <2> DEFINE items == Trim(Append(doc.items, NewItem(n, by)), n)
  <2>1. new = [doc EXCEPT !.items = items, !.current = n, !.at = t]
    BY <1>2 DEF EnsurePlaying
  <2>2. Grows(items, doc.items, by) /\ (Neat(doc.items) => Neat(items))
    <3>1. doc.items \in Seq(Item) /\ \A i \in DOMAIN doc.items : doc.items[i].id # n
      BY <1>2, FieldsOf DEF Ids
    <3>2. QED BY <3>1, Grown
  <2> HIDE DEF items, new
  <2>3. Has(new, items, n, t)
    BY <2>1, <2>2, Excepted DEF Grows
  <2>4. \A i \in DOMAIN new.items :
          new.items[i].by = by \/ \E j \in DOMAIN doc.items : new.items[i].by = doc.items[j].by
    BY <2>2, <2>3 DEF Grows, Has
  <2>5. Made(new, doc, by)
    BY <2>2, <2>3, <2>4, Assembled DEF Has
  <2>6. QED BY <1>2, <2>5 DEF Stays, new
<1>3. QED BY <1>1, <1>2

\* Several edits by one reader are an edit.
LEMMA MadeTwice ==
  ASSUME NEW a, NEW b, NEW c, NEW by, Made(a, b, by), Made(b, c, by)
  PROVE  Made(a, c, by)
BY DEF Made
-----------------------------------------------------------------------------
\* The types, as far as the proofs need them; a reconcile is one of its account.
Typed ==
  /\ now \in Time
  /\ rows \in [Users -> Docs \cup {None}]
  /\ user \in [Devices -> Users \cup {None}] /\ owner \in [Devices -> Users \cup {None}]
  /\ local \in [Devices -> Docs] /\ ref \in [Devices -> Docs]
  /\ playing \in [Devices -> News \cup {None}]
  /\ task \in [Devices -> [Slots -> Tasks \cup {None}]]
  /\ \A d \in Devices, u \in Users : task[d][u] # None => task[d][u].user = u

\* The card that is spoken next is one of the news.
LEMMA NextIsNews ==
  ASSUME NEW doc \in Docs, NEW n \in News
  PROVE  NextUnfinished(doc, n) \in News \cup {None}
<1> DEFINE items == doc.items
           start == IF n \in Ids(doc) THEN Min({i \in DOMAIN items : items[i].id = n}) ELSE 0
           left == {i \in DOMAIN items \ {start} : ~items[i].finished}
           after == {i \in left : i > start}
           next == Min(IF after # {} THEN after ELSE left)
<1>1. Len(items) \in Nat /\ DOMAIN items = 1 .. Len(items) /\ \A i \in DOMAIN items : items[i] \in Item
  BY FieldsOf, LenProperties, ElementOfSeq
<1>2. NextUnfinished(doc, n) = IF left = {} THEN None ELSE items[next].id
  BY DEF NextUnfinished
<1>3. left \subseteq DOMAIN items /\ after \subseteq left /\ left \in SUBSET Nat /\ after \in SUBSET Nat
  BY <1>1
<1> HIDE DEF left, after, start
<1>4. left # {} => next \in DOMAIN items
  BY <1>3, MinIsIn
<1>5. \A i \in DOMAIN items : items[i].id \in News
  BY <1>1 DEF Item
<1> HIDE DEF next, items
<1>6. QED BY <1>2, <1>4, <1>5

\* What the reader does with the player.
PlayerStep(d) ==
  \/ \E n \in Cards(d) : Toggle(d, n) \/ Play(d, n)
  \/ Progress(d) \/ Stop(d) \/ End(d) \/ SetAutoNext(d)

\* The card being spoken stays, is taken out, or is not the current one of a
\* queue that is full.
Kept(d, doc) ==
  \/ playing[d] \in Ids(doc) \/ Ids(doc) = Ids(ref[d]) \ {playing[d]}
  \/ ref[d].current # playing[d] /\ Len(ref[d].items) >= MaxQueue

\* Any of it makes a document of the reader's cards and those of the player's
\* copy, and what is spoken is its current card.
LEMMA PlayerEdits ==
  ASSUME Typed, NEW d \in Devices, PlayerStep(d)
  PROVE  \E doc :
           /\ Commit(d, doc) /\ Made(doc, ref[d], By(d))
           /\ playing' \in [Devices -> News \cup {None}]
           /\ playing[d] \in Ids(ref[d]) /\ playing'[d] = playing[d] => Kept(d, doc)
<1> DEFINE Goal == \E doc :
                     /\ Commit(d, doc) /\ Made(doc, ref[d], By(d))
                     /\ playing' \in [Devices -> News \cup {None}]
                     /\ playing[d] \in Ids(ref[d]) /\ playing'[d] = playing[d] => Kept(d, doc)
           t == now + 1
<1>1. ref[d] \in Docs /\ playing[d] \in News \cup {None} /\ playing \in [Devices -> News \cup {None}]
  BY DEF Typed
<1>2. By(d) \in Readers
  BY DEF Typed, By, Readers
<1>3. Ids(ref[d]) \subseteq News /\ None \notin News
  <2>1. ref[d].items \in Seq(Item)
    BY <1>1, FieldsOf
  <2>2. \A i \in DOMAIN ref[d].items : ref[d].items[i] \in Item
    BY <2>1, LenProperties, ElementOfSeq
  <2>3. QED BY <2>2, NamesAssumption DEF Ids, Item
<1>4. \A doc : Commit(d, doc) => t \in Time
  BY BoundsAssumption DEF Typed, Commit, Time
<1> HIDE DEF t
<1>5. ASSUME NEW n \in Cards(d), Toggle(d, n), n \in Ids(ref[d]) PROVE Goal
  <2> DEFINE doc == RemoveNews(ref[d], n, t)
  <2>1. Commit(d, doc) /\ playing' \in [Devices -> News \cup {None}]
    BY <1>1, <1>5 DEF Toggle, t
  <2>2. Made(doc, ref[d], By(d)) /\ Ids(doc) = Ids(ref[d]) \ {n}
    BY <1>1, <1>2, <1>3, <1>5, <1>4, <2>1, Removed
  <2>3. QED BY <2>1, <2>2 DEF Kept
<1>6. ASSUME NEW n \in Cards(d), Toggle(d, n), n \notin Ids(ref[d]) PROVE Goal
  <2> DEFINE doc == EnqueueNews(ref[d], n, By(d), t)
  <2>1. Commit(d, doc) /\ playing' = playing
    BY <1>6 DEF Toggle, t
  <2>2. n \in News
    BY NamesAssumption
  <2>3. /\ Made(doc, ref[d], By(d)) /\ (n # ref[d].current => Stays(ref[d].current, doc, ref[d]))
        /\ Len(ref[d].items) < MaxQueue => \A m : Stays(m, doc, ref[d])
    BY <1>1, <1>2, <1>6, <1>4, <2>1, <2>2, Enqueued
  <2>4. Len(ref[d].items) \in Nat
    BY <1>1, FieldsOf, LenProperties
  <2>5. Len(ref[d].items) < MaxQueue \/ Len(ref[d].items) >= MaxQueue
    BY <2>4, BoundsAssumption
  <2> HIDE DEF doc
  <2>6. QED BY <1>1, <1>6, <2>1, <2>3, <2>5 DEF Kept, Stays
<1>7. ASSUME NEW n \in Cards(d), Play(d, n) PROVE Goal
  <2> DEFINE doc == EnsurePlaying(ref[d], n, By(d), t)
  <2>1. Commit(d, doc) /\ playing' = [playing EXCEPT ![d] = n] /\ n \in News
    BY <1>7, NamesAssumption DEF Play, t
  <2>2. Made(doc, ref[d], By(d)) /\ Stays(n, doc, ref[d])
    BY <1>1, <1>2, <1>4, <2>1, Ensured
  <2>3. playing' \in [Devices -> News \cup {None}] /\ playing'[d] = n
    BY <1>1, <2>1
  <2> HIDE DEF doc
  <2>4. QED BY <2>1, <2>2, <2>3 DEF Kept, Stays
<1>8. CASE Progress(d)
  <2> DEFINE doc == SetPlace(ref[d], playing[d], t)
  <2>1. Commit(d, doc) /\ playing' = playing /\ playing[d] \in News
    BY <1>1, <1>8 DEF Progress, t
  <2>2. Made(doc, ref[d], By(d)) /\ Ids(doc) = Ids(ref[d])
    BY <1>1, <1>4, <2>1, PlaceSet
  <2>3. QED BY <1>1, <2>1, <2>2 DEF Kept
<1>9. CASE Stop(d)
  <2> DEFINE doc == SetPlace(ref[d], ref[d].current, t)
  <2>1. Commit(d, doc) /\ playing' = [playing EXCEPT ![d] = None] /\ ref[d].current \in News
    BY <1>1, <1>9, FieldsOf DEF Stop, t
  <2>2. Made(doc, ref[d], By(d)) /\ Ids(doc) = Ids(ref[d])
    BY <1>1, <1>4, <2>1, PlaceSet
  <2>3. QED BY <1>1, <2>1, <2>2 DEF Kept
<1>10. CASE End(d)
  <2> DEFINE finished == MarkFinished(ref[d], playing[d], t)
             follows == IF ref[d].auto THEN NextUnfinished(finished, playing[d]) ELSE None
             after(next) == IF next = None THEN finished ELSE EnsurePlaying(finished, next, By(d), t)
  <2>1. PICK next \in {None, follows} :
          Commit(d, after(next)) /\ playing' = [playing EXCEPT ![d] = next] /\ playing[d] \in News
    BY <1>1, <1>10 DEF End, t
  <2> DEFINE doc == after(next)
  <2>2. Commit(d, doc) /\ playing' = [playing EXCEPT ![d] = next] /\ playing[d] \in News
    BY <2>1
  <2>3. Made(finished, ref[d], By(d)) /\ Ids(finished) = Ids(ref[d])
    BY <1>1, <1>4, <2>2, MarkedFinished
  <2> HIDE DEF finished
  <2>4. finished \in Docs
    BY <2>3 DEF Made
  <2>5. next \in News \cup {None}
    BY <2>2, <2>4, NextIsNews
  <2>6. playing' \in [Devices -> News \cup {None}] /\ playing'[d] = next
    BY <1>1, <2>2, <2>5
  <2>7. CASE next = None
    BY <1>3, <2>2, <2>3, <2>6, <2>7 DEF Kept
  <2>8. CASE next # None
    <3>1. Made(doc, finished, By(d)) /\ Stays(next, doc, finished)
      BY <1>2, <1>4, <2>2, <2>4, <2>5, <2>8, Ensured
    <3> HIDE DEF doc
    <3>2. Made(doc, ref[d], By(d))
      BY <2>3, <3>1, MadeTwice
    <3>3. QED BY <2>2, <2>3, <2>6, <3>1, <3>2 DEF Kept, Stays
  <2>9. QED BY <2>7, <2>8
<1>11. CASE SetAutoNext(d)
  <2> DEFINE doc == [ref[d] EXCEPT !.auto = ~@, !.at = t]
  <2>1. Commit(d, doc) /\ playing' = playing
    BY <1>11 DEF SetAutoNext, t
  <2>2. t \in Time
    BY <1>4, <2>1
  <2>3. doc \in Docs /\ doc.items = ref[d].items
    BY <1>1, <2>2 DEF Docs
  <2> HIDE DEF doc
  <2>4. Made(doc, ref[d], By(d)) /\ Ids(doc) = Ids(ref[d])
    BY <2>3 DEF Made, Bys, Ids
  <2>5. QED BY <1>1, <2>1, <2>4 DEF Kept
<1>12. QED BY <1>5, <1>6, <1>7, <1>8, <1>9, <1>10, <1>11 DEF PlayerStep
-----------------------------------------------------------------------------
LEMMA EmptyTyped == Empty \in Docs /\ Bys(Empty) = {} /\ Empty.at = 0
<1>1. << >> \in Seq(Item) /\ DOMAIN << >> = {}
  BY EmptySeq
<1>2. Empty \in Docs /\ Empty.items = << >> /\ Empty.at = 0
  BY <1>1, BoundsAssumption DEF Empty, Docs, Time
<1>3. QED BY <1>1, <1>2 DEF Bys

LEMMA CleanedTyped ==
  ASSUME NEW doc \in Docs
  PROVE  Cleaned(doc) \in Docs /\ Bys(Cleaned(doc)) \subseteq Bys(doc) /\ Cleaned(doc).at = doc.at
<1> DEFINE items == Keep(doc.items, Known)
           kept == [doc EXCEPT !.items = items]
<1>1. From(items, doc.items)
  BY FieldsOf, KeptItems
<1>2. Cleaned(doc) = Sanitize(kept)
  BY DEF Cleaned
<1> HIDE DEF items
<1>3. kept \in Docs /\ kept.items = items /\ kept.at = doc.at
  BY <1>1 DEF Docs, From
<1> HIDE DEF kept
<1>4. Bys(kept) \subseteq Bys(doc)
  BY <1>1, <1>3 DEF Bys, From
<1>5. QED BY <1>2, <1>3, <1>4, Sanitized

LEMMA TasksTyped ==
  ASSUME NEW u \in Users, NEW stage \in Stages, NEW doc \in Docs
  PROVE  LET t == NewTask(u, stage, doc)
         IN  t \in Tasks /\ t.user = u /\ t.stage = stage /\ t.doc = doc /\ t.base = None
BY DEF NewTask, Tasks

\* A document that is written is one of those at hand.
LEMMA WriteTyped ==
  ASSUME Typed, NEW d \in Devices, NEW doc \in Docs, Write(d, doc)
  PROVE  /\ local' \in [Devices -> Docs] /\ ref' \in [Devices -> Docs]
         /\ Bys(local'[d]) = Bys(doc) /\ \A e \in Devices \ {d} : local'[e] = local[e]
<1>1. Sanitize(doc) \in Docs /\ Bys(Sanitize(doc)) = Bys(doc)
  BY Sanitized
<1>2. QED BY <1>1 DEF Typed, Write

\* An account has no document yet, or one that a device begins with.
LEMMA RowsInit ==
  ASSUME Init
  PROVE  /\ rows = [u \in Users |-> rows[u]] /\ \A d \in Devices : local[d] \in FirstDocs(d) /\ local[d] \in Docs
         /\ \A u \in Users : rows[u] # None =>
              \E d \in Devices : Started(d) = u /\ rows[u] = local[d]
<1>1. \A u \in Users : rows[u] = IF \E d \in Settled : Started(d) = u
                                 THEN local[CHOOSE d \in Settled : Started(d) = u] ELSE None
  BY DEF Init
<1>2. \A d \in Devices : local[d] \in FirstDocs(d)
  BY DEF Init
<1>3. \A d \in Devices : local[d] \in Docs
  BY <1>2, FirstDocsAssumption
<1>4. ASSUME NEW u \in Users, rows[u] # None
      PROVE  \E d \in Devices : Started(d) = u /\ rows[u] = local[d]
  <2> DEFINE d == CHOOSE d \in Settled : Started(d) = u
  <2>1. \E e \in Settled : Started(e) = u
    BY <1>1, <1>4
  <2>2. d \in Settled /\ Started(d) = u
    BY <2>1
  <2>3. rows[u] = local[d]
    BY <1>1, <2>1
  <2>4. QED BY <2>2, <2>3, NamesAssumption
<1>5. rows = [u \in Users |-> rows[u]]
  BY DEF Init
<1>6. QED BY <1>2, <1>3, <1>4, <1>5

LEMMA TypedInit == Init => Typed
<1> SUFFICES ASSUME Init PROVE Typed
  OBVIOUS
<1>1. now \in Time
  BY BoundsAssumption DEF Init, Time
<1>2. rows \in [Users -> Docs \cup {None}]
  <2>1. \A u \in Users : rows[u] \in Docs \cup {None}
    BY RowsInit
  <2>2. QED BY <2>1, RowsInit
<1>3. user \in [Devices -> Users \cup {None}] /\ owner \in [Devices -> Users \cup {None}]
  BY NamesAssumption DEF Init
<1>4. local \in [Devices -> Docs] /\ ref \in [Devices -> Docs]
  <2>1. local \in [Devices -> UNION {FirstDocs(d) : d \in Devices}] /\ ref = local
        /\ \A d \in Devices : local[d] \in FirstDocs(d)
    BY DEF Init
  <2>2. QED BY <2>1, FirstDocsAssumption
<1>5. playing \in [Devices -> News \cup {None}]
  <2>1. \A d \in Devices : local[d].current \in News \cup {None}
    BY <1>4, FieldsOf
  <2>2. QED BY <2>1 DEF Init
<1>6. \A d \in Devices, s \in Slots :
        d \notin Settled /\ s = Started(d) =>
          NewTask(s, "get", Empty) \in Tasks /\ NewTask(s, "get", Empty).user = s
  <2> TAKE d \in Devices, s \in Slots
  <2> HAVE d \notin Settled /\ s = Started(d)
  <2>1. CASE s \in Users
    BY <2>1, EmptyTyped, TasksTyped DEF Stages
  <2>2. CASE s = Flush
    BY <2>2, NamesAssumption
  <2>3. QED BY <2>1, <2>2 DEF Slots
<1>7. task = [d \in Devices |-> [s \in Slots |->
               IF d \notin Settled /\ s = Started(d) THEN NewTask(s, "get", Empty) ELSE None]]
  BY DEF Init
<1>8. task \in [Devices -> [Slots -> Tasks \cup {None}]]
  BY <1>6, <1>7
<1>9. \A d \in Devices, u \in Users : task[d][u] # None => task[d][u].user = u
  BY <1>6, <1>7 DEF Slots
<1>10. QED BY <1>1, <1>2, <1>3, <1>4, <1>5, <1>8, <1>9 DEF Typed

\* One step keeps the types.
LEMMA TypedStep == Typed /\ [Next]_vars => Typed'
<1> SUFFICES ASSUME Typed, [Next]_vars PROVE Typed'
  OBVIOUS
<1> USE DEF Typed
<1>1. ASSUME NEW d \in Devices, PlayerStep(d) PROVE Typed'
  <2>1. PICK doc : Commit(d, doc) /\ Made(doc, ref[d], By(d)) /\ playing' \in [Devices -> News \cup {None}]
    BY <1>1, PlayerEdits
  <2>2. doc \in Docs /\ Sanitize(doc) \in Docs
    BY <2>1, Sanitized DEF Made
  <2>3. now' \in Time
    BY <2>1, BoundsAssumption DEF Commit, Time
  <2>4. local' \in [Devices -> Docs] /\ ref' \in [Devices -> Docs]
    BY <2>1, <2>2 DEF Commit
  <2>5. QED BY <2>1, <2>3, <2>4 DEF Commit
<1>2. ASSUME NEW d \in Devices, NEW u \in Users, Login(d, u) PROVE Typed'
  <2>1. NewTask(u, "get", Empty) \in Tasks /\ NewTask(u, "get", Empty).user = u
    BY EmptyTyped, TasksTyped DEF Stages
  <2>2. task' \in [Devices -> [Slots -> Tasks \cup {None}]]
    BY <1>2, <2>1 DEF Login, SetTask, Slots
  <2>3. \A e \in Devices, v \in Users : task'[e][v] # None => task'[e][v].user = v
    BY <1>2, <2>1 DEF Login, SetTask, Slots
  <2>4. local' \in [Devices -> Docs] /\ ref' \in [Devices -> Docs]
    BY <1>2, EmptyTyped, WriteTyped DEF Login
  <2>5. user' \in [Devices -> Users \cup {None}] /\ owner' \in [Devices -> Users \cup {None}]
    BY <1>2 DEF Login
  <2>6. QED BY <1>2, <2>2, <2>3, <2>4, <2>5 DEF Login
<1>3. ASSUME NEW d \in Devices, Logout(d) \/ Silence(d) PROVE Typed'
  BY <1>3 DEF Logout, Silence, sync, history
<1>4. ASSUME NEW d \in Devices, NEW doc \in Docs, Round(d, doc)
      PROVE  /\ task' \in [Devices -> [Slots -> Tasks \cup {None}]]
             /\ \A e \in Devices, v \in Users : task'[e][v] = task[e][v]
  <2> DEFINE t == IF user[d] # None /\ doc.at # 0 THEN NewTask(user[d], "put", doc) ELSE None
  <2>1. t \in Tasks \cup {None}
    BY TasksTyped DEF Stages
  <2>2. task' = [task EXCEPT ![d][Flush] = t]
    BY <1>4 DEF Round
  <2> HIDE DEF t
  <2>3. Flush \in Slots /\ \A v \in Users : v \in Slots /\ v # Flush
    BY NamesAssumption DEF Slots
  <2>4. task' \in [Devices -> [Slots -> Tasks \cup {None}]]
    BY <2>1, <2>2, <2>3
  <2>5. ASSUME NEW e \in Devices, NEW v \in Users PROVE task'[e][v] = task[e][v]
    BY <2>2, <2>3
  <2>6. QED BY <2>4, <2>5
<1>5. ASSUME NEW d \in Devices, TimedFlush(d) \/ HiddenFlush(d) PROVE Typed'
  <2>1. StartFlush(d)
    BY <1>5 DEF TimedFlush, HiddenFlush
  <2>2. /\ task' \in [Devices -> [Slots -> Tasks \cup {None}]]
        /\ \A e \in Devices, v \in Users : task'[e][v] = task[e][v]
    BY <1>4, <2>1 DEF StartFlush
  <2>3. QED BY <2>1, <2>2 DEF StartFlush
<1>6. ASSUME NEW d \in Devices, NEW u \in Users, ServeGet(d, u) PROVE Typed'
  <2> DEFINE t == NewTask(u, "got", IF rows[u] = None THEN Empty ELSE rows[u])
  <2>1. t \in Tasks /\ t.user = u
    BY EmptyTyped, TasksTyped DEF Stages
  <2> HIDE DEF t
  <2>2. task' = [task EXCEPT ![d][u] = t]
    BY <1>6 DEF ServeGet, SetTask, t
  <2>3. QED BY <1>6, <2>1, <2>2 DEF ServeGet, history, Slots
<1>7. ASSUME NEW d \in Devices, NEW s \in Slots, task[d][s] # None, NEW t,
             t \in Tasks \cup {None}, t # None => t.user = task[d][s].user,
             task' = [task EXCEPT ![d][s] = t]
      PROVE  /\ task' \in [Devices -> [Slots -> Tasks \cup {None}]]
             /\ \A e \in Devices, v \in Users : task'[e][v] # None => task'[e][v].user = v
  BY <1>7 DEF Slots
<1>8. ASSUME NEW d \in Devices, NEW u \in Users, Reconcile(d, u) PROVE Typed'
  <2>1. task[d][u] \in Tasks /\ task[d][u].doc \in Docs
    BY <1>8 DEF Reconcile, Slots, Tasks
  <2>2. NewTask(u, "put", local[d]) \in Tasks /\ NewTask(u, "put", local[d]).user = u
    BY TasksTyped DEF Stages
  <2>3. local' \in [Devices -> Docs] /\ ref' \in [Devices -> Docs]
    BY <1>8, <2>1, EmptyTyped, WriteTyped DEF Reconcile
  <2>4. owner' \in [Devices -> Users \cup {None}]
    BY <1>8 DEF Reconcile
  <2>5. PICK t : task' = [task EXCEPT ![d][u] = t] /\ t \in {None, NewTask(u, "put", local[d])}
    BY <1>8 DEF Reconcile, SetTask
  <2>6. task[d][u] # None /\ task[d][u].user = u /\ u \in Slots
    BY <1>8 DEF Reconcile, Slots
  <2>7. /\ task' \in [Devices -> [Slots -> Tasks \cup {None}]]
        /\ \A e \in Devices, v \in Users : task'[e][v] # None => task'[e][v].user = v
    BY <1>7, <2>2, <2>5, <2>6
  <2>8. QED BY <1>8, <2>3, <2>4, <2>7 DEF Reconcile
<1>9. ASSUME NEW d \in Devices, NEW s \in Slots, Load(d, s) PROVE Typed'
  <2>1. task[d][s] \in Tasks /\ task[d][s].user \in Users
    BY <1>9 DEF Load, Tasks
  <2> DEFINE t == task[d][s]
             row == rows[t.user]
             kept == row # None /\ row.at > t.doc.at
             new == [t EXCEPT !.stage = IF kept THEN "done" ELSE "loaded", !.base = row]
  <2>2. new \in Tasks /\ new.user = t.user
    BY <2>1 DEF Tasks, Stages
  <2>3. task' = [task EXCEPT ![d][s] = new]
    BY <1>9 DEF Load, SetTask
  <2> HIDE DEF new
  <2>4. QED BY <1>7, <1>9, <2>2, <2>3 DEF Load, history
<1>10. ASSUME NEW d \in Devices, NEW s \in Slots, Save(d, s) PROVE Typed'
  <2>1. task[d][s] \in Tasks /\ task[d][s].user \in Users /\ task[d][s].doc \in Docs
    BY <1>10 DEF Save, Tasks
  <2> DEFINE t == task[d][s]
             new == [t EXCEPT !.stage = "done", !.base = None]
  <2>2. new \in Tasks /\ new.user = t.user
    BY <2>1 DEF Tasks, Stages
  <2>3. task' = [task EXCEPT ![d][s] = new] /\ rows' = [rows EXCEPT ![t.user] = Cleaned(t.doc)]
    BY <1>10 DEF Save, SetTask
  <2> HIDE DEF new
  <2>4. rows' \in [Users -> Docs \cup {None}]
    BY <2>1, <2>3, CleanedTyped
  <2>5. QED BY <1>7, <1>10, <2>2, <2>3, <2>4 DEF Save
<1>11. ASSUME NEW d \in Devices, NEW s \in Slots, Answer(d, s) PROVE Typed'
  <2>1. task[d][s] \in Tasks /\ task[d][s].user \in Users /\ task[d][s].base \in Docs \cup {None}
    BY <1>11 DEF Answer, Tasks
  <2> DEFINE t == task[d][s]
  <2>2. local' \in [Devices -> Docs] /\ ref' \in [Devices -> Docs]
    <3>1. CASE UNCHANGED <<local, ref>>
      BY <3>1
    <3>2. CASE t.base # None /\ Write(d, Choose(local[d], t.base))
      <4>1. Choose(local[d], t.base) \in Docs
        BY <2>1, <3>2 DEF Choose
      <4>2. QED BY <3>2, <4>1, WriteTyped
    <3>3. QED BY <1>11, <3>1, <3>2 DEF Answer
  <2>3. owner' \in [Devices -> Users \cup {None}]
    BY <1>11, <2>1 DEF Answer
  <2>4. /\ task' \in [Devices -> [Slots -> Tasks \cup {None}]]
        /\ \A e \in Devices, v \in Users : task'[e][v] # None => task'[e][v].user = v
    <3>1. CASE SetTask(d, s, None)
      BY <1>7, <1>11, <3>1 DEF Answer, SetTask
    <3>2. CASE Round(d, local'[d])
      BY <1>4, <2>2, <3>2
    <3>3. QED BY <1>11, <3>1, <3>2 DEF Answer
  <2>5. QED BY <1>11, <2>2, <2>3, <2>4 DEF Answer
<1>12. ASSUME NEW d \in Devices, NEW s \in Slots, Refuse(d, s) \/ Lose(d, s) PROVE Typed'
  <2>1. task[d][s] # None /\ Abort(d, s)
    BY <1>12 DEF Refuse, Lose
  <2>2. QED BY <1>7, <2>1 DEF Abort, SetTask
<1>13. CASE UNCHANGED vars
  BY <1>13 DEF vars, sync
<1>14. QED BY <1>1, <1>2, <1>3, <1>5, <1>6, <1>8, <1>9, <1>10, <1>11, <1>12, <1>13
         DEF Next, Step, PlayerStep

\* Everything else: sign-ins and sign-outs, and the ways of a request.
NetStep(d) ==
  \/ \E u \in Users : Login(d, u) \/ ServeGet(d, u) \/ Reconcile(d, u)
  \/ Logout(d) \/ Silence(d) \/ TimedFlush(d) \/ HiddenFlush(d)
  \/ \E s \in Slots : Load(d, s) \/ Answer(d, s) \/ Refuse(d, s) \/ Lose(d, s)

LEMMA NextSteps ==
  ASSUME Next
  PROVE  \E d \in Devices : PlayerStep(d) \/ NetStep(d) \/ \E s \in Slots : Save(d, s)
<1>1. PICK d \in Devices :
        \/ \E n \in Cards(d) : Toggle(d, n) \/ (d \in Players /\ Play(d, n))
        \/ Progress(d) \/ Stop(d) \/ Silence(d) \/ End(d)
        \/ (d \in Players /\ SetAutoNext(d))
        \/ (\E u \in Users : Login(d, u)) \/ Logout(d)
        \/ HiddenFlush(d) \/ Step(d)
        \/ \E s \in Slots : Lose(d, s)
  BY DEF Next
<1>2. Step(d) => NetStep(d) \/ \E s \in Slots : Save(d, s)
  BY DEF Step, NetStep
<1>3. (\E n \in Cards(d) : Toggle(d, n) \/ (d \in Players /\ Play(d, n)))
        \/ Progress(d) \/ Stop(d) \/ End(d) \/ (d \in Players /\ SetAutoNext(d)) => PlayerStep(d)
  BY DEF PlayerStep
<1>4. (\E u \in Users : Login(d, u)) \/ Logout(d) \/ Silence(d) \/ HiddenFlush(d) \/ (\E s \in Slots : Lose(d, s))
        => NetStep(d)
  BY DEF NetStep
<1>5. QED BY <1>1, <1>2, <1>3, <1>4

\* The documents of the accounts are written by Save alone, and time goes on
\* with an edit.
LEMMA NetFrame ==
  ASSUME NEW d \in Devices, NetStep(d)
  PROVE  rows' = rows /\ now' = now
<1>1. ASSUME NEW u \in Users, Login(d, u) \/ ServeGet(d, u) \/ Reconcile(d, u)
      PROVE  rows' = rows /\ now' = now
  BY <1>1 DEF Login, ServeGet, Reconcile
<1>2. ASSUME Logout(d) \/ Silence(d) \/ TimedFlush(d) \/ HiddenFlush(d) PROVE rows' = rows /\ now' = now
  BY <1>2 DEF Logout, Silence, TimedFlush, HiddenFlush, StartFlush
<1>3. ASSUME NEW s \in Slots, Load(d, s) \/ Answer(d, s) \/ Refuse(d, s) \/ Lose(d, s)
      PROVE  rows' = rows /\ now' = now
  BY <1>3 DEF Load, Answer, Refuse, Lose, Abort
<1>4. QED BY <1>1, <1>2, <1>3 DEF NetStep

\* What is spoken is the current card, unless another document was taken over.
SpokenIsCurrent ==
  \A d \in Devices : playing[d] # None => playing[d] = ref[d].current \/ d \in adopted

LEMMA SpokenInit == Init => SpokenIsCurrent
BY DEF Init, SpokenIsCurrent

\* A step that speaks the current card of its document, or none, or the same as
\* before of a document that stays or was taken over.
LEMMA SpokenBy ==
  ASSUME Typed, SpokenIsCurrent, NEW d \in Devices, adopted \subseteq adopted',
         \A e \in Devices \ {d} : playing'[e] = playing[e] /\ ref'[e] = ref[e],
         \/ playing'[d] \in {None, ref'[d].current}
         \/ playing'[d] = playing[d] /\ (ref'[d].current = ref[d].current \/ d \in adopted')
  PROVE  SpokenIsCurrent'
BY DEF SpokenIsCurrent

\* A document is taken over by a player that speaks only as adopted.
LEMMA SpokenWrite ==
  ASSUME Typed, SpokenIsCurrent, NEW d \in Devices, NEW doc, Write(d, doc), playing' = playing
  PROVE  SpokenIsCurrent'
<1>1. \A e \in Devices \ {d} : ref'[e] = ref[e]
  BY DEF Write, Typed
<1>2. adopted \subseteq adopted' /\ (playing[d] = None \/ ref' = ref \/ d \in adopted')
  BY DEF Write
<1>3. QED BY <1>1, <1>2, SpokenBy

\* What the edits make the current card.
LEMMA Currents ==
  ASSUME NEW doc \in Docs, NEW n, NEW by, NEW t
  PROVE  /\ EnqueueNews(doc, n, by, t).current = doc.current
         /\ doc.current # n => RemoveNews(doc, n, t).current = doc.current
         /\ EnsurePlaying(doc, n, by, t).current = n
<1>1. \A items : [doc EXCEPT !.items = items, !.at = t].current = doc.current
  BY DEF Docs
<1>2. \A items, m : [doc EXCEPT !.items = items, !.current = m, !.at = t].current = m
  BY DEF Docs
<1>3. EnqueueNews(doc, n, by, t).current = doc.current
  BY <1>1 DEF EnqueueNews
<1>4. doc.current # n => RemoveNews(doc, n, t).current = doc.current
  BY <1>2 DEF RemoveNews
<1>5. EnsurePlaying(doc, n, by, t).current = n
  BY <1>2 DEF EnsurePlaying
<1>6. QED BY <1>3, <1>4, <1>5

LEMMA PlaceCurrent ==
  ASSUME NEW doc \in Docs, NEW n, NEW t
  PROVE  SetPlace(doc, n, t).current = n
BY DEF SetPlace, Docs

LEMMA PlayerSpeaks ==
  ASSUME Typed, NEW d \in Devices, PlayerStep(d)
  PROVE  /\ adopted' = adopted /\ \A e \in Devices \ {d} : playing'[e] = playing[e] /\ ref'[e] = ref[e]
         /\ \/ playing'[d] \in {None, ref'[d].current}
            \/ playing'[d] = playing[d] /\ ref'[d].current = ref[d].current
<1> DEFINE t == now + 1
<1>1. ref[d] \in Docs /\ ref \in [Devices -> Docs] /\ playing \in [Devices -> News \cup {None}]
  BY DEF Typed
<1>2. \A doc : Commit(d, doc) => adopted' = adopted /\ ref' = [ref EXCEPT ![d] = doc]
  BY DEF Commit
<1>3. \A n : playing' = [playing EXCEPT ![d] = n] =>
               playing'[d] = n /\ \A e \in Devices \ {d} : playing'[e] = playing[e]
  BY <1>1
<1>4. \A doc : ref' = [ref EXCEPT ![d] = doc] =>
                 ref'[d] = doc /\ \A e \in Devices \ {d} : ref'[e] = ref[e]
  BY <1>1
<1>5. ASSUME NEW n \in Cards(d), Toggle(d, n), n \in Ids(ref[d])
      PROVE  /\ Commit(d, RemoveNews(ref[d], n, t))
             /\ playing' = [playing EXCEPT ![d] = IF ref[d].current = n THEN None ELSE @]
  BY <1>5 DEF Toggle
<1>6. ASSUME NEW n \in Cards(d), Toggle(d, n), n \notin Ids(ref[d])
      PROVE  Commit(d, EnqueueNews(ref[d], n, By(d), t)) /\ playing' = playing
  BY <1>6 DEF Toggle
<1>7. ASSUME NEW n \in Cards(d), Play(d, n)
      PROVE  Commit(d, EnsurePlaying(ref[d], n, By(d), t)) /\ playing' = [playing EXCEPT ![d] = n]
  BY <1>7 DEF Play
<1>8. ASSUME Progress(d)
      PROVE  Commit(d, SetPlace(ref[d], playing[d], t)) /\ playing' = playing
  BY <1>8 DEF Progress
<1>9. ASSUME Stop(d)
      PROVE  /\ Commit(d, SetPlace(ref[d], ref[d].current, t))
             /\ playing' = [playing EXCEPT ![d] = None]
  BY <1>9 DEF Stop
<1>10. ASSUME SetAutoNext(d)
      PROVE  /\ Commit(d, [ref[d] EXCEPT !.auto = ~@, !.at = t]) /\ playing' = playing
             /\ [ref[d] EXCEPT !.auto = ~@, !.at = t].current = ref[d].current
  BY <1>1, <1>10 DEF SetAutoNext, Docs
<1> HIDE DEF t
<1>11. CASE \E n \in Cards(d) : Toggle(d, n)
  <2>1. PICK n \in Cards(d) : Toggle(d, n)
    BY <1>11
  <2>2. CASE n \in Ids(ref[d])
    <3> DEFINE doc == RemoveNews(ref[d], n, t)
               card == IF ref[d].current = n THEN None ELSE playing[d]
    <3>1. Commit(d, doc) /\ playing' = [playing EXCEPT ![d] = card]
      BY <1>5, <2>1, <2>2
    <3>2. ref[d].current # n => doc.current = ref[d].current
      BY <1>1, Currents
    <3> HIDE DEF doc, card
    <3>3. adopted' = adopted /\ ref'[d] = doc /\ \A e \in Devices \ {d} : ref'[e] = ref[e]
      BY <1>2, <1>4, <3>1
    <3>4. playing'[d] = card /\ \A e \in Devices \ {d} : playing'[e] = playing[e]
      BY <1>3, <3>1
    <3>5. QED BY <3>2, <3>3, <3>4 DEF card
  <2>3. CASE n \notin Ids(ref[d])
    BY <1>1, <1>2, <1>4, <1>6, <2>1, <2>3, Currents
  <2>4. QED BY <2>2, <2>3
<1>12. CASE \E n \in Cards(d) : Play(d, n)
  BY <1>1, <1>2, <1>3, <1>4, <1>7, <1>12, Currents
<1>13. CASE Progress(d)
  <2>1. SetPlace(ref[d], playing[d], t).current = playing[d]
    BY <1>1, PlaceCurrent
  <2> DEFINE doc == SetPlace(ref[d], playing[d], t)
  <2>2. Commit(d, doc) /\ playing' = playing
    BY <1>8, <1>13
  <2> HIDE DEF doc
  <2>3. adopted' = adopted /\ ref'[d] = doc /\ \A e \in Devices \ {d} : ref'[e] = ref[e]
    BY <1>2, <1>4, <2>2
  <2>4. QED BY <2>1, <2>2, <2>3 DEF doc
<1>14. CASE Stop(d)
  BY <1>1, <1>2, <1>3, <1>4, <1>9, <1>14
<1>15. CASE End(d)
  <2> DEFINE finished == MarkFinished(ref[d], playing[d], t)
             follows == IF ref[d].auto THEN NextUnfinished(finished, playing[d]) ELSE None
             after(next) == IF next = None THEN finished ELSE EnsurePlaying(finished, next, By(d), t)
  <2>1. PICK next \in {None, follows} :
          Commit(d, after(next)) /\ playing' = [playing EXCEPT ![d] = next] /\ playing[d] \in News
    BY <1>1, <1>15 DEF End, t
  <2>2. t \in Time
    BY <2>1, BoundsAssumption DEF Typed, Commit, Time, t
  <2>3. finished \in Docs
    BY <1>1, <2>1, <2>2, MarkedFinished DEF Made
  <2> HIDE DEF finished, follows
  <2>4. next = None \/ after(next).current = next
    BY <2>3, Currents
  <2> DEFINE doc == after(next)
  <2>5. Commit(d, doc) /\ playing' = [playing EXCEPT ![d] = next] /\ (next = None \/ doc.current = next)
    BY <2>1, <2>4
  <2> HIDE DEF after, doc
  <2>6. adopted' = adopted /\ ref'[d] = doc /\ \A e \in Devices \ {d} : ref'[e] = ref[e]
    BY <1>2, <1>4, <2>5
  <2>7. playing'[d] = next /\ \A e \in Devices \ {d} : playing'[e] = playing[e]
    BY <1>3, <2>5
  <2>8. QED BY <2>5, <2>6, <2>7
<1>16. CASE SetAutoNext(d)
  BY <1>1, <1>2, <1>4, <1>10, <1>16
<1>17. QED BY <1>11, <1>12, <1>13, <1>14, <1>15, <1>16 DEF PlayerStep

LEMMA SpokenStep == Typed /\ SpokenIsCurrent /\ [Next]_vars => SpokenIsCurrent'
<1> SUFFICES ASSUME Typed, SpokenIsCurrent, [Next]_vars PROVE SpokenIsCurrent'
  OBVIOUS
<1>1. ASSUME UNCHANGED <<ref, playing, adopted>> PROVE SpokenIsCurrent'
  BY <1>1 DEF SpokenIsCurrent
<1>2. ASSUME NEW d \in Devices, PlayerStep(d) PROVE SpokenIsCurrent'
  BY <1>2, PlayerSpeaks, SpokenBy
<1>3. ASSUME NEW d \in Devices, Silence(d) PROVE SpokenIsCurrent'
  <2>1. ref' = ref /\ adopted' = adopted /\ playing' = [playing EXCEPT ![d] = None]
    BY <1>3 DEF Silence, history
  <2>2. playing'[d] = None /\ \A e \in Devices \ {d} : playing'[e] = playing[e]
    BY <2>1 DEF Typed
  <2>3. QED BY <2>1, <2>2, SpokenBy
<1>4. ASSUME NEW d \in Devices, NEW u \in Users, Login(d, u) \/ Reconcile(d, u) PROVE SpokenIsCurrent'
  <2>1. playing' = playing /\ (UNCHANGED <<local, ref, adopted>> \/ \E doc : Write(d, doc))
    <3>1. CASE Login(d, u)
      BY <3>1 DEF Login
    <3>2. CASE Reconcile(d, u)
      BY <3>2 DEF Reconcile
    <3>3. QED BY <1>4, <3>1, <3>2
  <2>2. QED BY <1>1, <2>1, SpokenWrite
<1>5. ASSUME NEW d \in Devices, NEW s \in Slots, Answer(d, s) PROVE SpokenIsCurrent'
  <2>1. playing' = playing /\ (UNCHANGED <<local, ref, adopted>> \/ \E doc : Write(d, doc))
    BY <1>5 DEF Answer
  <2>2. QED BY <1>1, <2>1, SpokenWrite
<1>6. ASSUME NEW d \in Devices, Logout(d) \/ TimedFlush(d) \/ HiddenFlush(d) PROVE SpokenIsCurrent'
  BY <1>1, <1>6 DEF Logout, TimedFlush, HiddenFlush, StartFlush, history
<1>7. ASSUME NEW d \in Devices, NEW u \in Users, ServeGet(d, u) PROVE SpokenIsCurrent'
  BY <1>1, <1>7 DEF ServeGet, history
<1>8. ASSUME NEW d \in Devices, NEW s \in Slots, Load(d, s) \/ Save(d, s) \/ Refuse(d, s) \/ Lose(d, s)
      PROVE  SpokenIsCurrent'
  BY <1>1, <1>8 DEF Load, Save, Refuse, Lose, Abort, history
<1>9. CASE UNCHANGED vars
  BY <1>1, <1>9 DEF vars, history
<1>10. ASSUME NEW d \in Devices, NetStep(d) PROVE SpokenIsCurrent'
  BY <1>3, <1>4, <1>5, <1>6, <1>7, <1>8, <1>10 DEF NetStep
<1>11. QED BY <1>2, <1>8, <1>9, <1>10, NextSteps

\* A card that is being spoken leaves the queue of its device by a change made
\* there only if the reader takes it out, however long the queue may be; or if
\* the player has taken over a document with another current card, and the
\* queue is full.
THEOREM PlayedCardsStay == Spec => PlayedCardStays
<1>1. Typed /\ SpokenIsCurrent /\ [Next]_vars =>
        [\A d \in Devices :
           playing[d] \in Ids(ref[d]) /\ now' # now /\ playing'[d] = playing[d]
           => playing[d] \in Ids(ref'[d]) \/ TakenOut(d) \/ Displaced(d)]_vars
  <2> SUFFICES ASSUME Typed, SpokenIsCurrent, Next, NEW d \in Devices,
                      playing[d] \in Ids(ref[d]), now' # now, playing'[d] = playing[d]
               PROVE  playing[d] \in Ids(ref'[d]) \/ TakenOut(d) \/ Displaced(d)
    OBVIOUS
  <2>1. PICK e \in Devices : PlayerStep(e)
    BY NextSteps, NetFrame DEF Save
  <2>2. PICK doc : /\ Commit(e, doc)
                   /\ playing[e] \in Ids(ref[e]) /\ playing'[e] = playing[e] => Kept(e, doc)
    BY <2>1, PlayerEdits
  <2>3. ref' = [ref EXCEPT ![e] = doc]
    BY <2>2 DEF Commit
  <2>4. CASE e = d
    <3>1. Kept(d, doc) /\ ref'[d] = doc
      BY <2>2, <2>3, <2>4 DEF Typed
    <3>2. playing[d] # None
      <4>1. ref[d] \in Docs
        BY DEF Typed
      <4>2. QED BY <4>1, IdsAreNews, NamesAssumption
    <3>3. QED BY <3>1, <3>2 DEF Kept, TakenOut, Displaced, SpokenIsCurrent
  <2>5. CASE e # d
    BY <2>3, <2>5 DEF Typed
  <2>6. QED BY <2>4, <2>5
<1>2. QED BY <1>1, TypedInit, TypedStep, SpokenInit, SpokenStep, PTL DEF Spec, PlayedCardStays
-----------------------------------------------------------------------------
\* An upload that has passed the comparison is not older than what it was
\* compared with.
Compared ==
  \A d \in Devices, s \in Slots :
    task[d][s] # None /\ task[d][s].stage = "loaded" /\ task[d][s].base # None
      => task[d][s].base.at <= task[d][s].doc.at

LEMMA ComparedInit == Init => Compared
<1>1. ASSUME Init, NEW d \in Devices, NEW s \in Slots, task[d][s] # None
      PROVE  task[d][s].stage = "get"
  BY <1>1 DEF Init, NewTask
<1>2. QED BY <1>1 DEF Compared

\* A request is replaced by none, by one that is at another stage, or by one
\* that has been compared.
LEMMA ComparedTask ==
  ASSUME Typed, Compared, NEW d \in Devices, NEW s \in Slots, NEW t,
         task' = [task EXCEPT ![d][s] = t],
         t # None /\ t.stage = "loaded" /\ t.base # None => t.base.at <= t.doc.at
  PROVE  Compared'
<1>1. ASSUME NEW e \in Devices, NEW r \in Slots
      PROVE  task'[e][r] = IF e = d /\ r = s THEN t ELSE task[e][r]
  BY DEF Typed
<1>2. QED BY <1>1 DEF Compared

LEMMA ComparedStep == Typed /\ Compared /\ [Next]_vars => Compared'
<1> SUFFICES ASSUME Typed, Compared, [Next]_vars PROVE Compared'
  OBVIOUS
<1>1. ASSUME UNCHANGED task PROVE Compared'
  BY <1>1 DEF Compared
<1>2. ASSUME NEW d \in Devices, NEW s \in Slots, NEW u, NEW stage, NEW doc, stage # "loaded",
             task' = [task EXCEPT ![d][s] = NewTask(u, stage, doc)]
      PROVE  Compared'
  <2>1. NewTask(u, stage, doc).stage = stage
    BY DEF NewTask
  <2>2. QED BY <1>2, <2>1, ComparedTask
<1>3. ASSUME NEW d \in Devices, NEW s \in Slots, task' = [task EXCEPT ![d][s] = None] PROVE Compared'
  BY <1>3, ComparedTask
<1>4. ASSUME NEW d \in Devices, NEW doc, Round(d, doc) PROVE Compared'
  <2>1. Flush \in Slots
    BY DEF Slots
  <2>2. CASE user[d] # None /\ doc.at # 0
    <3>1. task' = [task EXCEPT ![d][Flush] = NewTask(user[d], "put", doc)]
      BY <1>4, <2>2 DEF Round
    <3>2. QED BY <1>2, <2>1, <3>1
  <2>3. CASE ~(user[d] # None /\ doc.at # 0)
    <3>1. task' = [task EXCEPT ![d][Flush] = None]
      BY <1>4, <2>3 DEF Round
    <3>2. QED BY <1>3, <2>1, <3>1
  <2>4. QED BY <2>2, <2>3
<1>5. ASSUME NEW d \in Devices, PlayerStep(d) PROVE Compared'
  BY <1>1, <1>5, PlayerEdits DEF Commit
<1>6. ASSUME NEW d \in Devices, NEW u \in Users,
             Login(d, u) \/ ServeGet(d, u) \/ Reconcile(d, u)
      PROVE  Compared'
  <2>1. u \in Slots
    BY DEF Slots
  <2>2. CASE Login(d, u)
    BY <1>2, <2>1, <2>2 DEF Login, SetTask
  <2>3. CASE ServeGet(d, u)
    BY <1>2, <2>1, <2>3 DEF ServeGet, SetTask
  <2>4. CASE Reconcile(d, u)
    BY <1>2, <1>3, <2>1, <2>4 DEF Reconcile, SetTask
  <2>5. QED BY <1>6, <2>2, <2>3, <2>4
<1>7. ASSUME NEW d \in Devices, Logout(d) \/ Silence(d) \/ TimedFlush(d) \/ HiddenFlush(d)
      PROVE  Compared'
  BY <1>1, <1>4, <1>7 DEF Logout, Silence, sync, TimedFlush, HiddenFlush, StartFlush
<1>8. ASSUME NEW d \in Devices, NEW s \in Slots, Load(d, s) PROVE Compared'
  <2> DEFINE t == task[d][s]
             row == rows[t.user]
             kept == row # None /\ row.at > t.doc.at
             new == [t EXCEPT !.stage = IF kept THEN "done" ELSE "loaded", !.base = row]
  <2>1. t \in Tasks /\ t.user \in Users /\ t.doc \in Docs
    BY <1>8 DEF Load, Tasks, Typed
  <2>2. new.stage = (IF kept THEN "done" ELSE "loaded") /\ new.base = row /\ new.doc = t.doc
    BY <2>1 DEF Tasks
  <2>3. task' = [task EXCEPT ![d][s] = new]
    BY <1>8 DEF Load, SetTask
  <2>4. row # None => row.at \in Nat /\ t.doc.at \in Nat
    BY <2>1 DEF Typed, Docs, Time
  <2> HIDE DEF new
  <2>5. new # None /\ new.stage = "loaded" /\ new.base # None => new.base.at <= new.doc.at
    BY <2>2, <2>4
  <2>6. QED BY <2>3, <2>5, ComparedTask
<1>9. ASSUME NEW d \in Devices, NEW s \in Slots, Save(d, s) PROVE Compared'
  <2> DEFINE new == [task[d][s] EXCEPT !.stage = "done", !.base = None]
  <2>1. task[d][s] \in Tasks
    BY <1>9 DEF Save, Typed
  <2>2. new.stage = "done"
    BY <2>1 DEF Tasks
  <2>3. task' = [task EXCEPT ![d][s] = new]
    BY <1>9 DEF Save, SetTask
  <2> HIDE DEF new
  <2>4. QED BY <2>2, <2>3, ComparedTask
<1>10. ASSUME NEW d \in Devices, NEW s \in Slots, Answer(d, s) \/ Refuse(d, s) \/ Lose(d, s) PROVE Compared'
  BY <1>3, <1>4, <1>10 DEF Answer, Refuse, Lose, Abort, SetTask
<1>11. CASE UNCHANGED vars
  BY <1>1, <1>11 DEF vars, sync
<1>12. ASSUME NEW d \in Devices, NetStep(d) PROVE Compared'
  BY <1>6, <1>7, <1>8, <1>10, <1>12 DEF NetStep
<1>13. QED BY <1>5, <1>9, <1>11, <1>12, NextSteps

\* No upload replaces the document of an account by an older one unless another
\* upload came in between: only Save writes one, after a comparison.
THEOREM NeverReplacedByOlder == Spec => NeverOlder
<1>1. Typed /\ Compared /\ [Next]_vars =>
        [\A u \in Users :
           rows[u] # None => rows'[u] # None /\ (rows'[u].at >= rows[u].at \/ u \in clash')]_vars
  <2> SUFFICES ASSUME Typed, Compared, Next, NEW u \in Users, rows[u] # None
               PROVE  rows'[u] # None /\ (rows'[u].at >= rows[u].at \/ u \in clash')
    OBVIOUS
  <2>1. rows[u] \in Docs /\ rows[u].at \in Nat
    BY DEF Typed, Docs, Time
  <2>2. CASE rows' = rows
    BY <2>1, <2>2
  <2>3. ASSUME NEW d \in Devices, NEW s \in Slots, Save(d, s)
        PROVE  rows'[u] # None /\ (rows'[u].at >= rows[u].at \/ u \in clash')
    <3> DEFINE t == task[d][s]
    <3>1. t # None /\ t.stage = "loaded" /\ ~Conflict(t) /\ t \in Tasks /\ t.user \in Users /\ t.doc \in Docs
      BY <2>3 DEF Save, Typed, Tasks
    <3>2. /\ rows' = [rows EXCEPT ![t.user] = Cleaned(t.doc)]
          /\ clash' = IF rows[t.user] # t.base THEN clash \cup {t.user} ELSE clash
      BY <2>3 DEF Save
    <3>3. CASE t.user # u
      BY <2>1, <3>1, <3>2, <3>3 DEF Typed
    <3>4. CASE t.user = u
      <4>1. rows'[u] = Cleaned(t.doc) /\ Cleaned(t.doc).at = t.doc.at
        BY <3>1, <3>2, <3>4, CleanedTyped DEF Typed
      <4>2. rows'[u] # None
        <5>1. Cleaned(t.doc) \in Docs
          BY <3>1, CleanedTyped
        <5>2. QED BY <4>1, <5>1, NoDocAssumption
      <4>3. CASE rows[u] # t.base
        BY <3>2, <3>4, <4>2, <4>3
      <4>4. CASE rows[u] = t.base
        BY <2>1, <3>1, <4>1, <4>2, <4>4 DEF Compared, Docs, Time
      <4>5. QED BY <4>3, <4>4
    <3>5. QED BY <3>3, <3>4
  <2>4. rows' # rows => \E d \in Devices, s \in Slots : Save(d, s)
    BY NextSteps, NetFrame, PlayerEdits DEF Commit
  <2>5. QED BY <2>2, <2>3, <2>4
<1>2. QED BY <1>1, TypedInit, TypedStep, ComparedInit, ComparedStep, PTL DEF Spec, NeverOlder
-----------------------------------------------------------------------------
\* Every copy of an account's queue, at the server, in a request or on a device
\* where the account is signed in or owns the queue, holds cards of that
\* account alone, or the account is one of those that may have been mixed up.
FitsIn(doc, u, m) == Bys(doc) \subseteq {u, Guest} \/ u \in m
TaskFits(t, m) ==
  /\ FitsIn(t.doc, t.user, m)
  /\ t.base # None => FitsIn(t.base, t.user, m)

RowsApart == \A u \in Users : rows[u] # None => FitsIn(rows[u], u, mixed)
TasksApart == \A d \in Devices, s \in Slots : task[d][s] # None => TaskFits(task[d][s], mixed)
LocalApart == \A d \in Devices : \A u \in Users \cap {user[d], owner[d]} : FitsIn(local[d], u, mixed)
Apart == RowsApart /\ TasksApart /\ LocalApart

\* A document without cards of others is not foreign.
LEMMA OwnCards ==
  ASSUME NEW doc, NEW u
  PROVE  ~Foreign(doc, u) <=> Bys(doc) \subseteq {u, Guest}
BY DEF Foreign, Bys

LEMMA ApartInit == Init => Apart
<1> SUFFICES ASSUME Init PROVE Apart
  OBVIOUS
<1>1. RowsApart
  <2>1. ASSUME NEW u \in Users, rows[u] # None PROVE FitsIn(rows[u], u, mixed)
    <3>1. PICK d \in Devices : Started(d) = u /\ rows[u] = local[d]
      BY <2>1, RowsInit
    <3>2. ~Foreign(local[d], u)
      BY <3>1, RowsInit, FirstDocsAssumption, NamesAssumption
    <3>3. QED BY <3>1, <3>2, OwnCards DEF FitsIn
  <2>2. QED BY <2>1 DEF RowsApart
<1>2. TasksApart
  <2>1. ASSUME NEW d \in Devices, NEW s \in Slots, task[d][s] # None PROVE TaskFits(task[d][s], mixed)
    <3>1. task[d][s] = NewTask(s, "get", Empty)
      BY <2>1 DEF Init
    <3>2. task[d][s].doc = Empty /\ task[d][s].base = None
      BY <3>1 DEF NewTask
    <3>3. QED BY <3>2, EmptyTyped DEF TaskFits, FitsIn
  <2>2. QED BY <2>1 DEF TasksApart
<1>3. LocalApart
  <2>1. ASSUME NEW d \in Devices, NEW u \in Users \cap {user[d], owner[d]} PROVE FitsIn(local[d], u, mixed)
    <3>1. u = Started(d) /\ u # None /\ local[d] \in FirstDocs(d)
      BY <2>1, NamesAssumption DEF Init
    <3>2. ~Foreign(local[d], u)
      BY <3>1, FirstDocsAssumption
    <3>3. QED BY <3>2, OwnCards DEF FitsIn
  <2>2. QED BY <2>1 DEF LocalApart
<1>4. QED BY <1>1, <1>2, <1>3 DEF Apart

\* A step that mixes something up says so.
LEMMA Mixed ==
  ASSUME NEW d \in Devices, NEW accounts, NEW cause \in BOOLEAN, Mix(d, accounts, cause)
  PROVE  /\ mixed \subseteq mixed'
         /\ cause => \A u \in Users \cap accounts : FitsIn(local'[d], u, mixed')
<1>1. ASSUME cause, NEW u \in Users \cap accounts PROVE FitsIn(local'[d], u, mixed')
  <2>1. u # None
    BY NamesAssumption
  <2>2. Foreign(local'[d], u) => u \in mixed'
    BY <1>1, <2>1 DEF Mix
  <2>3. QED BY <2>2, OwnCards DEF FitsIn
<1>2. QED BY <1>1 DEF Mix

\* What a step leaves alone stays apart, whoever is mixed up.
LEMMA RowsKept ==
  ASSUME RowsApart, rows' = rows, mixed \subseteq mixed'
  PROVE  RowsApart'
BY DEF RowsApart, FitsIn

LEMMA TasksKept ==
  ASSUME TasksApart, task' = task, mixed \subseteq mixed'
  PROVE  TasksApart'
BY DEF TasksApart, TaskFits, FitsIn

LEMMA TaskReplaced ==
  ASSUME Typed, TasksApart, mixed \subseteq mixed', NEW d \in Devices, NEW s \in Slots, NEW t,
         task' = [task EXCEPT ![d][s] = t], t # None => TaskFits(t, mixed')
  PROVE  TasksApart'
<1>1. ASSUME NEW e \in Devices, NEW r \in Slots
      PROVE  task'[e][r] = IF e = d /\ r = s THEN t ELSE task[e][r]
  BY DEF Typed
<1>2. ASSUME NEW e \in Devices, NEW r \in Slots, task[e][r] # None PROVE TaskFits(task[e][r], mixed')
  BY <1>2 DEF TasksApart, TaskFits, FitsIn
<1>3. QED BY <1>1, <1>2 DEF TasksApart

LEMMA LocalKept ==
  ASSUME LocalApart, mixed \subseteq mixed', NEW d \in Devices,
         \A e \in Devices \ {d} : local'[e] = local[e] /\ user'[e] = user[e] /\ owner'[e] = owner[e],
         \A u \in Users \cap {user'[d], owner'[d]} : FitsIn(local'[d], u, mixed')
  PROVE  LocalApart'
<1>1. ASSUME NEW e \in Devices \ {d}, NEW u \in Users \cap {user'[e], owner'[e]}
      PROVE  FitsIn(local'[e], u, mixed')
  BY <1>1 DEF LocalApart, FitsIn
<1>2. QED BY <1>1 DEF LocalApart

LEMMA SameLocal ==
  ASSUME LocalApart, mixed \subseteq mixed', UNCHANGED <<local, user, owner>>
  PROVE  LocalApart'
BY DEF LocalApart, FitsIn

\* A new request carries what it is given.
LEMMA NewTaskFits ==
  ASSUME NEW u, NEW stage, NEW doc, NEW m, FitsIn(doc, u, m)
  PROVE  TaskFits(NewTask(u, stage, doc), m)
BY DEF TaskFits, NewTask

\* A round of the flush sends the queue of who is signed in.
LEMMA RoundApart ==
  ASSUME Typed, TasksApart, mixed \subseteq mixed', NEW d \in Devices, NEW doc, Round(d, doc),
         user[d] # None => FitsIn(doc, user[d], mixed')
  PROVE  TasksApart'
<1> DEFINE t == IF user[d] # None /\ doc.at # 0 THEN NewTask(user[d], "put", doc) ELSE None
<1>1. task' = [task EXCEPT ![d][Flush] = t] /\ Flush \in Slots
  BY DEF Round, Slots
<1>2. t # None => TaskFits(t, mixed')
  BY NewTaskFits
<1> HIDE DEF t
<1>3. QED BY <1>1, <1>2, TaskReplaced

\* The reader adds cards of their own to the player's copy.
LEMMA PlayerApart ==
  ASSUME Typed, Apart, NEW d \in Devices, PlayerStep(d)
  PROVE  Apart'
<1>1. PICK doc : Commit(d, doc) /\ Made(doc, ref[d], By(d))
  BY PlayerEdits
<1> DEFINE cause == ref[d].items # local[d].items \/ Stray(d)
<1>2. Mix(d, {user[d], owner[d]}, cause)
  BY <1>1 DEF Commit
<1>3. mixed \subseteq mixed' /\ (cause => \A u \in Users \cap {user[d], owner[d]} : FitsIn(local'[d], u, mixed'))
  BY <1>2, Mixed
<1>4. UNCHANGED <<rows, user, owner, task>> /\ \A e \in Devices \ {d} : local'[e] = local[e]
  BY <1>1 DEF Commit, Typed
<1>5. Bys(local'[d]) \subseteq Bys(ref[d]) \cup {By(d)}
  <2>1. doc \in Docs /\ local'[d] = Sanitize(doc)
    BY <1>1 DEF Made, Commit, Typed
  <2>2. QED BY <1>1, <2>1, Sanitized DEF Made
<1>6. ASSUME ~cause, NEW u \in Users \cap {user[d], owner[d]} PROVE FitsIn(local'[d], u, mixed')
  <2>1. Bys(ref[d]) = Bys(local[d])
    BY <1>6 DEF Bys
  <2>2. By(d) \in {u, Guest}
    BY <1>6, NamesAssumption DEF By, Stray
  <2>3. FitsIn(local[d], u, mixed)
    BY DEF Apart, LocalApart
  <2>4. QED BY <1>3, <1>5, <2>1, <2>2, <2>3 DEF FitsIn
<1>7. \A u \in Users \cap {user[d], owner[d]} : FitsIn(local'[d], u, mixed')
  BY <1>3, <1>6
<1>8. LocalApart'
  BY <1>3, <1>4, <1>7, LocalKept DEF Apart
<1>9. QED BY <1>3, <1>4, <1>8, RowsKept, TasksKept DEF Apart

\* Signing in clears the queue of another reader.
LEMMA LoginApart ==
  ASSUME Typed, Apart, NEW d \in Devices, NEW u \in Users, Login(d, u)
  PROVE  Apart'
<1>1. Mix(d, {u}, owner[d] = None)
  BY DEF Login
<1>2. mixed \subseteq mixed' /\ (owner[d] = None => FitsIn(local'[d], u, mixed'))
  BY <1>1, Mixed
<1>3. task' = [task EXCEPT ![d][u] = NewTask(u, "get", Empty)] /\ u \in Slots
  BY DEF Login, SetTask, Slots
<1>4. FitsIn(Empty, u, mixed')
  BY EmptyTyped DEF FitsIn
<1>5. TasksApart'
  BY <1>2, <1>3, <1>4, NewTaskFits, TaskReplaced DEF Apart
<1>6. /\ \A e \in Devices \ {d} : local'[e] = local[e] /\ user'[e] = user[e] /\ owner'[e] = owner[e]
      /\ user'[d] = u /\ owner'[d] \in {None, u}
  BY EmptyTyped, WriteTyped DEF Login, Typed
<1>7. FitsIn(local'[d], u, mixed')
  <2>1. CASE owner[d] = None
    BY <1>2, <2>1
  <2>2. CASE owner[d] = u
    BY <1>2, <2>2 DEF Login, Apart, LocalApart, FitsIn
  <2>3. CASE owner[d] \notin {None, u}
    <3>1. Write(d, Empty)
      BY <2>3 DEF Login
    <3>2. Bys(local'[d]) = {}
      BY <3>1, EmptyTyped, WriteTyped
    <3>3. QED BY <3>2 DEF FitsIn
  <2>4. QED BY <2>1, <2>2, <2>3
<1>8. LocalApart'
  <2>1. \A v \in Users \cap {user'[d], owner'[d]} : FitsIn(local'[d], v, mixed')
    BY <1>6, <1>7, NamesAssumption
  <2>2. QED BY <1>2, <1>6, <2>1, LocalKept DEF Apart
<1>9. QED BY <1>2, <1>5, <1>8, RowsKept DEF Login, Apart

\* The queue of the account replaces that of the device, or the other way round;
\* only when another reader is signed in by then can it come to the wrong one.
LEMMA ReconcileApart ==
  ASSUME Typed, Apart, NEW d \in Devices, NEW u \in Users, Reconcile(d, u)
  PROVE  Apart'
<1> DEFINE remote == task[d][u].doc
<1>1. Mix(d, {u, user[d]}, user[d] # u)
  BY DEF Reconcile
<1>2. mixed \subseteq mixed' /\ (user[d] # u => \A v \in Users \cap {u, user[d]} : FitsIn(local'[d], v, mixed'))
  BY <1>1, Mixed
<1>3. task[d][u] # None /\ u \in Slots /\ task[d][u].user = u /\ remote \in Docs
  BY DEF Reconcile, Slots, Typed, Tasks
<1>4. FitsIn(remote, u, mixed)
  BY <1>3 DEF Apart, TasksApart, TaskFits
<1>5. user' = user /\ rows' = rows
  BY DEF Reconcile
<1>6. CASE local[d].at > remote.at
  <2>1. UNCHANGED <<local, owner>> /\ task' = [task EXCEPT ![d][u] = NewTask(u, "put", local[d])]
    BY <1>6 DEF Reconcile, SetTask
  <2>2. FitsIn(local[d], u, mixed')
    BY <1>2, <2>1 DEF Apart, LocalApart, FitsIn
  <2>3. TasksApart'
    BY <1>2, <1>3, <2>1, <2>2, NewTaskFits, TaskReplaced DEF Apart
  <2>4. QED BY <1>2, <1>5, <2>1, <2>3, RowsKept, SameLocal DEF Apart
<1>7. CASE ~(local[d].at > remote.at)
  <2>1. task' = [task EXCEPT ![d][u] = None] /\ owner' = [owner EXCEPT ![d] = u]
    BY <1>7 DEF Reconcile, SetTask
  <2>2. local' = local \/ Write(d, remote) \/ Write(d, Empty)
    BY <1>7 DEF Reconcile
  <2>3. Bys(local'[d]) = Bys(local[d]) \/ Bys(local'[d]) = Bys(remote) \/ Bys(local'[d]) = {}
    BY <1>3, <2>2, EmptyTyped, WriteTyped
  <2>4. \A e \in Devices \ {d} : local'[e] = local[e]
    BY <1>3, <2>2, EmptyTyped, WriteTyped
  <2>5. ASSUME NEW v \in Users \cap {user'[d], owner'[d]} PROVE FitsIn(local'[d], v, mixed')
    <3>1. v \in {user[d], u}
      BY <1>5, <2>1 DEF Typed
    <3>2. CASE user[d] # u
      BY <1>2, <3>1, <3>2
    <3>3. CASE user[d] = u
      <4>1. FitsIn(local[d], v, mixed) /\ FitsIn(remote, v, mixed)
        BY <1>4, <3>1, <3>3 DEF Apart, LocalApart
      <4>2. QED BY <1>2, <2>3, <4>1 DEF FitsIn
    <3>4. QED BY <3>2, <3>3
  <2>6. LocalApart'
    BY <1>2, <1>5, <2>1, <2>4, <2>5, LocalKept DEF Apart, Typed
  <2>7. TasksApart'
    BY <1>2, <1>3, <2>1, TaskReplaced DEF Apart
  <2>8. QED BY <1>2, <1>5, <2>6, <2>7, RowsKept DEF Apart
<1>8. QED BY <1>6, <1>7

\* The server stores what was sent, for whom it was sent, and answers what was
\* stored.
LEMMA ServerApart ==
  ASSUME Typed, Apart, NEW d \in Devices,
         \/ \E u \in Users : ServeGet(d, u)
         \/ \E s \in Slots : Load(d, s) \/ Save(d, s)
  PROVE  Apart'
<1>1. UNCHANGED <<local, user, owner, mixed>>
  BY DEF ServeGet, Load, Save, history
<1>2. LocalApart'
  BY <1>1, SameLocal DEF Apart
<1>3. ASSUME NEW s \in Slots, task[d][s] # None
      PROVE  /\ task[d][s] \in Tasks /\ task[d][s].user \in Users /\ task[d][s].doc \in Docs
             /\ TaskFits(task[d][s], mixed)
  BY <1>3 DEF Typed, Tasks, Apart, TasksApart
<1>4. ASSUME NEW u \in Users, ServeGet(d, u) PROVE Apart'
  <2> DEFINE doc == IF rows[u] = None THEN Empty ELSE rows[u]
  <2>1. FitsIn(doc, u, mixed)
    BY EmptyTyped DEF Apart, RowsApart, FitsIn
  <2>2. TaskFits(NewTask(u, "got", doc), mixed')
    BY <1>1, <2>1, NewTaskFits
  <2>3. task' = [task EXCEPT ![d][u] = NewTask(u, "got", doc)] /\ u \in Slots /\ rows' = rows
    BY <1>4 DEF ServeGet, SetTask, Slots
  <2> HIDE DEF doc
  <2>4. TasksApart'
    BY <1>1, <2>2, <2>3, TaskReplaced DEF Apart
  <2>5. QED BY <1>1, <1>2, <2>3, <2>4, RowsKept DEF Apart
<1>5. ASSUME NEW s \in Slots, Load(d, s) PROVE Apart'
  <2> DEFINE t == task[d][s]
             row == rows[t.user]
             kept == row # None /\ row.at > t.doc.at
             new == [t EXCEPT !.stage = IF kept THEN "done" ELSE "loaded", !.base = row]
  <2>1. t # None
    BY <1>5 DEF Load
  <2>2. t \in Tasks /\ t.user \in Users /\ TaskFits(t, mixed)
    BY <1>3, <2>1
  <2>3. new.base = row /\ new.doc = t.doc /\ new.user = t.user
    BY <2>2 DEF Tasks
  <2>4. task' = [task EXCEPT ![d][s] = new] /\ rows' = rows
    BY <1>5 DEF Load, SetTask
  <2> HIDE DEF new
  <2>5. TaskFits(new, mixed')
    BY <1>1, <2>2, <2>3 DEF TaskFits, FitsIn, Apart, RowsApart
  <2>6. TasksApart'
    BY <1>1, <2>4, <2>5, TaskReplaced DEF Apart
  <2>7. QED BY <1>1, <1>2, <2>4, <2>6, RowsKept DEF Apart
<1>6. ASSUME NEW s \in Slots, Save(d, s) PROVE Apart'
  <2> DEFINE t == task[d][s]
             new == [t EXCEPT !.stage = "done", !.base = None]
  <2>1. t # None
    BY <1>6 DEF Save
  <2>2. t \in Tasks /\ t.user \in Users /\ t.doc \in Docs /\ TaskFits(t, mixed)
    BY <1>3, <2>1
  <2>3. new.base = None /\ new.doc = t.doc /\ new.user = t.user
    BY <2>2 DEF Tasks
  <2>4. task' = [task EXCEPT ![d][s] = new] /\ rows' = [rows EXCEPT ![t.user] = Cleaned(t.doc)]
    BY <1>6 DEF Save, SetTask
  <2> HIDE DEF new
  <2>5. TaskFits(new, mixed')
    BY <1>1, <2>2, <2>3 DEF TaskFits, FitsIn
  <2>6. TasksApart'
    BY <1>1, <2>4, <2>5, TaskReplaced DEF Apart
  <2>7. FitsIn(Cleaned(t.doc), t.user, mixed)
    BY <2>2, CleanedTyped DEF TaskFits, FitsIn
  <2>8. RowsApart'
    BY <1>1, <2>2, <2>4, <2>7 DEF Apart, RowsApart, Typed
  <2>9. QED BY <1>2, <2>6, <2>8 DEF Apart
<1>7. QED BY <1>4, <1>5, <1>6

\* An answer is taken over by the reader who asked, unless another is signed in
\* or owns the queue by then.
LEMMA AnswerApart ==
  ASSUME Typed, Apart, NEW d \in Devices, NEW s \in Slots, Answer(d, s)
  PROVE  Apart'
<1> DEFINE t == task[d][s]
           accounts == {user[d], IF s = Flush THEN owner[d] ELSE t.user}
           cause == user[d] # t.user \/ Stray(d)
<1>1. Mix(d, accounts, cause)
  BY DEF Answer
<1>2. mixed \subseteq mixed' /\ (cause => \A v \in Users \cap accounts : FitsIn(local'[d], v, mixed'))
  BY <1>1, Mixed
<1>3. t \in Tasks /\ t.user \in Users /\ t.base \in Docs \cup {None} /\ TaskFits(t, mixed)
  BY DEF Answer, Typed, Tasks, Apart, TasksApart
<1>4. /\ UNCHANGED <<rows, user>> /\ \A e \in Devices \ {d} : owner'[e] = owner[e]
      /\ {user'[d], owner'[d]} = accounts
  BY <1>3 DEF Answer, Typed
<1>5. local' = local \/ (t.base # None /\ Write(d, Choose(local[d], t.base)))
  BY DEF Answer
<1>6. Choose(local[d], t.base) \in {local[d], t.base} /\ local[d] \in Docs
  BY DEF Choose, Typed
<1>7. /\ \A e \in Devices \ {d} : local'[e] = local[e]
      /\ Bys(local'[d]) = Bys(local[d]) \/ (t.base # None /\ Bys(local'[d]) = Bys(t.base))
  BY <1>3, <1>5, <1>6, WriteTyped
<1>8. ASSUME ~cause, NEW v \in Users \cap accounts PROVE FitsIn(local'[d], v, mixed')
  <2>1. v = user[d] /\ v = t.user
    BY <1>3, <1>8, NamesAssumption DEF Stray
  <2>2. FitsIn(local[d], v, mixed)
    BY <2>1 DEF Apart, LocalApart
  <2>3. t.base # None => FitsIn(t.base, v, mixed)
    BY <1>3, <2>1 DEF TaskFits
  <2>4. QED BY <1>2, <1>7, <2>2, <2>3 DEF FitsIn
<1>9. \A v \in Users \cap accounts : FitsIn(local'[d], v, mixed')
  BY <1>2, <1>8
<1>10. LocalApart'
  BY <1>2, <1>4, <1>7, <1>9, LocalKept DEF Apart
<1>11. TasksApart'
  <2>1. CASE SetTask(d, s, None)
    BY <1>2, <2>1, TaskReplaced DEF Apart, SetTask
  <2>2. CASE Round(d, local'[d])
    <3>1. user[d] # None => FitsIn(local'[d], user[d], mixed')
      BY <1>9 DEF Typed
    <3>2. QED BY <1>2, <2>2, <3>1, RoundApart DEF Apart
  <2>3. QED BY <2>1, <2>2 DEF Answer
<1>12. QED BY <1>2, <1>4, <1>10, <1>11, RowsKept DEF Apart

LEMMA ApartStep == Typed /\ Apart /\ [Next]_vars => Apart'
<1> SUFFICES ASSUME Typed, Apart, [Next]_vars PROVE Apart'
  OBVIOUS
<1>1. ASSUME UNCHANGED <<rows, user, owner, local, task, mixed>> PROVE Apart'
  BY <1>1, RowsKept, TasksKept, SameLocal DEF Apart
<1>2. ASSUME NEW d \in Devices, Silence(d) PROVE Apart'
  BY <1>1, <1>2 DEF Silence, sync, history
<1>3. ASSUME NEW d \in Devices, Logout(d) PROVE Apart'
  <2>1. UNCHANGED <<rows, owner, local, task, mixed>> /\ user' = [user EXCEPT ![d] = None]
    BY <1>3 DEF Logout, history
  <2>2. LocalApart'
    BY <2>1, NamesAssumption DEF Apart, LocalApart, Typed
  <2>3. QED BY <2>1, <2>2, RowsKept, TasksKept DEF Apart
<1>4. ASSUME NEW d \in Devices, TimedFlush(d) \/ HiddenFlush(d) PROVE Apart'
  <2>1. StartFlush(d)
    BY <1>4 DEF TimedFlush, HiddenFlush
  <2>2. UNCHANGED <<rows, user, owner, local, mixed>> /\ (task' = task \/ Round(d, local[d]))
    BY <2>1 DEF StartFlush
  <2>3. user[d] # None => FitsIn(local[d], user[d], mixed')
    BY <2>2 DEF Apart, LocalApart, Typed
  <2>4. TasksApart'
    BY <2>2, <2>3, RoundApart, TasksKept DEF Apart
  <2>5. QED BY <2>2, <2>4, RowsKept, SameLocal DEF Apart
<1>5. ASSUME NEW d \in Devices, NEW s \in Slots, Refuse(d, s) \/ Lose(d, s) PROVE Apart'
  <2>1. UNCHANGED <<rows, user, owner, local, mixed>> /\ task' = [task EXCEPT ![d][s] = None]
    BY <1>5 DEF Refuse, Lose, Abort, SetTask
  <2>2. TasksApart'
    BY <2>1, TaskReplaced DEF Apart
  <2>3. QED BY <2>1, <2>2, RowsKept, SameLocal DEF Apart
<1>6. ASSUME NEW d \in Devices, NetStep(d) PROVE Apart'
  BY <1>2, <1>3, <1>4, <1>5, <1>6, LoginApart, ReconcileApart, ServerApart, AnswerApart DEF NetStep
<1>7. CASE UNCHANGED vars
  BY <1>1, <1>7 DEF vars, sync, history
<1>8. QED BY <1>6, <1>7, NextSteps, PlayerApart, ServerApart

\* However two readers share a device, in whatever order they sign in and out
\* and answers arrive, the account of one holds a card of the other only if one
\* of the three causes has occurred to it.
THEOREM QueuesStayApart == Spec => []LeakIsExplained
<1>1. Apart => LeakIsExplained
  BY OwnCards DEF Apart, RowsApart, FitsIn, LeakIsExplained
<1>2. QED BY <1>1, TypedInit, TypedStep, ApartInit, ApartStep, PTL DEF Spec
-----------------------------------------------------------------------------
\* Every copy of a queue keeps the limit, holds no card twice and has a queued
\* card for its current one; the player's copy may have another current one.
RowsNeat == \A u \in Users : rows[u] # None => WellFormed(rows[u])
LocalNeat == \A d \in Devices : WellFormed(local[d]) /\ Neat(ref[d].items)
TaskNeat(t) == WellFormed(t.doc) /\ (t.base # None => WellFormed(t.base))
TasksNeat == \A d \in Devices, s \in Slots : task[d][s] # None => TaskNeat(task[d][s])
AllNeat == RowsNeat /\ LocalNeat /\ TasksNeat

LEMMA EmptyNeat == WellFormed(Empty)
<1>1. Empty.items = << >> /\ Empty.current = None /\ Len(<< >>) = 0 /\ DOMAIN << >> = {}
  BY EmptySeq DEF Empty
<1>2. Len(Empty.items) <= MaxQueue
  BY <1>1, BoundsAssumption
<1>3. QED BY <1>1, <1>2 DEF WellFormed, Neat

LEMMA SanitizedNeat ==
  ASSUME NEW doc \in Docs, Neat(doc.items)
  PROVE  WellFormed(Sanitize(doc))
<1>1. Sanitize(doc).items = doc.items /\ Ids(Sanitize(doc)) = Ids(doc)
  BY Sanitized
<1>2. Sanitize(doc).current \in Ids(doc) \cup {None}
  BY DEF Sanitize, Docs
<1>3. QED BY <1>1, <1>2 DEF WellFormed

LEMMA CleanedNeat ==
  ASSUME NEW doc \in Docs, WellFormed(doc)
  PROVE  WellFormed(Cleaned(doc))
<1> DEFINE items == Keep(doc.items, Known)
           kept == [doc EXCEPT !.items = items]
<1>1. doc.items \in Seq(Item)
  BY FieldsOf
<1>2. From(items, doc.items)
  BY <1>1, KeptItems
<1>3. Neat(items)
  BY <1>1, <1>2, NeatLeft DEF WellFormed
<1>4. Cleaned(doc) = Sanitize(kept)
  BY DEF Cleaned
<1> HIDE DEF items
<1>5. kept \in Docs /\ kept.items = items
  BY <1>2 DEF Docs, From
<1> HIDE DEF kept
<1>6. QED BY <1>3, <1>4, <1>5, SanitizedNeat

LEMMA NeatInit == Init => AllNeat
<1> SUFFICES ASSUME Init PROVE AllNeat
  OBVIOUS
<1>1. RowsNeat
  BY RowsInit, FirstDocsAssumption DEF RowsNeat
<1>2. \A d \in Devices : local[d] \in FirstDocs(d) /\ ref[d] = local[d]
  BY DEF Init
<1>3. LocalNeat
  BY <1>2, FirstDocsAssumption DEF LocalNeat, WellFormed
<1>4. ASSUME NEW d \in Devices, NEW s \in Slots, task[d][s] # None PROVE TaskNeat(task[d][s])
  <2>1. task[d][s].doc = Empty /\ task[d][s].base = None
    BY <1>4 DEF Init, NewTask
  <2>2. QED BY <2>1, EmptyNeat DEF TaskNeat
<1>5. QED BY <1>1, <1>3, <1>4 DEF AllNeat, TasksNeat

LEMMA NeatWrite ==
  ASSUME Typed, LocalNeat, NEW d \in Devices, NEW doc \in Docs, WellFormed(doc), Write(d, doc)
  PROVE  LocalNeat'
<1>1. WellFormed(Sanitize(doc))
  BY SanitizedNeat DEF WellFormed
<1>2. Neat(Sanitize(doc).items)
  BY <1>1 DEF WellFormed
<1>3. \A e \in Devices : local'[e] = (IF e = d THEN Sanitize(doc) ELSE local[e])
  BY DEF Write, Typed
<1>4. \A e \in Devices : ref'[e] = ref[e] \/ ref'[e] = Sanitize(doc)
  BY DEF Write, Typed
<1>5. QED BY <1>1, <1>2, <1>3, <1>4 DEF LocalNeat

LEMMA NeatTask ==
  ASSUME Typed, TasksNeat, NEW d \in Devices, NEW s \in Slots, NEW t,
         task' = [task EXCEPT ![d][s] = t], t # None => TaskNeat(t)
  PROVE  TasksNeat'
<1>1. ASSUME NEW e \in Devices, NEW r \in Slots
      PROVE  task'[e][r] = IF e = d /\ r = s THEN t ELSE task[e][r]
  BY DEF Typed
<1>2. QED BY <1>1 DEF TasksNeat

LEMMA NeatNewTask ==
  ASSUME Typed, TasksNeat, NEW d \in Devices, NEW s \in Slots, NEW u, NEW stage, NEW doc,
         WellFormed(doc), task' = [task EXCEPT ![d][s] = NewTask(u, stage, doc)]
  PROVE  TasksNeat'
<1>1. TaskNeat(NewTask(u, stage, doc))
  BY DEF TaskNeat, NewTask
<1>2. QED BY <1>1, NeatTask

LEMMA NeatRound ==
  ASSUME Typed, TasksNeat, NEW d \in Devices, NEW doc, WellFormed(doc), Round(d, doc)
  PROVE  TasksNeat'
<1>1. Flush \in Slots
  BY DEF Slots
<1>2. CASE user[d] # None /\ doc.at # 0
  <2>1. task' = [task EXCEPT ![d][Flush] = NewTask(user[d], "put", doc)]
    BY <1>2 DEF Round
  <2>2. QED BY <1>1, <2>1, NeatNewTask
<1>3. CASE ~(user[d] # None /\ doc.at # 0)
  <2>1. task' = [task EXCEPT ![d][Flush] = None]
    BY <1>3 DEF Round
  <2>2. QED BY <1>1, <2>1, NeatTask
<1>4. QED BY <1>2, <1>3

LEMMA NeatStep == Typed /\ AllNeat /\ [Next]_vars => AllNeat'
<1> SUFFICES ASSUME Typed, AllNeat, [Next]_vars PROVE AllNeat'
  OBVIOUS
<1> USE DEF AllNeat
<1>1. ASSUME rows' = rows PROVE RowsNeat'
  BY <1>1 DEF RowsNeat
<1>2. ASSUME UNCHANGED <<local, ref>> PROVE LocalNeat'
  BY <1>2 DEF LocalNeat
<1>3. ASSUME task' = task PROVE TasksNeat'
  BY <1>3 DEF TasksNeat
<1>4. ASSUME NEW d \in Devices, PlayerStep(d) PROVE AllNeat'
  <2>1. PICK doc : Commit(d, doc) /\ Made(doc, ref[d], By(d))
    BY <1>4, PlayerEdits
  <2>2. doc \in Docs /\ Neat(doc.items)
    BY <2>1 DEF Made, LocalNeat
  <2>3. WellFormed(Sanitize(doc))
    BY <2>2, SanitizedNeat
  <2>4. \A e \in Devices :
          /\ local'[e] = (IF e = d THEN Sanitize(doc) ELSE local[e])
          /\ ref'[e] = (IF e = d THEN doc ELSE ref[e])
    BY <2>1 DEF Commit, Typed
  <2>5. LocalNeat'
    BY <2>2, <2>3, <2>4 DEF LocalNeat
  <2>6. rows' = rows /\ task' = task
    BY <2>1 DEF Commit
  <2>7. QED BY <1>1, <1>3, <2>5, <2>6
<1>5. ASSUME NEW d \in Devices, NEW u \in Users, Login(d, u) PROVE AllNeat'
  <2>1. rows' = rows /\ u \in Slots /\ task' = [task EXCEPT ![d][u] = NewTask(u, "get", Empty)]
    BY <1>5 DEF Login, SetTask, Slots
  <2>2. UNCHANGED <<local, ref, adopted>> \/ Write(d, Empty)
    BY <1>5 DEF Login
  <2>3. LocalNeat'
    BY <1>2, <2>2, EmptyTyped, EmptyNeat, NeatWrite
  <2>4. TasksNeat'
    BY <2>1, EmptyNeat, NeatNewTask
  <2>5. QED BY <1>1, <2>1, <2>3, <2>4
<1>6. ASSUME NEW d \in Devices, Logout(d) \/ Silence(d) PROVE AllNeat'
  BY <1>1, <1>2, <1>3, <1>6 DEF Logout, Silence, sync
<1>7. ASSUME NEW d \in Devices, TimedFlush(d) \/ HiddenFlush(d) PROVE AllNeat'
  <2>1. StartFlush(d)
    BY <1>7 DEF TimedFlush, HiddenFlush
  <2>2. UNCHANGED <<rows, local, ref>> /\ (task' = task \/ Round(d, local[d]))
    BY <2>1 DEF StartFlush
  <2>3. WellFormed(local[d])
    BY DEF LocalNeat
  <2>4. TasksNeat'
    BY <1>3, <2>2, <2>3, NeatRound
  <2>5. QED BY <1>1, <1>2, <2>2, <2>4
<1>8. ASSUME NEW d \in Devices, NEW s \in Slots, task[d][s] # None
      PROVE  /\ task[d][s] \in Tasks /\ task[d][s].user \in Users /\ task[d][s].doc \in Docs
             /\ task[d][s].base \in Docs \cup {None} /\ TaskNeat(task[d][s])
  BY <1>8 DEF Typed, Tasks, TasksNeat
<1>9. ASSUME NEW d \in Devices, NEW u \in Users, ServeGet(d, u) PROVE AllNeat'
  <2> DEFINE doc == IF rows[u] = None THEN Empty ELSE rows[u]
  <2>1. WellFormed(doc)
    BY EmptyNeat DEF RowsNeat
  <2>2. u \in Slots /\ task' = [task EXCEPT ![d][u] = NewTask(u, "got", doc)] /\ UNCHANGED <<rows, local, ref>>
    BY <1>9 DEF ServeGet, SetTask, Slots
  <2> HIDE DEF doc
  <2>3. TasksNeat'
    BY <2>1, <2>2, NeatNewTask
  <2>4. QED BY <1>1, <1>2, <2>2, <2>3
<1>10. ASSUME NEW d \in Devices, NEW u \in Users, Reconcile(d, u) PROVE AllNeat'
  <2> DEFINE remote == task[d][u].doc
  <2>1. task[d][u] # None /\ u \in Slots /\ rows' = rows
    BY <1>10 DEF Reconcile, Slots
  <2>2. remote \in Docs /\ WellFormed(remote) /\ WellFormed(local[d])
    BY <1>8, <2>1 DEF TaskNeat, LocalNeat
  <2>3. UNCHANGED <<local, ref>> \/ Write(d, remote) \/ Write(d, Empty)
    BY <1>10 DEF Reconcile
  <2>4. task' = [task EXCEPT ![d][u] = None] \/ task' = [task EXCEPT ![d][u] = NewTask(u, "put", local[d])]
    BY <1>10 DEF Reconcile, SetTask
  <2> HIDE DEF remote
  <2>5. LocalNeat'
    BY <1>2, <2>2, <2>3, EmptyTyped, EmptyNeat, NeatWrite
  <2>6. TasksNeat'
    BY <2>1, <2>2, <2>4, NeatTask, NeatNewTask
  <2>7. QED BY <1>1, <2>1, <2>5, <2>6
<1>11. ASSUME NEW d \in Devices, NEW s \in Slots, Load(d, s) PROVE AllNeat'
  <2> DEFINE t == task[d][s]
             row == rows[t.user]
             kept == row # None /\ row.at > t.doc.at
             new == [t EXCEPT !.stage = IF kept THEN "done" ELSE "loaded", !.base = row]
  <2>1. task[d][s] # None
    BY <1>11 DEF Load
  <2>2. t \in Tasks /\ t.user \in Users /\ TaskNeat(t)
    BY <1>8, <2>1
  <2>3. new.base = row /\ new.doc = t.doc
    BY <2>2 DEF Tasks
  <2>4. task' = [task EXCEPT ![d][s] = new] /\ UNCHANGED <<rows, local, ref>>
    BY <1>11 DEF Load, SetTask
  <2> HIDE DEF new
  <2>5. TaskNeat(new)
    BY <2>2, <2>3 DEF TaskNeat, RowsNeat
  <2>6. TasksNeat'
    BY <2>4, <2>5, NeatTask
  <2>7. QED BY <1>1, <1>2, <2>4, <2>6
<1>12. ASSUME NEW d \in Devices, NEW s \in Slots, Save(d, s) PROVE AllNeat'
  <2> DEFINE t == task[d][s]
             new == [t EXCEPT !.stage = "done", !.base = None]
  <2>1. task[d][s] # None
    BY <1>12 DEF Save
  <2>2. t \in Tasks /\ t.user \in Users /\ t.doc \in Docs /\ TaskNeat(t)
    BY <1>8, <2>1
  <2>3. new.base = None /\ new.doc = t.doc
    BY <2>2 DEF Tasks
  <2>4. /\ task' = [task EXCEPT ![d][s] = new] /\ UNCHANGED <<local, ref>>
        /\ rows' = [rows EXCEPT ![t.user] = Cleaned(t.doc)]
    BY <1>12 DEF Save, SetTask
  <2> HIDE DEF new
  <2>5. TaskNeat(new) /\ WellFormed(Cleaned(t.doc))
    BY <2>2, <2>3, CleanedNeat DEF TaskNeat
  <2>6. RowsNeat'
    BY <2>2, <2>4, <2>5 DEF RowsNeat, Typed
  <2>7. TasksNeat'
    BY <2>4, <2>5, NeatTask
  <2>8. QED BY <1>2, <2>4, <2>6, <2>7
<1>13. ASSUME NEW d \in Devices, NEW s \in Slots, Answer(d, s) PROVE AllNeat'
  <2> DEFINE t == task[d][s]
  <2>1. task[d][s] # None /\ rows' = rows
    BY <1>13 DEF Answer
  <2>2. t.base \in Docs \cup {None} /\ TaskNeat(t)
    BY <1>8, <2>1
  <2>3. UNCHANGED <<local, ref>> \/ (t.base # None /\ Write(d, Choose(local[d], t.base)))
    BY <1>13 DEF Answer
  <2>4. t.base # None => Choose(local[d], t.base) \in Docs /\ WellFormed(Choose(local[d], t.base))
    BY <2>2 DEF Choose, TaskNeat, LocalNeat, Typed
  <2>5. LocalNeat'
    BY <1>2, <2>3, <2>4, NeatWrite
  <2>6. WellFormed(local'[d])
    BY <2>5 DEF LocalNeat, WellFormed, Neat, Ids
  <2>7. TasksNeat'
    <3>1. CASE SetTask(d, s, None)
      BY <3>1, NeatTask DEF SetTask
    <3>2. CASE Round(d, local'[d])
      BY <2>6, <3>2, NeatRound
    <3>3. QED BY <1>13, <3>1, <3>2 DEF Answer
  <2>8. QED BY <1>1, <2>1, <2>5, <2>7
<1>14. ASSUME NEW d \in Devices, NEW s \in Slots, Refuse(d, s) \/ Lose(d, s) PROVE AllNeat'
  <2>1. Abort(d, s)
    BY <1>14 DEF Refuse, Lose
  <2>2. UNCHANGED <<rows, local, ref>> /\ task' = [task EXCEPT ![d][s] = None]
    BY <2>1 DEF Abort, SetTask
  <2>3. QED BY <1>1, <1>2, <2>2, NeatTask
<1>15. CASE UNCHANGED vars
  BY <1>1, <1>2, <1>3, <1>15 DEF vars, sync
<1>16. ASSUME NEW d \in Devices, NetStep(d) PROVE AllNeat'
  BY <1>5, <1>6, <1>7, <1>9, <1>10, <1>11, <1>13, <1>14, <1>16 DEF NetStep
<1>17. QED BY <1>4, <1>12, <1>15, <1>16, NextSteps

\* The types of what the proofs above do not look at.
Rest ==
  /\ timer \in [Devices -> BOOLEAN] /\ again \in [Devices -> BOOLEAN] /\ failed \in [Devices -> BOOLEAN]
  /\ moves \in 0 .. MaxMoves
  /\ mixed \subseteq Users /\ clash \subseteq Users /\ adopted \subseteq Devices

LEMMA RestInit == Init => Rest
<1> SUFFICES ASSUME Init PROVE Rest
  OBVIOUS
<1>1. 0 \in 0 .. MaxMoves
  BY BoundsAssumption
<1>2. QED BY <1>1 DEF Init, Rest

LEMMA RestStep == Typed /\ Rest /\ [Next]_vars => Rest'
<1> SUFFICES ASSUME Typed, Rest, [Next]_vars PROVE Rest'
  OBVIOUS
<1> USE DEF Rest
<1>1. Move => moves' \in 0 .. MaxMoves
  BY BoundsAssumption DEF Move
<1>2. ASSUME NEW d \in Devices, NEW a \in Users \cup {None}, NEW b \in Users \cup {None}, NEW cause,
             Mix(d, {a, b}, cause)
      PROVE  mixed' \subseteq Users
  BY <1>2 DEF Mix
<1>3. ASSUME NEW d \in Devices, NEW doc, Write(d, doc) PROVE adopted' \subseteq Devices
  BY <1>3 DEF Write
<1>4. ASSUME NEW d \in Devices, Schedule(d)
      PROVE  timer' \in [Devices -> BOOLEAN] /\ again' \in [Devices -> BOOLEAN]
  BY <1>4 DEF Schedule
<1>5. ASSUME NEW d \in Devices, PlayerStep(d) PROVE Rest'
  <2>1. PICK doc : Commit(d, doc)
    BY <1>5, PlayerEdits
  <2>2. moves' = moves
    BY <1>5 DEF PlayerStep, Toggle, Play, Progress, Stop, End, SetAutoNext
  <2>3. mixed' \subseteq Users
    BY <1>2, <2>1 DEF Commit, Typed
  <2>4. QED BY <1>4, <2>1, <2>2, <2>3 DEF Commit
<1>6. ASSUME NEW d \in Devices, NEW u \in Users, Login(d, u) PROVE Rest'
  <2>1. mixed' \subseteq Users
    BY <1>6 DEF Login, Mix
  <2>2. timer' \in [Devices -> BOOLEAN] /\ again' \in [Devices -> BOOLEAN]
    BY <1>6 DEF Login
  <2>3. adopted' \subseteq Devices
    BY <1>6, <1>3 DEF Login
  <2>4. QED BY <1>1, <1>6, <2>1, <2>2, <2>3 DEF Login
<1>7. ASSUME NEW d \in Devices, Logout(d) \/ Silence(d) PROVE Rest'
  BY <1>1, <1>7 DEF Logout, Silence, sync, history
<1>8. ASSUME NEW d \in Devices, TimedFlush(d) \/ HiddenFlush(d) PROVE Rest'
  <2>1. StartFlush(d)
    BY <1>8 DEF TimedFlush, HiddenFlush
  <2>2. again' \in [Devices -> BOOLEAN] /\ failed' \in [Devices -> BOOLEAN]
    BY <2>1 DEF StartFlush
  <2>3. timer' \in [Devices -> BOOLEAN] /\ moves' \in 0 .. MaxMoves
    BY <1>1, <1>8 DEF TimedFlush, HiddenFlush
  <2>4. QED BY <2>1, <2>2, <2>3 DEF StartFlush
<1>9. ASSUME NEW d \in Devices, NEW u \in Users, ServeGet(d, u) \/ Reconcile(d, u) PROVE Rest'
  <2>1. CASE ServeGet(d, u)
    BY <2>1 DEF ServeGet, history
  <2>2. CASE Reconcile(d, u)
    <3>1. mixed' \subseteq Users
      BY <1>2, <2>2 DEF Reconcile, Typed
    <3>2. adopted' \subseteq Devices
      BY <1>3, <2>2 DEF Reconcile
    <3>3. QED BY <2>2, <3>1, <3>2 DEF Reconcile
  <2>3. QED BY <1>9, <2>1, <2>2
<1>10. ASSUME NEW d \in Devices, NEW s \in Slots, Load(d, s) PROVE Rest'
  BY <1>10 DEF Load, history
<1>11. ASSUME NEW d \in Devices, NEW s \in Slots, task[d][s] # None PROVE task[d][s].user \in Users
  BY <1>11 DEF Typed, Tasks
<1>12. ASSUME NEW d \in Devices, NEW s \in Slots, Save(d, s) PROVE Rest'
  <2>1. task[d][s].user \in Users
    BY <1>12, <1>11 DEF Save
  <2>2. clash' \subseteq Users
    BY <1>12, <2>1 DEF Save
  <2>3. UNCHANGED <<timer, again, failed, moves, mixed, adopted>>
    BY <1>12 DEF Save
  <2>4. QED BY <2>2, <2>3
<1>13. ASSUME NEW d \in Devices, NEW s \in Slots, Answer(d, s) PROVE Rest'
  <2>1. task[d][s].user \in Users
    BY <1>13, <1>11 DEF Answer
  <2>2. mixed' \subseteq Users
    <3> DEFINE b == IF s = Flush THEN owner[d] ELSE task[d][s].user
    <3>1. b \in Users \cup {None} /\ user[d] \in Users \cup {None}
      BY <2>1 DEF Typed
    <3>2. PICK cause : Mix(d, {user[d], b}, cause)
      BY <1>13 DEF Answer
    <3> HIDE DEF b
    <3>3. QED BY <1>2, <3>1, <3>2
  <2>3. timer' \in [Devices -> BOOLEAN] /\ again' \in [Devices -> BOOLEAN]
    <3>1. \/ timer' = timer /\ again' = [again EXCEPT ![d] = FALSE]
          \/ Schedule(d)
          \/ UNCHANGED <<timer, again>>
      BY <1>13 DEF Answer
    <3>2. QED BY <1>4, <3>1
  <2>4. adopted' \subseteq Devices
    BY <1>13, <1>3 DEF Answer
  <2>5. QED BY <1>13, <2>2, <2>3, <2>4 DEF Answer
<1>14. ASSUME NEW d \in Devices, NEW s \in Slots, Refuse(d, s) \/ Lose(d, s) PROVE Rest'
  <2>1. Abort(d, s) /\ moves' \in 0 .. MaxMoves
    BY <1>1, <1>14 DEF Refuse, Lose
  <2>2. failed' = [failed EXCEPT ![d] = TRUE] /\ UNCHANGED <<timer, again, mixed, clash, adopted>>
    BY <2>1 DEF Abort
  <2>3. QED BY <2>1, <2>2
<1>15. CASE UNCHANGED vars
  BY <1>15 DEF vars, sync, history
<1>16. ASSUME NEW d \in Devices, NetStep(d) PROVE Rest'
  BY <1>6, <1>7, <1>8, <1>9, <1>10, <1>13, <1>14, <1>16 DEF NetStep
<1>17. QED BY <1>5, <1>12, <1>15, <1>16, NextSteps

\* Every variable keeps its type, and every queue its order: whatever is edited,
\* uploaded, taken over or cleared, no queue outgrows its limit or holds a card
\* twice.
THEOREM TypeCorrect == Spec => []TypeOK
<1>1. Typed /\ AllNeat /\ Rest => TypeOK
  BY DEF Typed, AllNeat, RowsNeat, LocalNeat, Rest, TypeOK
<1>2. QED BY <1>1, TypedInit, TypedStep, NeatInit, NeatStep, RestInit, RestStep, PTL DEF Spec
=============================================================================
