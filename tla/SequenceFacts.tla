--------------------------- MODULE SequenceFacts ---------------------------
(***************************************************************************)
(* Facts about sequences that the proofs about queues, buffers and PDUs on *)
(* the air share: what the sequence operators return, element by element,  *)
(* for a sequence over the set of its own elements.                        *)
(***************************************************************************)
EXTENDS Integers, SequencesExt, SequenceTheorems, WellFoundedInduction, TLAPS

\* A sequence is one of its own elements.
LEMMA OwnElements == ASSUME NEW S, NEW q \in Seq(S) PROVE q \in Seq(ToSet(q))
<1>1. /\ Len(q) \in Nat /\ DOMAIN q = 1..Len(q) /\ q = [i \in 1..Len(q) |-> q[i]]
      /\ \A i \in 1..Len(q) : q[i] \in ToSet(q)
  BY DEF ToSet
<1>. QED  BY <1>1

LEMMA EmptyTyped == <<>> \in Seq(ToSet(<<>>)) /\ Len(<<>>) = 0 /\ DOMAIN <<>> = {}
OBVIOUS

LEMMA OneTyped ==
  ASSUME NEW n, NEW q, q = <<n>>
  PROVE  q \in Seq(ToSet(q)) /\ Len(q) = 1 /\ DOMAIN q = {1} /\ q[1] = n
<1>1. q \in Seq({n}) /\ Len(q) = 1 /\ DOMAIN q = 1..1 /\ q[1] = n
  OBVIOUS
<1>2. q \in Seq(ToSet(q))
  BY <1>1, OwnElements
<1>. QED  BY <1>1, <1>2

LEMMA TwoTyped ==
  ASSUME NEW m, NEW n, NEW q, q = <<m, n>>
  PROVE  q \in Seq(ToSet(q)) /\ Len(q) = 2 /\ DOMAIN q = {1, 2} /\ q[1] = m /\ q[2] = n
<1>1. q \in Seq({m, n}) /\ Len(q) = 2 /\ DOMAIN q = 1..2 /\ q[1] = m /\ q[2] = n
  OBVIOUS
<1>2. q \in Seq(ToSet(q))
  BY <1>1, OwnElements
<1>. QED  BY <1>1, <1>2

LEMMA TailTyped ==
  ASSUME NEW q, q \in Seq(ToSet(q)), q # <<>>
  PROVE  /\ Tail(q) \in Seq(ToSet(Tail(q)))
         /\ 1 \in DOMAIN q /\ Head(q) = q[1] /\ Len(Tail(q)) = Len(q) - 1
         /\ \A i \in DOMAIN Tail(q) : i + 1 \in DOMAIN q /\ Tail(q)[i] = q[i + 1]
<1>1. Tail(q) \in Seq(ToSet(q))
  OBVIOUS
<1>2. Tail(q) \in Seq(ToSet(Tail(q)))
  BY <1>1, OwnElements
<1>. QED  BY <1>2

LEMMA AppendTyped ==
  ASSUME NEW q, NEW n, q \in Seq(ToSet(q))
  PROVE  /\ Append(q, n) \in Seq(ToSet(Append(q, n)))
         /\ DOMAIN Append(q, n) = 1..Len(q) + 1 /\ Len(Append(q, n)) = Len(q) + 1
         /\ \A i \in DOMAIN q : Append(q, n)[i] = q[i]
         /\ Append(q, n)[Len(q) + 1] = n
<1>1. q \in Seq(ToSet(q) \cup {n})
  OBVIOUS
<1>2. Append(q, n) \in Seq(ToSet(q) \cup {n})
  BY <1>1
<1>3. Append(q, n) \in Seq(ToSet(Append(q, n)))
  BY <1>2, OwnElements
<1>. QED  BY <1>3

LEMMA ConcatTyped ==
  ASSUME NEW q, NEW r, q \in Seq(ToSet(q)), r \in Seq(ToSet(r))
  PROVE  /\ q \o r \in Seq(ToSet(q \o r))
         /\ Len(q) \in Nat /\ Len(r) \in Nat
         /\ DOMAIN (q \o r) = 1..Len(q) + Len(r)
         /\ \A i \in DOMAIN (q \o r) :
              \/ i \in DOMAIN q /\ (q \o r)[i] = q[i]
              \/ /\ i > Len(q) /\ i - Len(q) \in DOMAIN r
                 /\ (q \o r)[i] = r[i - Len(q)]
<1> DEFINE S == ToSet(q) \cup ToSet(r)
<1>1. q \in Seq(S) /\ r \in Seq(S)
  OBVIOUS
<1>2. /\ q \o r \in Seq(S) /\ Len(q \o r) = Len(q) + Len(r)
      /\ \A i \in 1..Len(q) + Len(r) :
           (q \o r)[i] = IF i <= Len(q) THEN q[i] ELSE r[i - Len(q)]
  BY <1>1, ConcatProperties
<1>3. q \o r \in Seq(ToSet(q \o r))
  BY <1>2, OwnElements
<1>4. Len(q) \in Nat /\ Len(r) \in Nat /\ DOMAIN q = 1..Len(q) /\ DOMAIN r = 1..Len(r)
  OBVIOUS
<1>5. DOMAIN (q \o r) = 1..Len(q) + Len(r)
  BY <1>2
<1> HIDE DEF S
<1>. QED  BY <1>2, <1>3, <1>4, <1>5

\* Nothing, or one element, put at the end.
LEMMA ConcatFew ==
  ASSUME NEW q, NEW n, q \in Seq(ToSet(q))
  PROVE  q \o <<>> = q /\ q \o <<n>> = Append(q, n)
<1>1. q \in Seq(ToSet(q) \cup {n}) /\ n \in ToSet(q) \cup {n}
  OBVIOUS
<1>. QED  BY <1>1, ConcatEmptySeq, AppendIsConcat

\* RemoveAt takes one element out and keeps the others in their order.
LEMMA Removed ==
  ASSUME NEW S, NEW q \in Seq(S), NEW i \in DOMAIN q
  PROVE  /\ RemoveAt(q, i) \in Seq(S) /\ Len(RemoveAt(q, i)) = Len(q) - 1
         /\ DOMAIN RemoveAt(q, i) = 1..Len(q) - 1
         /\ \A j \in 1..Len(q) - 1 :
              RemoveAt(q, i)[j] = IF j < i THEN q[j] ELSE q[j + 1]
<1> DEFINE a == SubSeq(q, 1, i - 1)
           b == SubSeq(q, i + 1, Len(q))
<1>1. /\ Len(q) \in Nat /\ i \in 1..Len(q) /\ \A j \in 1..Len(q) : q[j] \in S
  OBVIOUS
<1>2. /\ a \in Seq(S) /\ Len(a) = IF 1 <= i - 1 THEN i - 1 - 1 + 1 ELSE 0
      /\ \A j \in 1..i - 1 - 1 + 1 : a[j] = q[1 + j - 1]
  <2>1. \A j \in 1..i - 1 : q[j] \in S
    BY <1>1
  <2>2. 1 \in Int /\ i - 1 \in Int
    BY <1>1
  <2> HIDE DEF a
  <2>. QED  BY <2>1, <2>2, SubSeqProperties DEF a
<1>3. /\ b \in Seq(S) /\ Len(b) = IF i + 1 <= Len(q) THEN Len(q) - (i + 1) + 1 ELSE 0
      /\ \A j \in 1..Len(q) - (i + 1) + 1 : b[j] = q[i + 1 + j - 1]
  <2>1. \A j \in i + 1..Len(q) : q[j] \in S
    BY <1>1
  <2>2. i + 1 \in Int /\ Len(q) \in Int
    BY <1>1
  <2> HIDE DEF b
  <2>. QED  BY <2>1, <2>2, SubSeqProperties DEF b
<1>4. Len(a) = i - 1 /\ Len(b) = Len(q) - i
  BY <1>1, <1>2, <1>3
<1>5. RemoveAt(q, i) = a \o b
  BY DEF RemoveAt
<1> HIDE DEF a, b
<1>6. /\ a \o b \in Seq(S) /\ Len(a \o b) = Len(a) + Len(b)
      /\ \A j \in 1..Len(a) + Len(b) : (a \o b)[j] = IF j <= Len(a) THEN a[j] ELSE b[j - Len(a)]
  BY <1>2, <1>3, ConcatProperties
<1>7. Len(a \o b) = Len(q) - 1
  BY <1>1, <1>4, <1>6
<1>8. \A j \in 1..Len(q) - 1 : (a \o b)[j] = IF j < i THEN q[j] ELSE q[j + 1]
  <2> TAKE j \in 1..Len(q) - 1
  <2>1. CASE j < i
    <3>1. j <= Len(a) /\ a[j] = q[j] /\ j \in 1..Len(a) + Len(b)
      BY <1>1, <1>2, <1>4, <2>1
    <3>. QED  BY <1>6, <2>1, <3>1
  <2>2. CASE ~(j < i)
    <3>1. ~(j <= Len(a)) /\ j \in 1..Len(a) + Len(b) /\ j - Len(a) \in 1..Len(b)
      BY <1>1, <1>4, <2>2
    <3>2. b[j - Len(a)] = q[j + 1]
      <4>1. j - (i - 1) \in 1..Len(q) - (i + 1) + 1 /\ i + 1 + (j - (i - 1)) - 1 = j + 1
        BY <1>1, <2>2
      <4>2. b[j - (i - 1)] = q[i + 1 + (j - (i - 1)) - 1]
        BY <1>3, <4>1
      <4>. QED  BY <1>4, <4>1, <4>2
    <3>. QED  BY <1>6, <2>2, <3>1, <3>2
  <2>. QED  BY <2>1, <2>2
<1>. QED  BY <1>5, <1>6, <1>7, <1>8

\* What is left when an element of a sequence without duplicates is removed.
LEMMA RemovedOnce ==
  ASSUME NEW S, NEW q \in Seq(S), IsInjective(q), NEW i \in DOMAIN q
  PROVE  IsInjective(RemoveAt(q, i)) /\ ToSet(RemoveAt(q, i)) = ToSet(q) \ {q[i]}
<1> DEFINE r == RemoveAt(q, i)
<1>1. /\ DOMAIN r = 1..Len(q) - 1 /\ DOMAIN q = 1..Len(q) /\ Len(q) \in Nat
      /\ \A j \in 1..Len(q) - 1 : r[j] = IF j < i THEN q[j] ELSE q[j + 1]
  <2>1. /\ DOMAIN r = 1..Len(q) - 1
        /\ \A j \in 1..Len(q) - 1 : r[j] = IF j < i THEN q[j] ELSE q[j + 1]
    BY Removed, Zenon
  <2>2. DOMAIN q = 1..Len(q) /\ Len(q) \in Nat
    OBVIOUS
  <2>. QED  BY <2>1, <2>2, Zenon
<1> HIDE DEF r
<1>2. \A j, k \in DOMAIN q : q[j] = q[k] => j = k
  BY DEF IsInjective
<1>3. IsInjective(r)
  <2> SUFFICES ASSUME NEW j \in DOMAIN r, NEW k \in DOMAIN r, r[j] = r[k] PROVE j = k
    BY DEF IsInjective
  <2>1. r[j] = q[IF j < i THEN j ELSE j + 1] /\ r[k] = q[IF k < i THEN k ELSE k + 1]
    BY <1>1
  <2>2. /\ (IF j < i THEN j ELSE j + 1) \in DOMAIN q /\ (IF k < i THEN k ELSE k + 1) \in DOMAIN q
    BY <1>1
  <2>3. (IF j < i THEN j ELSE j + 1) = (IF k < i THEN k ELSE k + 1)
    BY <1>2, <2>1, <2>2
  <2>. QED  BY <1>1, <2>3
<1>4. ASSUME NEW x \in ToSet(r) PROVE x \in ToSet(q) \ {q[i]}
  <2>1. PICK j \in DOMAIN r : x = r[j]
    BY DEF ToSet
  <2>2. PICK k \in DOMAIN q : k # i /\ x = q[k]
    BY <1>1, <2>1
  <2>. QED  BY <1>2, <2>2 DEF ToSet
<1>5. ASSUME NEW x \in ToSet(q) \ {q[i]} PROVE x \in ToSet(r)
  <2>1. PICK k \in DOMAIN q : x = q[k]
    BY DEF ToSet
  <2>2. CASE k < i
    <3>1. k \in DOMAIN r /\ r[k] = x
      BY <1>1, <2>1, <2>2
    <3>. QED  BY <3>1 DEF ToSet
  <2>3. CASE ~(k < i)
    <3>1. k - 1 \in DOMAIN r /\ r[k - 1] = x
      BY <1>1, <2>1, <2>3, <1>5
    <3>. QED  BY <3>1 DEF ToSet
  <2>. QED  BY <2>2, <2>3
<1>. QED  BY <1>3, <1>4, <1>5 DEF r

\* A new element at the end of a sequence without duplicates.
LEMMA AppendedOnce ==
  ASSUME NEW S, NEW q \in Seq(S), IsInjective(q), NEW n \in S, n \notin ToSet(q)
  PROVE  /\ Append(q, n) \in Seq(S) /\ IsInjective(Append(q, n))
         /\ ToSet(Append(q, n)) = ToSet(q) \cup {n}
<1> DEFINE r == Append(q, n)
<1>1. /\ r \in Seq(S) /\ Len(q) \in Nat /\ DOMAIN q = 1..Len(q) /\ DOMAIN r = 1..Len(q) + 1
      /\ \A i \in DOMAIN q : r[i] = q[i]
      /\ r[Len(q) + 1] = n
  BY AppendProperties
<1> HIDE DEF r
<1>2. IsInjective(r)
  BY <1>1 DEF IsInjective, ToSet
<1>3. \A i \in DOMAIN r : r[i] \in ToSet(q) \cup {n}
  BY <1>1 DEF ToSet
<1>4. \A i \in DOMAIN q : q[i] \in ToSet(r)
  <2> TAKE i \in DOMAIN q
  <2>1. i \in DOMAIN r /\ r[i] = q[i]
    BY <1>1
  <2>. QED  BY <2>1 DEF ToSet
<1>5. n \in ToSet(r)
  <2>1. Len(q) + 1 \in DOMAIN r
    BY <1>1
  <2>. QED  BY <1>1, <2>1 DEF ToSet
<1>6. ToSet(r) = ToSet(q) \cup {n}
  BY <1>3, <1>4, <1>5 DEF ToSet
<1>. QED  BY <1>1, <1>2, <1>6 DEF r

\* A set of numbers that has an element has a least one.
LEMMA LeastExists ==
  ASSUME NEW T, T \subseteq Nat, T # {}
  PROVE  \E i \in T : \A j \in T : i <= j
<1>1. \E i \in T : \A j \in T : ~(<<j, i>> \in OpToRel(<, Nat))
  BY NatLessThanWellFounded, WFMin, Zenon
<1>2. \A i \in T : \A j \in T : j < i => <<j, i>> \in OpToRel(<, Nat)
  BY Zenon DEF OpToRel
<1>3. \E i \in T : \A j \in T : ~(j < i)
  BY <1>1, <1>2, Zenon
<1>4. \A i \in T : \A j \in T : ~(j < i) => i <= j
  OBVIOUS
<1>. QED  BY <1>3, <1>4, Zenon

=============================================================================
