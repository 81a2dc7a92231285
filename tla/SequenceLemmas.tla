--------------------------- MODULE SequenceLemmas ---------------------------
(***************************************************************************)
(* Facts about sequences the proofs about the server, its clients and the  *)
(* lobby have in common: std::vector::erase, push_back, iter_swap and      *)
(* std::find, and induction over a set of naturals.                        *)
(***************************************************************************)
EXTENDS Integers, SequencesExt, SequenceTheorems, WellFoundedInduction, TLAPS

(***************************************************************************)
(* Induction, stated with a set so that it needs no operator.              *)
(***************************************************************************)
LEMMA LeastElement ==
  ASSUME NEW T, T \subseteq Nat, T # {}
  PROVE  \E n \in T : \A k \in T : n <= k
<1>1. PICK x \in T : \A y \in T : <<y, x>> \notin OpToRel(<, Nat)
  BY NatLessThanWellFounded, WFMin
<1>2. \A y \in T : ~(y < x)
  BY <1>1 DEF OpToRel
<1>3. QED BY <1>2

LEMMA SetInduction ==
  ASSUME NEW T, 0 \in T, \A n \in Nat : n \in T => n + 1 \in T
  PROVE  Nat \subseteq T
<1> SUFFICES ASSUME Nat \ T # {} PROVE FALSE
  OBVIOUS
<1>1. PICK n \in Nat \ T : \A k \in Nat \ T : n <= k
  BY LeastElement
<1>2. n - 1 \in Nat /\ n - 1 \notin Nat \ T
  BY <1>1
<1>3. QED BY <1>1, <1>2
-----------------------------------------------------------------------------
(***************************************************************************)
(* Searching and erasing.                                                  *)
(***************************************************************************)
\* The smallest element of a singleton: find_if where at most one game matches.
LEMMA MinOfOne == ASSUME NEW i \in Nat PROVE Min({i}) = i
  BY DEF Min

\* vector::erase at i moves the later elements one place down.
LEMMA RemoveAtFacts ==
  ASSUME NEW S, NEW s \in Seq(S), NEW i \in DOMAIN s
  PROVE  /\ RemoveAt(s, i) \in Seq(S)
         /\ \A j \in DOMAIN RemoveAt(s, i) : \E k \in DOMAIN s \ {i} : RemoveAt(s, i)[j] = s[k]
         /\ \A j, k \in DOMAIN RemoveAt(s, i) :
               j # k => \E u, v \in DOMAIN s \ {i} :
                          u # v /\ RemoveAt(s, i)[j] = s[u] /\ RemoveAt(s, i)[k] = s[v]
         /\ \A k \in DOMAIN s \ {i} : \E j \in DOMAIN RemoveAt(s, i) : RemoveAt(s, i)[j] = s[k]
<1> DEFINE r == RemoveAt(s, i)
           a == SubSeq(s, 1, i-1)
           b == SubSeq(s, i+1, Len(s))
           from(j) == IF j < i THEN j ELSE j + 1
<1>1. Len(s) \in Nat /\ DOMAIN s = 1..Len(s) /\ i \in 1..Len(s)
  BY LenProperties
<1>2. r = a \o b
  BY DEF RemoveAt
<1>3. a \in Seq(S) /\ Len(a) = i - 1 /\ \A j \in 1..(i-1) : a[j] = s[j]
  BY <1>1
<1>4. b \in Seq(S) /\ Len(b) = Len(s) - i /\ \A j \in 1..(Len(s) - i) : b[j] = s[i + j]
  BY <1>1
<1> HIDE DEF r, a, b
<1>5. /\ r \in Seq(S)
      /\ Len(r) = Len(s) - 1
      /\ \A j \in 1..(Len(s) - 1) : r[j] = IF j < i THEN a[j] ELSE b[j - (i - 1)]
  <2>1. /\ a \o b \in Seq(S)
        /\ Len(a \o b) = Len(a) + Len(b)
        /\ \A j \in 1 .. Len(a) + Len(b) :
              (a \o b)[j] = IF j <= Len(a) THEN a[j] ELSE b[j - Len(a)]
    BY <1>3, <1>4, ConcatProperties
  <2>2. Len(a) + Len(b) = Len(s) - 1
    BY <1>1, <1>3, <1>4
  <2>3. \A j \in 1..(Len(s) - 1) : j <= Len(a) <=> j < i
    BY <1>1, <1>3
  <2>4. QED BY <2>1, <2>2, <2>3, <1>2, <1>3
<1>6. DOMAIN r = 1..(Len(s) - 1)
  BY <1>5, LenProperties
<1>7. \A j \in 1..(Len(s) - 1) : r[j] = s[from(j)]
  <2> TAKE j \in 1..(Len(s) - 1)
  <2>1. CASE j < i
    BY <1>1, <1>3, <1>5, <2>1
  <2>2. CASE ~(j < i)
    <3>1. j - (i - 1) \in 1..(Len(s) - i) /\ i + (j - (i - 1)) = j + 1
      BY <1>1, <2>2
    <3>2. b[j - (i - 1)] = s[j + 1]
      BY <1>4, <3>1
    <3>3. QED BY <1>5, <2>2, <3>2
  <2>3. QED BY <2>1, <2>2
<1>8. \A j \in 1..(Len(s) - 1) : from(j) \in DOMAIN s \ {i}
  BY <1>1
<1>9. \A j, k \in 1..(Len(s) - 1) : j # k => from(j) # from(k)
  BY <1>1
<1>10. \A k \in DOMAIN s \ {i} : \E j \in 1..(Len(s) - 1) : from(j) = k
  <2> TAKE k \in DOMAIN s \ {i}
  <2>1. CASE k < i
    <3>1. k \in 1..(Len(s) - 1) /\ from(k) = k
      BY <1>1, <2>1
    <3>2. QED BY <3>1
  <2>2. CASE k > i
    <3>1. k - 1 \in 1..(Len(s) - 1) /\ from(k - 1) = k
      BY <1>1, <2>2
    <3>2. QED BY <3>1
  <2>3. QED BY <1>1, <2>1, <2>2
<1> HIDE DEF from
<1>11. \A j \in DOMAIN r : \E k \in DOMAIN s \ {i} : r[j] = s[k]
  BY <1>6, <1>7, <1>8
<1>12. \A j, k \in DOMAIN r :
          j # k => \E u, v \in DOMAIN s \ {i} : u # v /\ r[j] = s[u] /\ r[k] = s[v]
  BY <1>6, <1>7, <1>8, <1>9
<1>13. \A k \in DOMAIN s \ {i} : \E j \in DOMAIN r : r[j] = s[k]
  BY <1>6, <1>7, <1>10
<1>14. QED BY <1>5, <1>11, <1>12, <1>13 DEF r

\* What is read of a sequence by position is what its set of elements holds.
LEMMA ToSetFacts ==
  ASSUME NEW S, NEW s \in Seq(S)
  PROVE  /\ ToSet(s) = {s[i] : i \in 1..Len(s)}
         /\ ToSet(s) \subseteq S
         /\ s # <<>> => s[1] \in ToSet(s) /\ 1 \in 1..Len(s)
<1>1. Len(s) \in Nat /\ DOMAIN s = 1..Len(s)
  BY LenProperties
<1>2. ToSet(s) \subseteq S
  BY <1>1, ElementOfSeq DEF ToSet
<1>3. s # <<>> => 1 \in 1..Len(s)
  BY <1>1, EmptySeq
<1>4. QED BY <1>1, <1>2, <1>3 DEF ToSet

\* std::find: the position of e, 0 when it is not there.
LEMMA FindFacts ==
  ASSUME NEW S, NEW s \in Seq(S), NEW e
  PROVE  LET i == SelectInSeq(s, LAMBDA v : v = e)
         IN  /\ e \notin ToSet(s) => i = 0
             /\ e \in ToSet(s) => i \in 1..Len(s) /\ s[i] = e
<1> DEFINE I == {i \in 1..Len(s) : s[i] = e}
<1>1. SelectInSeq(s, LAMBDA v : v = e) = IF I # {} THEN Min(I) ELSE 0
  BY DEF SelectInSeq
<1>2. e \in ToSet(s) <=> I # {}
  BY ToSetFacts
<1>3. I # {} => Min(I) \in I
  <2> SUFFICES ASSUME I # {} PROVE Min(I) \in I
    OBVIOUS
  <2>1. I \subseteq Nat
    BY LenProperties
  <2>2. \E x \in I : \A y \in I : x =< y
    BY <2>1, LeastElement
  <2>3. QED BY <2>2 DEF Min
<1>4. QED BY <1>1, <1>2, <1>3

\* eraseAndRemove in a list without duplicates takes e out and keeps the order.
LEMMA RemoveFirstFacts ==
  ASSUME NEW S, NEW s \in Seq(S), IsInjective(s), NEW e
  PROVE  /\ RemoveFirst(s, e) \in Seq(S)
         /\ IsInjective(RemoveFirst(s, e))
         /\ ToSet(RemoveFirst(s, e)) = ToSet(s) \ {e}
<1> DEFINE r == RemoveFirst(s, e)
           i == SelectInSeq(s, LAMBDA v : v = e)
<1>1. DOMAIN s = 1..Len(s) /\ Len(s) \in Nat
  BY LenProperties
<1>2. CASE e \notin ToSet(s)
  <2>1. r = s
    BY <1>2, <1>1 DEF RemoveFirst, ToSet
  <2>2. QED BY <1>2, <2>1
<1>3. CASE e \in ToSet(s)
  <2>1. i \in 1..Len(s) /\ s[i] = e
    BY <1>3, FindFacts
  <2>2. r = RemoveAt(s, i)
    BY <2>1 DEF RemoveFirst
  <2> HIDE DEF i
  <2> DEFINE t == RemoveAt(s, i)
  <2>3. /\ t \in Seq(S)
        /\ \A j \in DOMAIN t : \E k \in DOMAIN s \ {i} : t[j] = s[k]
        /\ \A j, k \in DOMAIN t :
              j # k => \E u, v \in DOMAIN s \ {i} : u # v /\ t[j] = s[u] /\ t[k] = s[v]
        /\ \A k \in DOMAIN s \ {i} : \E j \in DOMAIN t : t[j] = s[k]
    <3> HIDE DEF t
    <3>1. i \in DOMAIN s
      BY <2>1, <1>1
    <3>2. QED BY <3>1, RemoveAtFacts DEF t
  <2> HIDE DEF t
  <2>4. IsInjective(t)
    BY <2>3 DEF IsInjective
  <2>5. ToSet(t) = ToSet(s) \ {e}
    BY <2>1, <2>3, <1>1 DEF ToSet, IsInjective
  <2>6. QED BY <2>2, <2>3, <2>4, <2>5 DEF t
<1>4. QED BY <1>2, <1>3
-----------------------------------------------------------------------------
(***************************************************************************)
(* push_back, iter_swap, and a queue that loses a part of its content.     *)
(***************************************************************************)
LEMMA AppendFacts ==
  ASSUME NEW S, NEW s \in Seq(S), NEW e \in S
  PROVE  /\ Append(s, e) \in Seq(S)
         /\ ToSet(Append(s, e)) = ToSet(s) \cup {e}
         /\ IsInjective(s) /\ e \notin ToSet(s) => IsInjective(Append(s, e))
         /\ Append(s, e) # <<>>
<1> DEFINE t == Append(s, e)
<1>1. /\ t \in Seq(S) /\ t # <<>>
      /\ Len(t) = Len(s) + 1 /\ t[Len(s) + 1] = e /\ \A j \in 1..Len(s) : t[j] = s[j]
  BY AppendProperties
<1>2. Len(s) \in Nat /\ DOMAIN s = 1..Len(s) /\ DOMAIN t = 1..(Len(s) + 1)
  BY <1>1, LenProperties
<1> HIDE DEF t
<1>3. DOMAIN t = DOMAIN s \cup {Len(s) + 1} /\ Len(s) + 1 \notin DOMAIN s
  BY <1>2
<1>4. ToSet(t) = ToSet(s) \cup {e}
  BY <1>1, <1>2, <1>3 DEF ToSet
<1>5. IsInjective(s) /\ e \notin ToSet(s) => IsInjective(t)
  BY <1>1, <1>2, <1>3 DEF ToSet, IsInjective
<1>6. QED BY <1>1, <1>4, <1>5 DEF t

\* Whatever is appended, of the sequence's type or not.
LEMMA AppendContents ==
  ASSUME NEW S, NEW s \in Seq(S), NEW e
  PROVE  ToSet(Append(s, e)) = ToSet(s) \cup {e}
<1>1. s \in Seq(S \cup {e}) /\ e \in S \cup {e}
  BY SeqMonotonic
<1>2. QED BY <1>1, AppendFacts

\* The element at i and the first one change places.
LEMMA SwapFacts ==
  ASSUME NEW S, NEW s \in Seq(S), NEW i \in 1..Len(s), NEW t \in [1..Len(s) -> S],
         \A j \in 1..Len(s) : t[j] = IF j = i THEN s[1] ELSE IF j = 1 THEN s[i] ELSE s[j]
  PROVE  /\ t \in Seq(S) /\ t # <<>>
         /\ ToSet(t) = ToSet(s)
         /\ IsInjective(s) => IsInjective(t)
         /\ t[1] = s[i]
<1>1. DOMAIN s = 1..Len(s) /\ Len(s) \in Nat /\ 1 \in DOMAIN s /\ i \in DOMAIN s
  BY LenProperties
<1>2. t \in Seq(S) /\ Len(t) = Len(s)
  BY <1>1, SeqDef, LenProperties
<1>3. t[1] = s[i]
  BY <1>1
<1>4. ToSet(t) = ToSet(s)
  BY <1>1 DEF ToSet
<1>5. IsInjective(s) => IsInjective(t)
  BY <1>1 DEF IsInjective
<1>6. t # <<>>
  BY <1>1, <1>2
<1>7. QED BY <1>2, <1>3, <1>4, <1>5, <1>6

LEMMA TailFacts ==
  ASSUME NEW S, NEW s \in Seq(S), s # <<>>
  PROVE  /\ Tail(s) \in Seq(S) /\ ToSet(Tail(s)) \subseteq ToSet(s)
         /\ Head(s) \in ToSet(s)
<1>1. /\ Tail(s) \in Seq(S) /\ Len(Tail(s)) = Len(s) - 1 /\ Len(s) \in Nat
      /\ \A i \in 1..Len(Tail(s)) : Tail(s)[i] = s[i + 1]
  BY HeadTailProperties, LenProperties
<1>2. \A i \in 1..Len(Tail(s)) : i + 1 \in 1..Len(s)
  BY <1>1
<1>3. Head(s) = s[1]
  OBVIOUS
<1>4. ToSet(Tail(s)) = {Tail(s)[i] : i \in 1..Len(Tail(s))}
  BY <1>1, ToSetFacts
<1>5. ToSet(s) = {s[i] : i \in 1..Len(s)} /\ s[1] \in ToSet(s)
  BY ToSetFacts
<1>6. ToSet(Tail(s)) \subseteq ToSet(s)
  BY <1>1, <1>2, <1>4, <1>5
<1>7. QED BY <1>1, <1>3, <1>5, <1>6

\* Only its first element leaves a queue.
LEMMA TailKeeps ==
  ASSUME NEW S, NEW s \in Seq(S), s # <<>>, NEW e \in ToSet(s), e # Head(s)
  PROVE  e \in ToSet(Tail(s))
<1>1. /\ Tail(s) \in Seq(S) /\ Len(Tail(s)) = Len(s) - 1 /\ Len(s) \in Nat
      /\ \A i \in 1..Len(Tail(s)) : Tail(s)[i] = s[i + 1]
  BY HeadTailProperties, LenProperties
<1>2. PICK i \in 1..Len(s) : s[i] = e
  BY ToSetFacts
<1>3. i # 1
  BY <1>2
<1>4. i - 1 \in 1..Len(Tail(s)) /\ (i - 1) + 1 = i
  BY <1>1, <1>2, <1>3
<1>5. Tail(s)[i - 1] = e
  BY <1>1, <1>2, <1>4
<1>6. ToSet(Tail(s)) = {Tail(s)[j] : j \in 1..Len(Tail(s))}
  BY <1>1, ToSetFacts
<1>7. QED BY <1>4, <1>5, <1>6

LEMMA PrefixFacts ==
  ASSUME NEW S, NEW s \in Seq(S), NEW n \in 0..Len(s)
  PROVE  /\ SubSeq(s, 1, n) \in Seq(S) /\ ToSet(SubSeq(s, 1, n)) \subseteq ToSet(s)
         /\ Len(SubSeq(s, 1, n)) = n /\ \A i \in 1..n : SubSeq(s, 1, n)[i] = s[i]
<1>1. Len(s) \in Nat /\ n \in Int /\ \A i \in 1..n : i \in 1..Len(s) /\ s[i] \in S
  BY LenProperties, ElementOfSeq
<1>2. /\ SubSeq(s, 1, n) \in Seq(S)
      /\ Len(SubSeq(s, 1, n)) = IF 1 <= n THEN n - 1 + 1 ELSE 0
      /\ \A i \in 1..(n - 1 + 1) : SubSeq(s, 1, n)[i] = s[1 + i - 1]
  BY <1>1, SubSeqProperties
<1>3. Len(SubSeq(s, 1, n)) = n /\ \A i \in 1..n : SubSeq(s, 1, n)[i] = s[i]
  BY <1>1, <1>2
<1>4. ToSet(SubSeq(s, 1, n)) = {SubSeq(s, 1, n)[i] : i \in 1..n}
  BY <1>2, <1>3, ToSetFacts
<1>5. ToSet(s) = {s[i] : i \in 1..Len(s)}
  BY ToSetFacts
<1>6. ToSet(SubSeq(s, 1, n)) \subseteq ToSet(s)
  BY <1>1, <1>3, <1>4, <1>5
<1>7. QED BY <1>2, <1>3, <1>6
=============================================================================
