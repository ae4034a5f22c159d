---------------------------- MODULE TrackLemmas ----------------------------
(***************************************************************************)
(* Lemmas about bounded lists and about listings of the record track,      *)
(* which the proofs of the queue and of the fold share.                    *)
(***************************************************************************)
EXTENDS RecordTrack, CappedList, FiniteSetTheorems, SequenceTheorems, TLAPS

(* The elements of a sequence over S are in S.                             *)
LEMMA ElementsInSet ==
  ASSUME NEW S, NEW s \in Seq(S)
  PROVE  Elements(s) \subseteq S
BY DEF Elements

(* Concatenation unites the elements.                                      *)
LEMMA ElementsOfConcat ==
  ASSUME NEW S, NEW s \in Seq(S), NEW t \in Seq(S)
  PROVE  Elements(s \o t) = Elements(s) \cup Elements(t)
<1>1. Elements(s \o t) \subseteq Elements(s) \cup Elements(t)
  BY DEF Elements
<1>2. Elements(s) \subseteq Elements(s \o t)
  BY DEF Elements
<1>3. ASSUME NEW i \in DOMAIN t PROVE t[i] \in Elements(s \o t)
  <2>1. /\ Len(s) + i \in DOMAIN (s \o t)
        /\ (s \o t)[Len(s) + i] = t[i]
    OBVIOUS
  <2> QED BY <2>1 DEF Elements
<1> QED BY <1>1, <1>2, <1>3 DEF Elements

(* A truncated memory is a sequence and holds nothing new.                 *)
LEMMA LastNForgets ==
  ASSUME NEW S, NEW s \in Seq(S), NEW cap \in Nat
  PROVE  /\ LastN(s, cap) \in Seq(S)
         /\ Elements(LastN(s, cap)) \subseteq Elements(s)
<1>1. CASE Len(s) <= cap
  BY <1>1 DEF LastN
<1>2. CASE ~(Len(s) <= cap)
  <2> DEFINE a == Len(s) - cap + 1
  <2>1. a \in 1..(Len(s) + 1) /\ Len(s) \in Nat
    BY <1>2
  <2>2. LastN(s, cap) = SubSeq(s, a, Len(s))
    BY <1>2 DEF LastN
  <2>3. /\ SubSeq(s, a, Len(s)) \in Seq(S)
        /\ Len(SubSeq(s, a, Len(s))) = Len(s) - a + 1
        /\ \A i \in 1..(Len(s) - a + 1) : SubSeq(s, a, Len(s))[i] = s[a + i - 1]
    BY <2>1
  <2> HIDE DEF a
  <2>4. ASSUME NEW i \in DOMAIN SubSeq(s, a, Len(s))
        PROVE  SubSeq(s, a, Len(s))[i] \in Elements(s)
    <3>1. i \in 1..(Len(s) - a + 1) /\ a + i - 1 \in DOMAIN s
      BY <2>1, <2>3
    <3> QED BY <2>3, <3>1 DEF Elements
  <2> QED BY <2>2, <2>3, <2>4 DEF Elements
<1> QED BY <1>1, <1>2

(* A listing of a set of events is a sequence of exactly those events.     *)
LEMMA ListingOfSet ==
  ASSUME NEW S \in SUBSET Event, NEW s \in NewestLast(S)
  PROVE  s \in Seq(Event) /\ Elements(s) = S
<1>1. IsFiniteSet(S)
  BY TrackAssumption, FS_Subset
<1>2. Cardinality(S) \in Nat
  BY <1>1, FS_CardinalityType
<1>3. s \in [1..Cardinality(S) -> S]
  BY DEF NewestLast
<1>4. s \in Seq(Event)
  BY <1>2, <1>3
<1>5. \A e \in S : \E i \in DOMAIN s : s[i] = e
  BY DEF NewestLast
<1> QED BY <1>3, <1>4, <1>5 DEF Elements

(* A listing of a set of events is in the order of their dates.            *)
LEMMA ListingIsSorted ==
  ASSUME NEW S \in SUBSET Event, NEW s \in NewestLast(S)
  PROVE  \A i, j \in 1..Len(s) : i < j => at[s[i]] <= at[s[j]]
<1>1. s \in Seq(Event)
  BY ListingOfSet
<1>2. DOMAIN s = 1..Len(s)
  BY <1>1
<1>3. \A i, j \in DOMAIN s : i < j => s[i] # s[j] /\ at[s[i]] <= at[s[j]]
  BY DEF NewestLast
<1> QED BY <1>2, <1>3

(* What a memory holds that is full.                                       *)
LEMMA LastNAt ==
  ASSUME NEW S, NEW s \in Seq(S), NEW cap \in Nat, cap <= Len(s)
  PROVE  /\ LastN(s, cap) \in Seq(S) /\ Len(LastN(s, cap)) = cap
         /\ \A i \in 1..cap : LastN(s, cap)[i] = s[Len(s) - cap + i]
<1>1. PICK n \in Nat : n = Len(s)
  OBVIOUS
<1>2. CASE n = cap
  <2>1. LastN(s, cap) = s
    BY <1>1, <1>2 DEF LastN
  <2>2. \A i \in 1..cap : Len(s) - cap + i = i
    BY <1>1, <1>2
  <2> QED BY <1>1, <1>2, <2>1, <2>2
<1>3. CASE n # cap
  <2>1. n > cap /\ n - cap + 1 \in 1..(n + 1)
    BY <1>1, <1>3
  <2>2. LastN(s, cap) = SubSeq(s, n - cap + 1, n)
    BY <1>1, <2>1 DEF LastN
  <2>3. /\ SubSeq(s, n - cap + 1, n) \in Seq(S)
        /\ Len(SubSeq(s, n - cap + 1, n)) = cap
        /\ \A i \in 1..cap : SubSeq(s, n - cap + 1, n)[i] = s[n - cap + i]
    BY <1>1, <2>1
  <2> QED BY <1>1, <2>2, <2>3
<1> QED BY <1>2, <1>3

(* Cutting a memory before more is remembered, as every commit did before, *)
(* makes no difference.                                                    *)
LEMMA LastNOfConcat ==
  ASSUME NEW S, NEW s \in Seq(S), NEW t \in Seq(S), NEW cap \in Nat
  PROVE  LastN(LastN(s, cap) \o t, cap) = LastN(s \o t, cap)
<1>1. CASE Len(s) <= cap
  BY <1>1 DEF LastN
<1>2. CASE ~(Len(s) <= cap)
  <2> DEFINE short == LastN(s, cap)
             longer == short \o t
             whole == s \o t
             left == LastN(longer, cap)
             right == LastN(whole, cap)
  <2>1. PICK n \in Nat, m \in Nat : n = Len(s) /\ m = Len(t) /\ cap <= n
    BY <1>2
  <2>2. /\ short \in Seq(S) /\ Len(short) = cap
        /\ \A i \in 1..cap : short[i] = s[n - cap + i]
    BY <2>1, LastNAt
  <2> HIDE DEF short
  <2>3. /\ longer \in Seq(S) /\ Len(longer) = cap + m
        /\ \A i \in 1..(cap + m) :
             longer[i] = IF i <= cap THEN short[i] ELSE t[i - cap]
    BY <2>1, <2>2, ConcatProperties
  <2>4. /\ whole \in Seq(S) /\ Len(whole) = n + m
        /\ \A i \in 1..(n + m) : whole[i] = IF i <= n THEN s[i] ELSE t[i - n]
    BY <2>1, ConcatProperties
  <2> HIDE DEF longer, whole
  <2>5. /\ left \in Seq(S) /\ Len(left) = cap
        /\ \A i \in 1..cap : left[i] = longer[Len(longer) - cap + i]
    <3>1. longer \in Seq(S) /\ cap <= Len(longer)
      BY <2>1, <2>3
    <3> QED BY <3>1, LastNAt
  <2>6. /\ right \in Seq(S) /\ Len(right) = cap
        /\ \A i \in 1..cap : right[i] = whole[Len(whole) - cap + i]
    <3>1. whole \in Seq(S) /\ cap <= Len(whole)
      BY <2>1, <2>4
    <3> QED BY <3>1, LastNAt
  <2> HIDE DEF left, right
  <2>7. ASSUME NEW i \in 1..cap PROVE left[i] = right[i]
    <3>1. m + i \in 1..(cap + m) /\ n + m - cap + i \in 1..(n + m)
      BY <2>1
    <3>2. Len(longer) - cap + i = m + i /\ Len(whole) - cap + i = n + m - cap + i
      BY <2>1, <2>3, <2>4
    <3>3. left[i] = longer[m + i] /\ right[i] = whole[n + m - cap + i]
      BY <2>5, <2>6, <3>2
    <3>4. CASE m + i <= cap
      <4>1. m + i \in 1..cap /\ n + m - cap + i <= n
            /\ n - cap + (m + i) = n + m - cap + i
        BY <2>1, <3>4
      <4>2. longer[m + i] = short[m + i] /\ whole[n + m - cap + i] = s[n + m - cap + i]
        BY <2>3, <2>4, <3>1, <3>4, <4>1
      <4>3. short[m + i] = s[n - cap + (m + i)]
        BY <2>2, <4>1
      <4> QED BY <3>3, <4>1, <4>2, <4>3
    <3>5. CASE ~(m + i <= cap)
      <4>1. ~(n + m - cap + i <= n) /\ n + m - cap + i - n = m + i - cap
        BY <2>1, <3>5
      <4>2. longer[m + i] = t[m + i - cap]
        BY <2>3, <3>1, <3>5
      <4>3. whole[n + m - cap + i] = t[n + m - cap + i - n]
        BY <2>4, <3>1, <4>1
      <4> QED BY <3>3, <4>1, <4>2, <4>3
    <3> QED BY <3>4, <3>5
  <2>8. left = right
    BY <2>5, <2>6, <2>7, SeqEqual
  <2> QED BY <2>8 DEF short, longer, whole, left, right
<1> QED BY <1>1, <1>2

(* The same for one more element.                                          *)
LEMMA LastNOfAppend ==
  ASSUME NEW S, NEW s \in Seq(S), NEW t \in S, NEW cap \in Nat
  PROVE  LastN(Append(LastN(s, cap), t), cap) = LastN(Append(s, t), cap)
<1>1. LastN(s, cap) \in Seq(S)
  BY LastNForgets
<1>2. /\ Append(LastN(s, cap), t) = LastN(s, cap) \o << t >>
      /\ Append(s, t) = s \o << t >>
  BY <1>1, AppendIsConcat
<1>3. << t >> \in Seq(S)
  OBVIOUS
<1>4. LastN(LastN(s, cap) \o << t >>, cap) = LastN(s \o << t >>, cap)
  BY <1>3, LastNOfConcat
<1> QED BY <1>2, <1>4

(* The last cap elements are remembered.                                   *)
LEMMA LastNRemembers ==
  ASSUME NEW S, NEW s \in Seq(S), NEW cap \in Nat,
         NEW k \in 1..Len(s), Len(s) - k < cap
  PROVE  s[k] \in Elements(LastN(s, cap))
<1>1. CASE Len(s) <= cap
  BY <1>1 DEF LastN, Elements
<1>2. CASE ~(Len(s) <= cap)
  <2>1. PICK n \in Nat : n = Len(s)
    OBVIOUS
  <2> DEFINE short == SubSeq(s, n - cap + 1, n)
             i == k - (n - cap)
  <2>2. LastN(s, cap) = short
    BY <1>2, <2>1 DEF LastN
  <2>3. n > cap /\ cap >= 1
    BY <1>2, <2>1
  <2>4. Len(short) = cap /\ DOMAIN short = 1..cap
        /\ \A j \in 1..cap : short[j] = s[n - cap + j]
    <3>1. n - cap + 1 \in Int /\ n \in Int /\ n - cap + 1 <= n
          /\ n - (n - cap + 1) + 1 = cap
      BY ONLY <2>1, <2>3, cap \in Nat
    <3>2. \A j \in (n - cap + 1)..n : s[j] \in S
      BY <2>1, <2>3
    <3>3. /\ short \in Seq(S) /\ Len(short) = cap
          /\ \A j \in 1..cap : short[j] = s[(n - cap + 1) + j - 1]
      BY ONLY <3>1, <3>2, SubSeqProperties
    <3>4. \A j \in 1..cap : (n - cap + 1) + j - 1 = n - cap + j
      BY ONLY <2>1, cap \in Nat
    <3> HIDE DEF short
    <3> QED BY ONLY <3>3, <3>4
  <2>5. i \in 1..cap /\ n - cap + i = k
    BY <1>2, <2>1
  <2> HIDE DEF short, i
  <2>6. i \in DOMAIN short /\ short[i] = s[k]
    BY <2>4, <2>5
  <2> QED BY <2>2, <2>6 DEF Elements
<1> QED BY <1>1, <1>2

(* Distinct elements of a sequence are as many as their places.            *)
LEMMA DistinctElements ==
  ASSUME NEW S, IsFiniteSet(S), NEW s \in Seq(S), NEW i \in 1..Len(s), NEW T,
         T = {s[j] : j \in i..Len(s)},
         \A j, k \in 1..Len(s) : j < k => s[j] # s[k]
  PROVE  Cardinality(T) \in Nat /\ Cardinality(T) >= Len(s) - i + 1
<1>1. PICK n \in Nat : n = Len(s)
  OBVIOUS
<1>2. \A j \in i..n : j \in 1..n /\ s[j] \in S
  BY <1>1
<1>3. IsFiniteSet(T) /\ Cardinality(T) \in Nat
  BY <1>1, <1>2, FS_Subset, FS_CardinalityType
<1>4. i \in Int /\ n \in Int /\ ~(i > n)
  BY <1>1
<1>5. IsFiniteSet(i..n) /\ Cardinality(i..n) = n - i + 1
  BY <1>4, FS_Interval
<1> DEFINE f == [j \in i..n |-> s[j]]
<1>6. f \in [i..n -> T]
  BY <1>1
<1>7. \A j, k \in i..n : f[j] = f[k] => j = k
  <2> SUFFICES ASSUME NEW j \in i..n, NEW k \in i..n, s[j] = s[k] PROVE j = k
    OBVIOUS
  <2>1. ~(j < k) /\ ~(k < j)
    BY <1>1, <1>2
  <2> QED BY <1>4, <2>1
<1>8. f \in Injection(i..n, T)
  BY <1>6, <1>7 DEF Injection, IsInjective
<1> HIDE DEF f
<1>9. Cardinality(i..n) <= Cardinality(T)
  BY <1>3, <1>8, FS_Injection
<1> QED BY <1>1, <1>3, <1>5, <1>9
=============================================================================
