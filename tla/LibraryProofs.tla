---------------------------- MODULE LibraryProofs ----------------------------
(***************************************************************************)
(* What holds of the packages that work on data alone, for any data.       *)
(***************************************************************************)
EXTENDS Library, TLAPS, FiniteSetTheorems, FunctionTheorems, SequenceTheorems, WellFoundedInduction

-----------------------------------------------------------------------------
(* Sequences *)

\* A non-empty set of natural numbers has a least one.
LEMMA LeastOf == ASSUME NEW s \in SUBSET Nat, s # {} PROVE \E m \in s : \A k \in s : m <= k
  <1>1. IsWellFoundedOn(OpToRel(<, Nat), Nat)
    BY NatLessThanWellFounded
  <1>2. PICK m \in s : \A k \in s : <<k, m>> \notin OpToRel(<, Nat)
    BY <1>1, WFMin, Zenon
  <1>3. \A k \in s : ~(k < m)
    BY <1>2, Zenon DEF OpToRel
  <1> QED BY <1>3

\* The table of FlattenSeq: the first i sequences, one after the other.
IsFlat(ss, f) == f = [i \in 1..Len(ss) |-> IF i = 1 THEN ss[i] ELSE f[i - 1] \o ss[i]]
FlatTable(ss) == CHOOSE f : IsFlat(ss, f)

\* FlattenSeq is the last entry of its table.
LEMMA FlattenIs == \A ss : FlattenSeq(ss) = IF Len(ss) = 0 THEN ss ELSE FlatTable(ss)[Len(ss)]
  BY DEF FlattenSeq, FlatTable, IsFlat

\* The table exists.
LEMMA FlatTableExists == ASSUME NEW ss, Len(ss) \in Nat PROVE IsFlat(ss, FlatTable(ss))
  <1> DEFINE n == Len(ss)
             Entry0(f, i) == IF i = 1 THEN ss[i] ELSE f[i - 1] \o ss[i]
             Upto(k) == \E f : \A i \in 1..k : f[i] = Entry0(f, i)
             bad == {k \in Nat : ~Upto(k)}
  <1>1. Upto(0)
    OBVIOUS
  <1>2. ASSUME NEW k \in Nat, Upto(k) PROVE Upto(k + 1)
    <2>1. PICK f : \A i \in 1..k : f[i] = Entry0(f, i)
      BY <1>2
    <2> DEFINE g == [i \in 1..k + 1 |-> IF i = k + 1 THEN Entry0(f, i) ELSE f[i]]
    <2>2. ASSUME NEW i \in 1..k + 1 PROVE g[i] = Entry0(g, i)
      <3>1. CASE i = 1
        BY <2>1, <3>1
      <3>2. CASE i # 1
        <4>1. i - 1 \in 1..k /\ i - 1 \in 1..k + 1 /\ i - 1 # k + 1
          BY <3>2
        <4>2. g[i - 1] = f[i - 1]
          BY <4>1
        <4>3. g[i] = Entry0(f, i)
          BY <2>1
        <4> QED BY <3>2, <4>2, <4>3
      <3> QED BY <3>1, <3>2
    <2> HIDE DEF g, Entry0
    <2> QED BY <2>2
  <1> HIDE DEF Upto
  <1>3. bad = {}
    <2> SUFFICES ASSUME bad # {} PROVE FALSE
      OBVIOUS
    <2>1. PICK k \in bad : \A j \in bad : k <= j
      BY LeastOf
    <2>2. k \in Nat /\ k # 0
      BY <1>1
    <2>3. k - 1 \in Nat /\ k - 1 \notin bad
      BY <2>1, <2>2
    <2>4. Upto(k - 1 + 1)
      BY <1>2, <2>3
    <2>5. k - 1 + 1 = k
      BY <2>2
    <2> QED BY <2>1, <2>4, <2>5
  <1>4. PICK f : \A i \in 1..n : f[i] = Entry0(f, i)
    BY <1>3 DEF Upto
  <1> DEFINE g == [i \in 1..n |-> f[i]]
  <1>5. ASSUME NEW i \in 1..n PROVE g[i] = Entry0(g, i)
    <2>1. CASE i = 1
      BY <1>4, <2>1
    <2>2. CASE i # 1
      <3>1. i - 1 \in 1..n
        BY <2>2
      <3> QED BY <1>4, <2>2, <3>1
    <2> QED BY <2>1, <2>2
  <1>6. IsFlat(ss, g)
    BY <1>5 DEF IsFlat
  <1> QED BY <1>6 DEF FlatTable

\* FlattenSeq of one more sequence has it at its end.
LEMMA FlattenAppend ==
    ASSUME NEW S, NEW ss \in Seq(Seq(S)), NEW s \in Seq(S)
    PROVE  /\ FlattenSeq(<<>>) = <<>>
           /\ FlattenSeq(Append(ss, s)) = FlattenSeq(ss) \o s
  <1> DEFINE n == Len(ss)
             tt == Append(ss, s)
             f == FlatTable(ss)
             g == FlatTable(tt)
  <1>1. n \in Nat /\ tt \in Seq(Seq(S)) /\ Len(tt) = n + 1 /\ tt[n + 1] = s
        /\ \A i \in 1..n : tt[i] = ss[i]
    OBVIOUS
  <1>2. IsFlat(ss, f) /\ IsFlat(tt, g)
    BY <1>1, FlatTableExists
  <1>3. FlattenSeq(<<>>) = <<>> /\ FlattenSeq(tt) = g[n + 1] /\ (n > 0 => FlattenSeq(ss) = f[n])
    <2>1. FlattenSeq(<<>>) = <<>>
      BY FlattenIs
    <2>2. n + 1 # 0
      BY <1>1
    <2>3. FlattenSeq(tt) = g[n + 1]
      BY <1>1, <2>2, FlattenIs
    <2> QED BY <1>1, <2>1, <2>3, FlattenIs
  <1> HIDE DEF f, g, tt
  <1>4. /\ \A i \in 1..n : f[i] = IF i = 1 THEN ss[i] ELSE f[i - 1] \o ss[i]
        /\ \A i \in 1..n + 1 : g[i] = IF i = 1 THEN tt[i] ELSE g[i - 1] \o tt[i]
    <2>1. /\ f = [i \in 1..n |-> IF i = 1 THEN ss[i] ELSE f[i - 1] \o ss[i]]
          /\ g = [i \in 1..n + 1 |-> IF i = 1 THEN tt[i] ELSE g[i - 1] \o tt[i]]
      BY <1>1, <1>2 DEF IsFlat
    <2>2. ASSUME NEW i \in 1..n PROVE f[i] = IF i = 1 THEN ss[i] ELSE f[i - 1] \o ss[i]
      BY <2>1, Zenon
    <2>3. ASSUME NEW i \in 1..n + 1 PROVE g[i] = IF i = 1 THEN tt[i] ELSE g[i - 1] \o tt[i]
      BY <2>1, Zenon
    <2> QED BY <2>2, <2>3
  <1> DEFINE bad == {i \in 1..n : f[i] # g[i]}
  <1>5. bad = {}
    <2> SUFFICES ASSUME bad # {} PROVE FALSE
      OBVIOUS
    <2>1. bad \in SUBSET Nat
      BY <1>1
    <2>2. PICK i \in bad : \A j \in bad : i <= j
      <3> HIDE DEF bad
      <3> QED BY <2>1, LeastOf
    <2>3. i \in 1..n /\ i \in 1..n + 1 /\ f[i] # g[i] /\ tt[i] = ss[i]
      BY <1>1
    <2>4. CASE i = 1
      BY <1>4, <2>3, <2>4
    <2>5. CASE i # 1
      <3>1. i - 1 \in 1..n /\ i - 1 \notin bad
        BY <1>1, <2>2, <2>3, <2>5
      <3>2. f[i - 1] = g[i - 1]
        BY <3>1
      <3> QED BY <1>4, <2>3, <2>5, <3>2
    <2> QED BY <2>4, <2>5
  <1>6. CASE n = 0
    <2>1. ss = <<>> /\ g[1] = s
      BY <1>1, <1>4, <1>6
    <2> QED BY <1>3, <1>6, <2>1 DEF tt
  <1>7. CASE n > 0
    <2>1. n + 1 \in 1..n + 1 /\ n + 1 # 1 /\ n \in 1..n /\ n + 1 - 1 = n
      BY <1>1, <1>7
    <2>2. g[n + 1] = g[n] \o s
      <3>1. ASSUME NEW m \in 1..n + 1, m # 1 PROVE g[m] = g[m - 1] \o tt[m]
        BY <1>4, <3>1
      <3>2. PICK m \in 1..n + 1 : m = n + 1 /\ m # 1
        BY <2>1
      <3>3. g[m] = g[m - 1] \o tt[m]
        BY <3>1, <3>2
      <3>4. m - 1 = n
        BY <1>1, <3>2
      <3> QED BY <1>1, <3>2, <3>3, <3>4
    <2>3. g[n] = f[n]
      BY <1>5, <2>1
    <2> QED BY <1>3, <1>7, <2>2, <2>3 DEF tt
  <1> QED BY <1>1, <1>3, <1>6, <1>7 DEF tt

\* A part of a sequence.
LEMMA Part ==
    ASSUME NEW S, NEW p \in Seq(S), NEW i \in Nat, NEW n \in Nat, i + n <= Len(p)
    PROVE  /\ SubSeq(p, i + 1, i + n) \in Seq(S)
           /\ Len(SubSeq(p, i + 1, i + n)) = n
           /\ \A j \in 1..n : SubSeq(p, i + 1, i + n)[j] = p[i + j]
  <1> DEFINE a == i + 1
             b == i + n
  <1>1. a \in Int /\ b \in Int /\ b - a + 1 = n /\ (a <= b <=> 1 <= n)
    OBVIOUS
  <1>2. \A j \in a..b : p[j] \in S
    OBVIOUS
  <1>3. \A j \in 1..n : a + j - 1 = i + j
    OBVIOUS
  <1> HIDE DEF a, b
  <1>4. /\ SubSeq(p, a, b) \in Seq(S)
        /\ Len(SubSeq(p, a, b)) = IF a <= b THEN b - a + 1 ELSE 0
        /\ \A j \in 1..b - a + 1 : SubSeq(p, a, b)[j] = p[a + j - 1]
    BY <1>1, <1>2, SubSeqProperties
  <1>5. Len(SubSeq(p, a, b)) = n
    BY <1>1, <1>4
  <1>6. \A j \in 1..n : SubSeq(p, a, b)[j] = p[i + j]
    BY <1>1, <1>3, <1>4
  <1> QED BY <1>4, <1>5, <1>6 DEF a, b

\* Two sequences joined can be taken apart again.
LEMMA Joined ==
    ASSUME NEW S, NEW s \in Seq(S), NEW t \in Seq(S)
    PROVE  /\ s \o t \in Seq(S) /\ Len(s \o t) = Len(s) + Len(t)
           /\ \A j \in 1..Len(s) : (s \o t)[j] = s[j]
           /\ \A j \in 1..Len(t) : (s \o t)[Len(s) + j] = t[j]
           /\ SubSeq(s \o t, Len(s) + 1, Len(s) + Len(t)) = t
  <1>1. /\ s \o t \in Seq(S) /\ Len(s \o t) = Len(s) + Len(t)
        /\ \A i \in 1..Len(s) + Len(t) : (s \o t)[i] = IF i <= Len(s) THEN s[i] ELSE t[i - Len(s)]
    BY ConcatProperties, Zenon
  <1>2. Len(s) \in Nat /\ Len(t) \in Nat
    OBVIOUS
  <1>3. \A j \in 1..Len(s) : (s \o t)[j] = s[j]
    BY <1>1, <1>2
  <1>4. \A j \in 1..Len(t) : (s \o t)[Len(s) + j] = t[j]
    <2> TAKE j \in 1..Len(t)
    <2>1. PICK i \in 1..Len(s) + Len(t) : i = Len(s) + j
      BY <1>2
    <2> QED BY <1>1, <1>2, <2>1
  <1> DEFINE u == s \o t
             m == Len(s)
             n == Len(t)
  <1>5. SubSeq(u, m + 1, m + n) = t
    <2>1. u \in Seq(S) /\ m \in Nat /\ n \in Nat /\ m + n <= Len(u)
      BY <1>1, <1>2
    <2> HIDE DEF u, m
    <2>2. /\ SubSeq(u, m + 1, m + n) \in Seq(S) /\ Len(SubSeq(u, m + 1, m + n)) = n
          /\ \A j \in 1..n : SubSeq(u, m + 1, m + n)[j] = u[m + j]
      <3> HIDE DEF n
      <3> QED BY <2>1, Part
    <2>3. \A j \in 1..n : SubSeq(u, m + 1, m + n)[j] = t[j]
      BY <1>4, <2>2 DEF u, m
    <2> QED BY <2>2, <2>3, SeqEqual
  <1> QED BY <1>1, <1>3, <1>4, <1>5

\* A set that has 0, and with each number below n the next, has all of 0..n.
LEMMA Induction ==
    ASSUME NEW n \in Nat, NEW good, 0 \in good,
           \A k \in 0..n - 1 : k \in good => k + 1 \in good
    PROVE  \A k \in 0..n : k \in good
  <1> DEFINE bad == {k \in 0..n : k \notin good}
  <1> SUFFICES ASSUME bad # {} PROVE FALSE
    OBVIOUS
  <1>1. PICK k \in bad : \A j \in bad : k <= j
    <2>1. bad \in SUBSET Nat
      OBVIOUS
    <2> HIDE DEF bad
    <2> QED BY <2>1, LeastOf
  <1>2. k \in 0..n /\ k # 0 /\ k \notin good
    OBVIOUS
  <1>3. k - 1 \in 0..n - 1 /\ k - 1 \in 0..n /\ ~(k <= k - 1) /\ k - 1 + 1 = k
    BY <1>2
  <1>4. k - 1 \in good
    BY <1>1, <1>3
  <1>5. k - 1 + 1 \in good
    BY <1>3, <1>4
  <1> QED BY <1>2, <1>3, <1>5

\* The greatest number of a bounded set.
LEMMA Greatest ==
    ASSUME NEW n \in Nat, NEW s \in SUBSET (0..n), s # {}
    PROVE  Max(s) \in s /\ \A k \in s : k <= Max(s)
  <1> DEFINE above == {m \in Nat : \A k \in s : k <= m}
  <1>1. n \in above
    OBVIOUS
  <1>2. PICK m \in above : \A k \in above : m <= k
    <2>1. above \in SUBSET Nat /\ above # {}
      BY <1>1
    <2> HIDE DEF above
    <2> QED BY <2>1, LeastOf
  <1>3. m \in s
    <2> SUFFICES ASSUME m \notin s PROVE FALSE
      OBVIOUS
    <2>1. m \in Nat /\ \A k \in s : k <= m /\ k # m /\ k \in 0..n
      BY <1>2
    <2>2. m - 1 \in Nat
      <3>1. PICK k : k \in s
        OBVIOUS
      <3>2. k <= m /\ k # m /\ k \in 0..n
        BY <2>1, <3>1
      <3> QED BY <2>1, <3>2
    <2>3. m - 1 \in above
      BY <2>1, <2>2
    <2> QED BY <1>2, <2>1, <2>3
  <1>4. \A k \in s : m >= k
    BY <1>2, <1>3
  <1> QED BY <1>3, <1>4 DEF Max

\* Max and Min are in the set, at its ends.
LEMMA Ends ==
    ASSUME NEW n \in Nat, NEW s \in SUBSET (1..n), s # {}
    PROVE  /\ Max(s) \in s /\ \A k \in s : k <= Max(s)
           /\ Min(s) \in s /\ \A k \in s : Min(s) <= k
  <1>1. \E m \in s : \A k \in s : m <= k
    BY LeastOf
  <1>2. Min(s) \in s /\ \A k \in s : Min(s) <= k
    BY <1>1 DEF Min
  <1>3. s \in SUBSET (0..n)
    OBVIOUS
  <1> QED BY <1>2, <1>3, Greatest

\* The larger and the smaller of two numbers, and the least of a set.
LEMMA OfTwo ==
    ASSUME NEW x \in Int, NEW y \in Int
    PROVE  /\ Max({x, y}) = IF x <= y THEN y ELSE x
           /\ Min({x, y}) = IF x <= y THEN x ELSE y
  <1> DEFINE u == IF x <= y THEN y ELSE x
             l == IF x <= y THEN x ELSE y
             IsMax(m) == m \in {x, y} /\ \A k \in {x, y} : m >= k
             IsMin(m) == m \in {x, y} /\ \A k \in {x, y} : m <= k
  <1>1. IsMax(u) /\ IsMin(l)
    OBVIOUS
  <1>2. \A m : (IsMax(m) => m = u) /\ (IsMin(m) => m = l)
    OBVIOUS
  <1> HIDE DEF u, l
  <1>3. Max({x, y}) = CHOOSE m : IsMax(m)
    BY DEF Max
  <1>4. Min({x, y}) = CHOOSE m : IsMin(m)
    BY DEF Min
  <1> HIDE DEF IsMax, IsMin
  <1>5. Max({x, y}) = u /\ Min({x, y}) = l
    BY <1>1, <1>2, <1>3, <1>4
  <1> QED BY <1>5 DEF u, l

\* The least number of a set, and of the same set moved up.
LEMMA LeastIs ==
    ASSUME NEW s \in SUBSET Nat, s # {}
    PROVE  Min(s) \in s /\ \A k \in s : Min(s) <= k
  <1>1. \E m \in s : \A k \in s : m <= k
    BY LeastOf
  <1> QED BY <1>1 DEF Min

\* Moving a set moves its least number.
LEMMA LeastMoved ==
    ASSUME NEW s \in SUBSET Nat, s # {}, NEW x \in Nat, NEW t, t = {x + k : k \in s}
    PROVE  t # {} /\ Min(t) = x + Min(s)
  <1>1. Min(s) \in s /\ \A k \in s : Min(s) <= k
    BY LeastIs
  <1>8. t = {x + k : k \in s}
    OBVIOUS
  <1>2. t \in SUBSET Nat /\ t # {}
    <2>1. x + Min(s) \in {x + k : k \in s}
      BY <1>1
    <2>2. ASSUME NEW y \in t PROVE y \in Nat
      <3>1. PICK k \in s : y = x + k
        BY <1>8
      <3>2. k \in Nat
        OBVIOUS
      <3> QED BY <3>1, <3>2
    <2> QED BY <1>8, <2>1, <2>2
  <1>3. Min(t) \in t /\ \A k \in t : Min(t) <= k
    BY <1>2, LeastIs
  <1>4. PICK k \in s : Min(t) = x + k
    BY <1>3, <1>8
  <1>5. x + Min(s) \in t
    BY <1>1, <1>8
  <1>6. Min(t) <= x + Min(s) /\ Min(s) <= k
    BY <1>1, <1>3, <1>5
  <1>7. Min(s) \in Nat /\ k \in Nat
    BY <1>1
  <1> QED BY <1>2, <1>4, <1>6, <1>7

-----------------------------------------------------------------------------
(* Messages *)

\* What a stream is made of.
Types == {"RefLine", "UpdateRef", "Error", "ChunkQuery", "ChunkHaves", "StreamEnd"}
Unit == Nat \cup STRING \cup Hash \cup (SUBSET Nat) \cup Types \cup {"MSYN"}

\* A name is made of units, and its length is kept if it fits.
LEMMA NameUnits ==
    ASSUME NEW name \in Name
    PROVE  /\ name \in Seq(Unit) /\ Len(name) \in Nat /\ LengthByte(name) \in Nat
           /\ Len(name) < NameSize => LengthByte(name) = Len(name)
  <1>1. name \in Seq(STRING) /\ Len(name) \in Nat
    BY NameAssumption
  <1>2. name \in Seq(Unit)
    BY <1>1 DEF Unit
  <1> QED BY <1>1, <1>2, WidthAssumption DEF LengthByte

\* One unit in front of others.
LEMMA Headed ==
    ASSUME NEW a \in Unit, NEW s \in Seq(Unit)
    PROVE  /\ <<a>> \o s \in Seq(Unit) /\ Len(<<a>> \o s) = 1 + Len(s)
           /\ (<<a>> \o s)[1] = a
           /\ \A j \in 1..Len(s) : (<<a>> \o s)[1 + j] = s[j]
           /\ SubSeq(<<a>> \o s, 2, 1 + Len(s)) = s
  <1> DEFINE one == <<a>>
  <1>1. one \in Seq(Unit) /\ Len(one) = 1 /\ one[1] = a /\ 1 \in 1..1 /\ 1 + 1 = 2
    OBVIOUS
  <1> HIDE DEF one
  <1>2. /\ one \o s \in Seq(Unit) /\ Len(one \o s) = Len(one) + Len(s)
        /\ \A j \in 1..Len(one) : (one \o s)[j] = one[j]
        /\ \A j \in 1..Len(s) : (one \o s)[Len(one) + j] = s[j]
        /\ SubSeq(one \o s, Len(one) + 1, Len(one) + Len(s)) = s
    BY <1>1, Joined
  <1>3. (one \o s)[1] = a
    BY <1>1, <1>2
  <1>4. /\ \A j \in 1..Len(s) : (one \o s)[1 + j] = s[j]
        /\ SubSeq(one \o s, 2, 1 + Len(s)) = s
        /\ Len(one \o s) = 1 + Len(s)
    BY <1>1, <1>2, Zenon
  <1> QED BY <1>2, <1>3, <1>4 DEF one

\* Two units in front of others.
LEMMA TwiceHeaded ==
    ASSUME NEW a \in Unit, NEW b \in Unit, NEW s \in Seq(Unit)
    PROVE  /\ <<a, b>> \o s \in Seq(Unit) /\ Len(<<a, b>> \o s) = 2 + Len(s)
           /\ (<<a, b>> \o s)[1] = a /\ (<<a, b>> \o s)[2] = b
           /\ SubSeq(<<a, b>> \o s, 3, 2 + Len(s)) = s
  <1> DEFINE two == <<a, b>>
  <1>1. /\ two \in Seq(Unit) /\ Len(two) = 2 /\ two[1] = a /\ two[2] = b
        /\ 1 \in 1..2 /\ 2 \in 1..2 /\ 2 + 1 = 3
    OBVIOUS
  <1> HIDE DEF two
  <1>2. /\ two \o s \in Seq(Unit) /\ Len(two \o s) = Len(two) + Len(s)
        /\ \A j \in 1..Len(two) : (two \o s)[j] = two[j]
        /\ SubSeq(two \o s, Len(two) + 1, Len(two) + Len(s)) = s
    <2>1. two \in Seq(Unit)
      BY <1>1
    <2> QED BY <2>1, Joined, Zenon
  <1>3. (two \o s)[1] = a /\ (two \o s)[2] = b
    BY <1>1, <1>2
  <1>4. /\ SubSeq(two \o s, 3, 2 + Len(s)) = s
        /\ Len(two \o s) = 2 + Len(s)
    BY <1>1, <1>2, Zenon
  <1> QED BY <1>2, <1>3, <1>4 DEF two

\* Two units behind others.
LEMMA TwoBehind ==
    ASSUME NEW a \in Unit, NEW b \in Unit, NEW s \in Seq(Unit)
    PROVE  /\ s \o <<a, b>> \in Seq(Unit) /\ Len(s \o <<a, b>>) = Len(s) + 2
           /\ \A j \in 1..Len(s) : (s \o <<a, b>>)[j] = s[j]
           /\ (s \o <<a, b>>)[Len(s) + 1] = a /\ (s \o <<a, b>>)[Len(s) + 2] = b
  <1> DEFINE two == <<a, b>>
  <1>1. /\ two \in Seq(Unit) /\ Len(two) = 2 /\ two[1] = a /\ two[2] = b
        /\ 1 \in 1..2 /\ 2 \in 1..2
    OBVIOUS
  <1> HIDE DEF two
  <1>2. /\ s \o two \in Seq(Unit) /\ Len(s \o two) = Len(s) + Len(two)
        /\ \A j \in 1..Len(s) : (s \o two)[j] = s[j]
        /\ \A j \in 1..Len(two) : (s \o two)[Len(s) + j] = two[j]
        /\ SubSeq(s \o two, Len(s) + 1, Len(s) + Len(two)) = two
    <2>1. two \in Seq(Unit)
      BY <1>1
    <2> QED BY <2>1, Joined, Zenon
  <1>3. (s \o two)[Len(s) + 1] = a /\ (s \o two)[Len(s) + 2] = b
    BY <1>1, <1>2
  <1> QED BY <1>1, <1>2, <1>3 DEF two

\* A reference line is read as it was written, if its name is not too long.
LEMMA RefLineKept ==
    ASSUME NEW m \in [type : {"RefLine"}, name : Name, hash : Hash]
    PROVE  /\ Payload(m) \in Seq(Unit)
           /\ Decode("RefLine", Payload(m)).type = "RefLine"
           /\ Len(m.name) < NameSize => Decode("RefLine", Payload(m)) = m
  <1> DEFINE n == Len(m.name)
             l == LengthByte(m.name)
             p == <<m.hash, l>> \o m.name
  <1>1. m.name \in Seq(Unit) /\ n \in Nat /\ l \in Nat /\ (n < NameSize => l = n)
    BY NameUnits
  <1>2. m.hash \in Unit /\ l \in Unit
    BY <1>1 DEF Unit
  <1>3. Payload(m) = p
    BY DEF Payload
  <1>4. /\ p \in Seq(Unit) /\ Len(p) = 2 + n /\ p[1] = m.hash /\ p[2] = l
        /\ SubSeq(p, 3, 2 + n) = m.name
    <2> HIDE DEF l
    <2> QED BY <1>1, <1>2, TwiceHeaded
  <1> HIDE DEF p, l
  <1>5. Decode("RefLine", p) =
          IF Len(p) < 2 \/ Len(p) < 2 + p[2] THEN [type |-> "RefLine", bad |-> TRUE]
          ELSE [type |-> "RefLine", name |-> Sub(p, 2, p[2]), hash |-> p[1]]
    BY DEF Decode
  <1>6. Decode("RefLine", p).type = "RefLine"
    BY <1>5
  <1>7. ASSUME n < NameSize PROVE Decode("RefLine", p) = m
    <2>1. l = n /\ ~(Len(p) < 2) /\ ~(Len(p) < 2 + p[2])
      BY <1>1, <1>4, <1>7
    <2>2. Decode("RefLine", p) = [type |-> "RefLine", name |-> Sub(p, 2, p[2]), hash |-> p[1]]
      BY <1>5, <2>1
    <2>3. Sub(p, 2, p[2]) = m.name
      BY <1>4, <2>1 DEF Sub
    <2> QED BY <1>4, <2>2, <2>3
  <1> QED BY <1>3, <1>4, <1>6, <1>7

\* An error is read as it was written, if its text is not too long.
LEMMA ErrorKept ==
    ASSUME NEW m \in [type : {"Error"}, name : Name, code : {1, 2}]
    PROVE  /\ Payload(m) \in Seq(Unit)
           /\ Decode("Error", Payload(m)).type = "Error"
           /\ Len(m.name) < NameSize => Decode("Error", Payload(m)) = m
  <1> DEFINE n == Len(m.name)
             l == LengthByte(m.name)
             p == <<m.code, l>> \o m.name
  <1>1. m.name \in Seq(Unit) /\ n \in Nat /\ l \in Nat /\ (n < NameSize => l = n)
    BY NameUnits
  <1>2. m.code \in Unit /\ l \in Unit
    BY <1>1 DEF Unit
  <1>3. Payload(m) = p
    BY DEF Payload
  <1>4. /\ p \in Seq(Unit) /\ Len(p) = 2 + n /\ p[1] = m.code /\ p[2] = l
        /\ SubSeq(p, 3, 2 + n) = m.name
    <2> HIDE DEF l
    <2> QED BY <1>1, <1>2, TwiceHeaded
  <1> HIDE DEF p, l
  <1>5. Decode("Error", p) =
          IF Len(p) < 2 \/ Len(p) < 2 + p[2] THEN [type |-> "Error", bad |-> TRUE]
          ELSE [type |-> "Error", name |-> Sub(p, 2, p[2]), code |-> p[1]]
    BY DEF Decode
  <1>6. Decode("Error", p).type = "Error"
    BY <1>5
  <1>7. ASSUME n < NameSize PROVE Decode("Error", p) = m
    <2>1. l = n /\ ~(Len(p) < 2) /\ ~(Len(p) < 2 + p[2])
      BY <1>1, <1>4, <1>7
    <2>2. Decode("Error", p) = [type |-> "Error", name |-> Sub(p, 2, p[2]), code |-> p[1]]
      BY <1>5, <2>1
    <2>3. Sub(p, 2, p[2]) = m.name
      BY <1>4, <2>1 DEF Sub
    <2> QED BY <1>4, <2>2, <2>3
  <1> QED BY <1>3, <1>4, <1>6, <1>7

\* An update of a reference is read as it was written, if its name is not too long.
LEMMA UpdateRefKept ==
    ASSUME NEW m \in [type : {"UpdateRef"}, name : Name, old : Hash, new : Hash]
    PROVE  /\ Payload(m) \in Seq(Unit)
           /\ Decode("UpdateRef", Payload(m)).type = "UpdateRef"
           /\ Len(m.name) < NameSize => Decode("UpdateRef", Payload(m)) = m
  <1> DEFINE n == Len(m.name)
             l == LengthByte(m.name)
             q == <<l>> \o m.name
             p == q \o <<m.old, m.new>>
  <1>1. m.name \in Seq(Unit) /\ n \in Nat /\ l \in Nat /\ (n < NameSize => l = n)
    BY NameUnits
  <1>2. l \in Unit /\ m.old \in Unit /\ m.new \in Unit
    BY <1>1 DEF Unit
  <1>3. Payload(m) = p
    BY DEF Payload
  <1> HIDE DEF l
  <1>4. /\ q \in Seq(Unit) /\ Len(q) = 1 + n /\ q[1] = l
        /\ \A j \in 1..n : q[1 + j] = m.name[j]
    BY <1>1, <1>2, Headed
  <1> HIDE DEF q
  <1>5. /\ p \in Seq(Unit) /\ Len(p) = Len(q) + 2
        /\ \A j \in 1..Len(q) : p[j] = q[j]
        /\ p[Len(q) + 1] = m.old /\ p[Len(q) + 2] = m.new
    BY <1>2, <1>4, TwoBehind
  <1> HIDE DEF p
  <1>6. /\ Len(p) = 3 + n /\ p[1] = l /\ p[2 + n] = m.old /\ p[3 + n] = m.new
        /\ \A j \in 1..n : p[1 + j] = m.name[j]
    <2>1. Len(p) = 3 + n /\ p[1] = l
      BY <1>1, <1>4, <1>5
    <2>2. Len(q) + 1 = 2 + n /\ Len(q) + 2 = 3 + n
      BY <1>1, <1>4
    <2>3. \A j \in 1..n : 1 + j \in 1..Len(q)
      BY <1>1, <1>4
    <2> QED BY <1>4, <1>5, <2>1, <2>2, <2>3
  <1>7. Decode("UpdateRef", p) =
          IF Len(p) < 1 \/ Len(p) < 3 + p[1] THEN [type |-> "UpdateRef", bad |-> TRUE]
          ELSE [type |-> "UpdateRef", name |-> Sub(p, 1, p[1]),
                old |-> p[2 + p[1]], new |-> p[3 + p[1]]]
    BY DEF Decode
  <1>8. Decode("UpdateRef", p).type = "UpdateRef"
    BY <1>7
  <1>9. ASSUME n < NameSize PROVE Decode("UpdateRef", p) = m
    <2>1. p[1] = n /\ ~(Len(p) < 1) /\ ~(Len(p) < 3 + p[1])
      BY <1>1, <1>6, <1>9
    <2>2. Decode("UpdateRef", p) = [type |-> "UpdateRef", name |-> Sub(p, 1, n),
                                    old |-> m.old, new |-> m.new]
      BY <1>6, <1>7, <2>1
    <2>3. Sub(p, 1, n) = m.name
      <3>1. 1 + n <= Len(p)
        BY <1>1, <1>6
      <3>2. /\ Sub(p, 1, n) \in Seq(Unit) /\ Len(Sub(p, 1, n)) = n
            /\ \A j \in 1..n : Sub(p, 1, n)[j] = p[1 + j]
        <4> HIDE DEF n
        <4> QED BY <1>1, <1>5, <3>1, Part DEF Sub
      <3> QED BY <1>1, <1>6, <3>2, SeqEqual
    <2> QED BY <2>2, <2>3
  <1> QED BY <1>3, <1>5, <1>8, <1>9

\* A query for chunks is read as it was written.
LEMMA ChunkQueryKept ==
    ASSUME NEW m, m.type = "ChunkQuery", m = [type |-> m.type, hashes |-> m.hashes],
           m.hashes \in Seq(Hash)
    PROVE  Payload(m) \in Seq(Unit) /\ Decode("ChunkQuery", Payload(m)) = m
  <1> DEFINE n == Len(m.hashes)
             p == <<n>> \o m.hashes
  <1>1. n \in Nat /\ n \in Unit /\ m.hashes \in Seq(Unit)
    BY DEF Unit
  <1>2. Payload(m) = p
    BY DEF Payload
  <1>3. /\ p \in Seq(Unit) /\ Len(p) = 1 + n /\ p[1] = n
        /\ SubSeq(p, 2, 1 + n) = m.hashes
    BY <1>1, Headed
  <1> HIDE DEF p
  <1>4. Decode("ChunkQuery", p) =
          IF Len(p) < 1 \/ Len(p) < 1 + p[1] THEN [type |-> "ChunkQuery", bad |-> TRUE]
          ELSE [type |-> "ChunkQuery", hashes |-> Sub(p, 1, p[1])]
    BY DEF Decode
  <1>5. ~(Len(p) < 1) /\ ~(Len(p) < 1 + p[1]) /\ Sub(p, 1, p[1]) = m.hashes
    BY <1>1, <1>3 DEF Sub
  <1> QED BY <1>2, <1>3, <1>4, <1>5

\* Division with remainder.
LEMMA Divided ==
    ASSUME NEW i \in Nat, NEW w \in Nat, w # 0
    PROVE  /\ i \div w \in Nat /\ i % w \in 0..w - 1 /\ i = w * (i \div w) + (i % w)
  OBVIOUS

\* Every bit has a place in a byte of its bitmap.
LEMMA PlaceOfBit ==
    ASSUME NEW i \in Nat, NEW n \in Nat, i < n, NEW w \in Nat, w # 0
    PROVE  i \div w < (n + w - 1) \div w
  <1> DEFINE k == (n + w - 1) \div w
             r == (n + w - 1) % w
             l == i \div w
             s == i % w
  <1>1. k \in Nat /\ r \in 0..w - 1 /\ n + w - 1 = w * k + r
    <2>1. n + w - 1 \in Nat
      OBVIOUS
    <2> QED BY <2>1, Divided
  <1>2. l \in Nat /\ s \in 0..w - 1 /\ i = w * l + s
    BY Divided
  <1> HIDE DEF k, r, l, s
  <1>3. SUFFICES ASSUME k <= l PROVE FALSE
    BY <1>1, <1>2 DEF k, l
  <1>4. w * k <= w * l
    BY <1>1, <1>2, <1>3
  <1>5. w * k \in Nat /\ w * l \in Nat
    BY <1>1, <1>2
  <1> QED BY <1>1, <1>2, <1>4, <1>5

\* The bitmap of a list of booleans says each of them.
LEMMA ChunkHavesKept ==
    ASSUME NEW m, m.type = "ChunkHaves", m = [type |-> m.type, haves |-> m.haves],
           m.haves \in Seq(BOOLEAN)
    PROVE  Payload(m) \in Seq(Unit) /\ Decode("ChunkHaves", Payload(m)) = m
  <1> DEFINE n == Len(m.haves)
             w == ByteBits
             bytes == BitmapBytes(n)
             map == Bitmap(m.haves)
             p == <<n>> \o map
             said == [i \in 1..p[1] |-> (i - 1) % w \in p[2 + ((i - 1) \div w)]]
  <1>1. n \in Nat /\ n \in Unit /\ w \in Nat /\ w # 0
    BY WidthAssumption DEF Unit
  <1>2. bytes \in Nat
    <2>1. n + w - 1 \in Nat
      BY <1>1
    <2>2. (n + w - 1) \div w \in Nat
      <3> HIDE DEF n, w
      <3> QED BY <1>1, <2>1, Divided
    <2> QED BY <2>2 DEF BitmapBytes
  <1>3. map = [k \in 1..bytes |->
                 {b \in 0..w - 1 : LET i == (k - 1) * w + b + 1
                                   IN  i <= n /\ m.haves[i]}]
    BY DEF Bitmap
  <1>4. Payload(m) = p
    BY DEF Payload
  <1> HIDE DEF map, bytes
  <1>5. map \in Seq(Unit) /\ Len(map) = bytes
    <2>1. \A k \in 1..bytes : map[k] \in Unit
      BY <1>1, <1>3 DEF Unit
    <2>2. map = [k \in 1..bytes |-> map[k]]
      BY <1>3
    <2> QED BY <1>2, <2>1, <2>2
  <1>6. /\ p \in Seq(Unit) /\ Len(p) = 1 + bytes /\ p[1] = n
        /\ \A k \in 1..bytes : p[1 + k] = map[k]
    <2> HIDE DEF n
    <2> QED BY <1>1, <1>5, Headed
  <1>7. said = m.haves
    <2>1. ASSUME NEW i \in 1..n PROVE ((i - 1) % w \in p[2 + ((i - 1) \div w)]) = m.haves[i]
      <3> DEFINE b == (i - 1) % w
                 k == ((i - 1) \div w) + 1
      <3>1. i - 1 \in Nat /\ i - 1 < n
        BY <1>1
      <3>2. b \in 0..w - 1 /\ k - 1 \in Nat /\ i - 1 = w * (k - 1) + b
        <4> HIDE DEF w, n
        <4>1. /\ (i - 1) \div w \in Nat /\ (i - 1) % w \in 0..w - 1
              /\ i - 1 = w * ((i - 1) \div w) + ((i - 1) % w)
          BY <1>1, <3>1, Divided
        <4> QED BY <4>1
      <3>3. k \in 1..bytes
        <4> HIDE DEF w, n
        <4>1. (i - 1) \div w \in Nat /\ (i - 1) \div w < (n + w - 1) \div w
          BY <1>1, <3>1, Divided, PlaceOfBit
        <4>2. bytes = (n + w - 1) \div w
          BY DEF bytes, BitmapBytes, w
        <4> QED BY <1>2, <4>1, <4>2
      <3>4. 2 + ((i - 1) \div w) = 1 + k
        <4>1. (i - 1) \div w \in Nat
          BY <1>1, <3>1, Divided
        <4> QED BY <4>1
      <3>5. p[1 + k] = map[k]
        BY <1>6, <3>3
      <3> HIDE DEF b, k, p
      <3>6. b \in map[k] <=> m.haves[i]
        <4>1. (k - 1) * w + b + 1 = i
          BY <1>1, <3>2, <3>3
        <4> HIDE DEF n, w
        <4>2. b \in map[k] <=> i <= n /\ m.haves[i]
          BY <1>3, <3>2, <3>3, <4>1
        <4> QED BY <1>1, <4>2
      <3>7. m.haves[i] \in BOOLEAN
        OBVIOUS
      <3> QED BY <3>4, <3>5, <3>6, <3>7 DEF b
    <2>2. m.haves = [i \in 1..n |-> m.haves[i]]
      OBVIOUS
    <2> QED BY <1>6, <2>1, <2>2
  <1> HIDE DEF p
  <1>8. Decode("ChunkHaves", p) =
          IF Len(p) < 1 \/ Len(p) < 1 + BitmapBytes(p[1])
          THEN [type |-> "ChunkHaves", bad |-> TRUE]
          ELSE [type |-> "ChunkHaves", haves |-> said]
    BY DEF Decode
  <1>9. ~(Len(p) < 1) /\ ~(Len(p) < 1 + BitmapBytes(p[1]))
    BY <1>2, <1>6 DEF bytes
  <1> QED BY <1>4, <1>6, <1>7, <1>8, <1>9

\* A bounded sequence is a sequence.
LEMMA BoundedIsSeq ==
    ASSUME NEW S, NEW n \in Nat, NEW s \in BoundedSeq(S, n) PROVE s \in Seq(S)
  <1>1. PICK k \in 0..n : s \in [1..k -> S]
    BY DEF BoundedSeq, SeqOf
  <1> QED BY <1>1

\* x is what m says, or m has a name that is too long to be sent.
Said(m, x) ==
    /\ x.type = m.type
    /\ \/ x = m
       \/ "name" \in DOMAIN m /\ Len(m.name) >= NameSize

\* Whatever a message is, what is read of its payload is what it says.
LEMMA MessageKept ==
    ASSUME NEW m \in WireMessage
    PROVE  /\ m.type \in Types /\ Payload(m) \in Seq(Unit)
           /\ Said(m, Decode(m.type, Payload(m)))
  <1>1. CASE m \in [type : {"RefLine"}, name : Name, hash : Hash]
    <2>1. m.type = "RefLine" /\ "name" \in DOMAIN m /\ Len(m.name) \in Nat /\ NameSize \in Nat
      BY <1>1, NameUnits, WidthAssumption
    <2>2. /\ Payload(m) \in Seq(Unit)
          /\ Decode("RefLine", Payload(m)).type = "RefLine"
          /\ Len(m.name) < NameSize => Decode("RefLine", Payload(m)) = m
      BY <1>1, RefLineKept, Zenon
    <2> QED BY <2>1, <2>2 DEF Said, Types
  <1>2. CASE m \in [type : {"UpdateRef"}, name : Name, old : Hash, new : Hash]
    <2>1. m.type = "UpdateRef" /\ "name" \in DOMAIN m /\ Len(m.name) \in Nat /\ NameSize \in Nat
      BY <1>2, NameUnits, WidthAssumption
    <2>2. /\ Payload(m) \in Seq(Unit)
          /\ Decode("UpdateRef", Payload(m)).type = "UpdateRef"
          /\ Len(m.name) < NameSize => Decode("UpdateRef", Payload(m)) = m
      BY <1>2, UpdateRefKept, Zenon
    <2> QED BY <2>1, <2>2 DEF Said, Types
  <1>3. CASE m \in [type : {"Error"}, name : Name, code : {1, 2}]
    <2>1. m.type = "Error" /\ "name" \in DOMAIN m /\ Len(m.name) \in Nat /\ NameSize \in Nat
      BY <1>3, NameUnits, WidthAssumption
    <2>2. /\ Payload(m) \in Seq(Unit)
          /\ Decode("Error", Payload(m)).type = "Error"
          /\ Len(m.name) < NameSize => Decode("Error", Payload(m)) = m
      BY <1>3, ErrorKept, Zenon
    <2> QED BY <2>1, <2>2 DEF Said, Types
  <1>4. CASE m \in [type : {"ChunkQuery"}, hashes : BoundedSeq(Hash, MaxList)]
    <2>1. m.hashes \in Seq(Hash)
      BY <1>4, BoundedIsSeq, WidthAssumption
    <2>2. m.type = "ChunkQuery" /\ m = [type |-> m.type, hashes |-> m.hashes]
      BY <1>4
    <2>3. Payload(m) \in Seq(Unit) /\ Decode("ChunkQuery", Payload(m)) = m
      BY <2>1, <2>2, ChunkQueryKept
    <2> QED BY <2>2, <2>3 DEF Said, Types
  <1>5. CASE m \in [type : {"ChunkHaves"}, haves : BoundedSeq(BOOLEAN, MaxList)]
    <2>1. m.haves \in Seq(BOOLEAN)
      BY <1>5, BoundedIsSeq, WidthAssumption
    <2>2. m.type = "ChunkHaves" /\ m = [type |-> m.type, haves |-> m.haves]
      BY <1>5
    <2>3. Payload(m) \in Seq(Unit) /\ Decode("ChunkHaves", Payload(m)) = m
      BY <2>1, <2>2, ChunkHavesKept
    <2> QED BY <2>2, <2>3 DEF Said, Types
  <1>6. CASE m \in [type : {"StreamEnd"}]
    <2>1. m.type = "StreamEnd" /\ m = [type |-> "StreamEnd"]
      BY <1>6
    <2>2. Payload(m) = <<>> /\ <<>> \in Seq(Unit)
      BY <2>1 DEF Payload
    <2>3. Decode(m.type, Payload(m)) = [type |-> "StreamEnd"]
      BY <2>1 DEF Decode
    <2> QED BY <2>1, <2>2, <2>3 DEF Said, Types
  <1> QED BY <1>1, <1>2, <1>3, <1>4, <1>5, <1>6 DEF WireMessage

\* A frame begins with its length and its type, and the payload follows.
LEMMA FrameParts ==
    ASSUME NEW m \in WireMessage
    PROVE  /\ Frame(m) \in Seq(Unit) /\ Len(Frame(m)) \in Nat /\ Len(Frame(m)) >= 2
           /\ Frame(m)[1] = Len(Frame(m)) /\ Frame(m)[2] = m.type
           /\ Payload(m) = SubSeq(Frame(m), 3, Len(Frame(m)))
  <1> DEFINE n == Len(Payload(m))
             l == 2 + n
  <1>1. Payload(m) \in Seq(Unit) /\ m.type \in Unit /\ n \in Nat /\ l \in Unit
    BY MessageKept DEF Unit
  <1>2. Frame(m) = <<l, m.type>> \o Payload(m)
    BY DEF Frame
  <1> HIDE DEF l
  <1>3. /\ Frame(m) \in Seq(Unit) /\ Len(Frame(m)) = 2 + n
        /\ Frame(m)[1] = l /\ Frame(m)[2] = m.type
        /\ SubSeq(Frame(m), 3, 2 + n) = Payload(m)
    BY <1>1, <1>2, TwiceHeaded
  <1> QED BY <1>1, <1>3 DEF l

\* What the first i messages and the handshake put on the connection.
UpTo(ms, i) == Handshake \o FlattenSeq([j \in 1..i |-> Frame(ms[j])])

\* The next message is put behind those before it.
LEMMA StreamGrows ==
    ASSUME NEW ms \in Seq(WireMessage)
    PROVE  /\ UpTo(ms, 0) = Handshake /\ Handshake \in Seq(Unit) /\ Len(Handshake) = 3
           /\ \A k \in 0..Len(ms) : UpTo(ms, k) \in Seq(Unit)
           /\ \A k \in 0..Len(ms) - 1 : UpTo(ms, k + 1) = UpTo(ms, k) \o Frame(ms[k + 1])
  <1> DEFINE n == Len(ms)
             frames(i) == [j \in 1..i |-> Frame(ms[j])]
             flat == [i \in 0..n |-> FlattenSeq(frames(i))]
  <1>1. n \in Nat /\ \A i \in 1..n : ms[i] \in WireMessage
    OBVIOUS
  <1>2. \A i \in 1..n : Frame(ms[i]) \in Seq(Unit)
    BY <1>1, FrameParts
  <1>3. \A k \in 0..n : frames(k) \in Seq(Seq(Unit))
    <2> TAKE k \in 0..n
    <2>1. \A j \in 1..k : Frame(ms[j]) \in Seq(Unit)
      BY <1>1, <1>2
    <2> QED BY <1>1, <2>1
  <1>4. Handshake \in Seq(Unit) /\ Len(Handshake) = 3
    <2>1. "MSYN" \in Unit /\ 1 \in Unit /\ 0 \in Unit
      BY DEF Unit
    <2> QED BY <2>1 DEF Handshake
  <1>5. flat[0] = <<>>
    <2>1. frames(0) = <<>>
      OBVIOUS
    <2>2. <<>> \in Seq(Seq(Unit)) /\ <<>> \in Seq(Unit)
      OBVIOUS
    <2>3. FlattenSeq(<<>>) = <<>>
      BY <2>2, FlattenAppend, Zenon
    <2> QED BY <1>1, <2>1, <2>3
  <1>6. \A k \in 0..n - 1 : flat[k + 1] = flat[k] \o Frame(ms[k + 1])
    <2> TAKE k \in 0..n - 1
    <2>1. k \in 0..n /\ k + 1 \in 0..n /\ k + 1 \in 1..n /\ Frame(ms[k + 1]) \in Seq(Unit)
      BY <1>1, <1>2
    <2>2. frames(k) \in Seq(Seq(Unit)) /\ Len(frames(k)) = k
      BY <1>1, <1>3, <2>1
    <2>3. frames(k + 1) = Append(frames(k), Frame(ms[k + 1]))
      <3> DEFINE s == Append(frames(k), Frame(ms[k + 1]))
      <3>1. DOMAIN s = 1..k + 1 /\ s = [j \in 1..k + 1 |-> s[j]]
        BY <1>1, <2>1, <2>2
      <3>2. ASSUME NEW j \in 1..k + 1 PROVE s[j] = Frame(ms[j])
        BY <1>1, <2>1, <2>2
      <3> QED BY <3>1, <3>2
    <2> HIDE DEF frames
    <2> QED BY <2>1, <2>2, <2>3, FlattenAppend
  <1> HIDE DEF flat
  <1> DEFINE bad == {k \in 0..n : flat[k] \notin Seq(Unit)}
  <1>7. bad = {}
    <2> SUFFICES ASSUME bad # {} PROVE FALSE
      OBVIOUS
    <2>1. PICK k \in bad : \A j \in bad : k <= j
      <3>1. bad \in SUBSET Nat
        BY <1>1
      <3> HIDE DEF bad
      <3> QED BY <3>1, LeastOf
    <2>2. k \in 0..n /\ flat[k] \notin Seq(Unit)
      OBVIOUS
    <2>3. k # 0
      <3>1. <<>> \in Seq(Unit)
        OBVIOUS
      <3> QED BY <1>5, <2>2, <3>1
    <2>4. k - 1 \in 0..n - 1 /\ k - 1 \in 0..n /\ k - 1 + 1 = k /\ k \in 1..n
      BY <1>1, <2>2, <2>3
    <2>5. flat[k - 1] \in Seq(Unit)
      BY <2>1, <2>4
    <2>6. flat[k - 1 + 1] = flat[k - 1] \o Frame(ms[k - 1 + 1])
      BY <1>6, <2>4
    <2>7. flat[k] = flat[k - 1] \o Frame(ms[k])
      BY <2>4, <2>6
    <2>8. Frame(ms[k]) \in Seq(Unit)
      BY <1>2, <2>4
    <2> QED BY <2>2, <2>5, <2>7, <2>8
  <1>8. ASSUME NEW k \in 0..n PROVE flat[k] \in Seq(Unit)
    BY <1>7
  <1> HIDE DEF bad
  <1>9. ASSUME NEW k \in 0..n PROVE UpTo(ms, k) = Handshake \o flat[k]
    BY DEF UpTo, flat, frames
  <1>10. UpTo(ms, 0) = Handshake
    <2>1. Handshake \o <<>> = Handshake
      BY <1>4, ConcatEmptySeq
    <2>2. UpTo(ms, 0) = Handshake \o flat[0]
      BY <1>1, <1>9
    <2> QED BY <1>5, <2>1, <2>2
  <1>11. ASSUME NEW k \in 0..n PROVE UpTo(ms, k) \in Seq(Unit)
    <2>1. flat[k] \in Seq(Unit)
      BY <1>8
    <2>2. Handshake \o flat[k] \in Seq(Unit)
      BY <1>4, <2>1, ConcatProperties
    <2> QED BY <1>9, <2>2
  <1>12. ASSUME NEW k \in 0..n - 1 PROVE UpTo(ms, k + 1) = UpTo(ms, k) \o Frame(ms[k + 1])
    <2>1. k \in 0..n /\ k + 1 \in 0..n /\ k + 1 \in 1..n
      BY <1>1
    <2>2. flat[k] \in Seq(Unit) /\ Frame(ms[k + 1]) \in Seq(Unit)
      BY <1>2, <1>8, <2>1
    <2>3. (Handshake \o flat[k]) \o Frame(ms[k + 1]) = Handshake \o (flat[k] \o Frame(ms[k + 1]))
      <3>1. Handshake \in Seq(Unit)
        BY <1>4
      <3>2. \A s, t, u \in Seq(Unit) : (s \o t) \o u = s \o (t \o u)
        BY ConcatAssociative
      <3> QED BY <2>2, <3>1, <3>2, Zenon
    <2>4. flat[k + 1] = flat[k] \o Frame(ms[k + 1])
      BY <1>6
    <2> QED BY <1>1, <1>9, <2>1, <2>3, <2>4
  <1> QED BY <1>4, <1>10, <1>11, <1>12

\* What the first messages put on the connection is the beginning of what all do.
LEMMA StreamPrefix ==
    ASSUME NEW ms \in Seq(WireMessage), NEW n \in 0..Len(ms), NEW k \in 0..n
    PROVE  /\ Len(UpTo(ms, k)) <= Len(UpTo(ms, n))
           /\ \A j \in 1..Len(UpTo(ms, k)) : UpTo(ms, n)[j] = UpTo(ms, k)[j]
  <1> DEFINE u == [i \in 0..Len(ms) |-> UpTo(ms, i)]
             begins(i) == /\ Len(u[k]) <= Len(u[i])
                          /\ \A j \in 1..Len(u[k]) : u[i][j] = u[k][j]
             bad == {i \in k..Len(ms) : ~begins(i)}
  <1>1. Len(ms) \in Nat /\ k \in 0..Len(ms) /\ n \in k..Len(ms)
    OBVIOUS
  <1>2. \A i \in 0..Len(ms) : u[i] \in Seq(Unit) /\ Len(u[i]) \in Nat
    BY StreamGrows
  <1>3. ASSUME NEW i \in 0..Len(ms), i + 1 \in 0..Len(ms)
        PROVE  /\ Len(u[i]) <= Len(u[i + 1])
               /\ \A j \in 1..Len(u[i]) : u[i + 1][j] = u[i][j]
    <2> DEFINE f == Frame(ms[i + 1])
    <2>1. i \in 0..Len(ms) - 1 /\ i + 1 \in 1..Len(ms) /\ ms[i + 1] \in WireMessage
      BY <1>1, <1>3
    <2>2. f \in Seq(Unit) /\ Len(f) \in Nat
      BY <2>1, FrameParts
    <2>3. u[i + 1] = u[i] \o f
      BY <1>3, <2>1, StreamGrows
    <2>4. u[i] \in Seq(Unit) /\ Len(u[i]) \in Nat
      BY <1>2
    <2> HIDE DEF f, u
    <2>5. /\ Len(u[i] \o f) = Len(u[i]) + Len(f)
          /\ \A j \in 1..Len(u[i]) : (u[i] \o f)[j] = u[i][j]
      <3>1. \A s, t \in Seq(Unit) : /\ Len(s \o t) = Len(s) + Len(t)
                                    /\ \A j \in 1..Len(s) : (s \o t)[j] = s[j]
        BY Joined
      <3> QED BY <2>2, <2>4, <3>1, Zenon
    <2> QED BY <2>2, <2>3, <2>4, <2>5
  <1>4. bad = {}
    <2> SUFFICES ASSUME bad # {} PROVE FALSE
      OBVIOUS
    <2>1. PICK i \in bad : \A j \in bad : i <= j
      <3>1. bad \in SUBSET Nat
        BY <1>1
      <3> HIDE DEF bad
      <3> QED BY <3>1, LeastOf
    <2>2. i \in k..Len(ms) /\ ~begins(i)
      OBVIOUS
    <2> HIDE DEF u
    <2>3. i # k
      BY <1>1, <1>2, <2>2
    <2>4. i - 1 \in k..Len(ms) /\ i - 1 \in 0..Len(ms) /\ i - 1 + 1 = i /\ i \in 0..Len(ms)
      BY <1>1, <2>2, <2>3
    <2>5. begins(i - 1)
      <3>1. i - 1 \notin bad
        BY <2>1, <2>4
      <3> QED BY <2>4, <3>1
    <2>6. /\ Len(u[i - 1]) <= Len(u[i])
          /\ \A j \in 1..Len(u[i - 1]) : u[i][j] = u[i - 1][j]
      BY <1>3, <2>4
    <2>7. Len(u[k]) \in Nat /\ Len(u[i - 1]) \in Nat /\ Len(u[i]) \in Nat
      BY <1>1, <1>2, <2>4
    <2> QED BY <2>2, <2>5, <2>6, <2>7
  <1>5. begins(n)
    BY <1>1, <1>4
  <1> QED BY <1>1, <1>5

\* The stream is what the messages put on the connection, or its beginning.
Connection(ms, stream) ==
    /\ ms \in Seq(WireMessage)
    /\ Len(stream) \in 0..Len(UpTo(ms, Len(ms)))
    /\ stream = SubSeq(UpTo(ms, Len(ms)), 1, Len(stream))

\* Of the stream, what follows the first k messages is left.
Behind(ms, k, stream, left) ==
    /\ Len(UpTo(ms, k)) <= Len(stream)
    /\ left = SubSeq(stream, Len(UpTo(ms, k)) + 1, Len(stream))

\* The next message is read if and only if all of it has come.
ReadsNext(ms, k, stream, left) ==
    LET read == ReadFrame(left) IN
    /\ read.ok <=> k < Len(ms) /\ Len(UpTo(ms, k + 1)) <= Len(stream)
    /\ read.ok =>
          /\ read.message = Decode(ms[k + 1].type, Payload(ms[k + 1]))
          /\ Behind(ms, k + 1, stream, read.rest)

\* So it is behind each message.
LEMMA NextRead ==
    ASSUME NEW ms, NEW s, Connection(ms, s), NEW k \in 0..Len(ms), NEW left, Behind(ms, k, s, left)
    PROVE  ReadsNext(ms, k, s, left)
  <1> DEFINE u == UpTo(ms, Len(ms))
             a == Len(UpTo(ms, k))
             c == Len(s)
             d == c - a
             read == ReadFrame(left)
             Goal ==
               /\ read.ok <=> k < Len(ms) /\ Len(UpTo(ms, k + 1)) <= c
               /\ read.ok =>
                     /\ read.message = Decode(ms[k + 1].type, Payload(ms[k + 1]))
                     /\ read.rest = SubSeq(s, Len(UpTo(ms, k + 1)) + 1, Len(s))
  <1>1. /\ ms \in Seq(WireMessage) /\ c \in 0..Len(u) /\ a <= c
        /\ s = SubSeq(u, 1, c) /\ left = SubSeq(s, a + 1, Len(s))
    BY DEF Connection, Behind
  <1>2. Goal
    <2>1. /\ Len(ms) \in Nat /\ u \in Seq(Unit) /\ Len(u) \in Nat /\ c \in Nat /\ a \in Nat
          /\ d \in Nat /\ c <= Len(u) /\ a + d = c /\ d = c - a
      BY <1>1, StreamGrows
    <2> HIDE DEF u, a, c
    <2>2. s \in Seq(Unit) /\ Len(s) = c /\ \A j \in 1..c : s[j] = u[j]
      <3>1. s = SubSeq(u, 0 + 1, 0 + c)
        BY <1>1, <2>1 DEF u
      <3>2. /\ SubSeq(u, 0 + 1, 0 + c) \in Seq(Unit) /\ Len(SubSeq(u, 0 + 1, 0 + c)) = c
            /\ \A j \in 1..c : SubSeq(u, 0 + 1, 0 + c)[j] = u[0 + j]
        <4>1. 0 \in Nat /\ 0 + c <= Len(u)
          BY <2>1
        <4> QED BY <2>1, <4>1, Part
      <3> QED BY <2>1, <3>1, <3>2
    <2>3. left \in Seq(Unit) /\ Len(left) = d /\ \A j \in 1..d : left[j] = u[a + j]
      <3>1. left = SubSeq(s, a + 1, a + d)
        BY <1>1, <2>1, <2>2 DEF a
      <3> HIDE DEF d
      <3>2. /\ SubSeq(s, a + 1, a + d) \in Seq(Unit) /\ Len(SubSeq(s, a + 1, a + d)) = d
            /\ \A j \in 1..d : SubSeq(s, a + 1, a + d)[j] = s[a + j]
        <4>1. a + d <= Len(s)
          BY <2>1, <2>2
        <4> QED BY <2>1, <2>2, <4>1, Part
      <3>3. \A j \in 1..d : a + j \in 1..c
        BY <2>1
      <3> QED BY <2>2, <3>1, <3>2, <3>3
    <2>4. read = IF left = <<>> \/ left[1] < 2 \/ Len(left) < left[1]
                 THEN [ok |-> FALSE, rest |-> <<>>]
                 ELSE [ok |-> TRUE, message |-> Decode(left[2], Sub(left, 2, left[1] - 2)),
                       rest |-> SubSeq(left, left[1] + 1, Len(left))]
      BY DEF ReadFrame
    <2> HIDE DEF d, read
    <2>5. CASE k = Len(ms)
      <3>1. a = Len(u)
        BY <2>5 DEF a, u
      <3>2. left = <<>>
        BY <2>1, <2>3, <3>1
      <3>3. ~read.ok
        BY <2>4, <3>2
      <3> QED BY <2>1, <2>2, <2>5, <3>3 DEF read
    <2>6. CASE k < Len(ms)
      <3> DEFINE m == ms[k + 1]
                 f == Frame(m)
                 l == Len(f)
      <3>1. ms \in Seq(WireMessage) /\ k + 1 \in 0..Len(ms) /\ m \in WireMessage
        BY <1>1, <2>1, <2>6
      <3>2. /\ f \in Seq(Unit) /\ l \in Nat /\ l >= 2 /\ f[1] = l /\ f[2] = m.type
            /\ Payload(m) = SubSeq(f, 3, l) /\ Payload(m) \in Seq(Unit)
        BY <3>1, FrameParts, MessageKept
      <3>3. /\ Len(UpTo(ms, k + 1)) = a + l
            /\ \A j \in 1..l : UpTo(ms, k + 1)[a + j] = f[j]
        <4>1. k \in 0..Len(ms) - 1
          BY <2>1, <2>6
        <4>2. UpTo(ms, k + 1) = UpTo(ms, k) \o f /\ UpTo(ms, k) \in Seq(Unit)
          BY <3>1, <4>1, StreamGrows
        <4>3. \A x, y \in Seq(Unit) : /\ Len(x \o y) = Len(x) + Len(y)
                                      /\ \A j \in 1..Len(y) : (x \o y)[Len(x) + j] = y[j]
          BY Joined
        <4> HIDE DEF f
        <4>4. /\ Len(UpTo(ms, k) \o f) = Len(UpTo(ms, k)) + Len(f)
              /\ \A j \in 1..Len(f) : (UpTo(ms, k) \o f)[Len(UpTo(ms, k)) + j] = f[j]
          BY <3>2, <4>2, <4>3, Zenon
        <4> QED BY <4>2, <4>4 DEF a
      <3>4. a + l <= Len(u) /\ \A j \in 1..l : u[a + j] = f[j]
        <4>1. /\ Len(UpTo(ms, k + 1)) <= Len(u)
              /\ \A j \in 1..Len(UpTo(ms, k + 1)) : u[j] = UpTo(ms, k + 1)[j]
          BY <2>1, <3>1, StreamPrefix DEF u
        <4> HIDE DEF f, l
        <4>2. \A j \in 1..l : a + j \in 1..a + l
          BY <2>1, <3>2
        <4> QED BY <2>1, <3>2, <3>3, <4>1, <4>2
      <3> HIDE DEF f, l, m
      <3>5. l \in Nat /\ l >= 2
        BY <3>2
      <3>6. CASE left = <<>>
        <4>1. d = 0
          BY <2>3, <3>6
        <4>2. ~(Len(UpTo(ms, k + 1)) <= c)
          BY <2>1, <3>2, <3>3, <4>1
        <4>3. ~read.ok
          BY <2>4, <3>6
        <4> QED BY <2>2, <4>2, <4>3 DEF read
      <3>7. CASE left # <<>>
        <4>1. d >= 1 /\ left[1] = l
          <5>1. d >= 1
            BY <2>1, <2>3, <3>7
          <5>2. 1 \in 1..d /\ 1 \in 1..l
            BY <2>1, <3>5, <5>1
          <5>3. left[1] = u[a + 1] /\ u[a + 1] = f[1]
            BY <2>3, <3>4, <5>2, Zenon
          <5>4. f[1] = l
            BY <3>2
          <5> QED BY <5>1, <5>3, <5>4
        <4>2. CASE d < l
          <5>1. ~read.ok
            BY <2>3, <2>4, <4>1, <4>2
          <5>2. ~(Len(UpTo(ms, k + 1)) <= c)
            BY <2>1, <3>2, <3>3, <4>2
          <5> QED BY <2>2, <5>1, <5>2 DEF read
        <4>3. CASE l <= d
          <5>1. ~(left = <<>> \/ left[1] < 2 \/ Len(left) < left[1])
            <6>1. Len(left) = d
              BY <2>3
            <6>2. ~(left[1] < 2) /\ ~(d < left[1])
              BY <2>1, <3>5, <4>1, <4>3
            <6> QED BY <3>7, <6>1, <6>2
          <5>2. /\ read.ok /\ read.message = Decode(left[2], Sub(left, 2, l - 2))
                /\ read.rest = SubSeq(left, l + 1, d)
            BY <2>3, <2>4, <4>1, <5>1
          <5>3. left[2] = m.type
            <6>1. 2 \in 1..d /\ 2 \in 1..l
              BY <2>1, <3>5, <4>3
            <6>2. left[2] = u[a + 2] /\ u[a + 2] = f[2]
              BY <2>3, <3>4, <6>1, Zenon
            <6> QED BY <3>2, <6>2
          <5>4. Sub(left, 2, l - 2) = Payload(m)
            <6> DEFINE e == l - 2
            <6>1. e \in Nat /\ 2 + e = l /\ 2 + e <= Len(left) /\ 2 + e <= l
              <7>1. Len(left) = d
                BY <2>3
              <7> QED BY <2>1, <3>5, <4>3, <7>1
            <6> HIDE DEF e
            <6>2. \A j \in 1..e : left[2 + j] = f[2 + j]
              <7> TAKE j \in 1..e
              <7>1. 2 + j \in 1..l /\ 2 + j \in 1..d
                BY <2>1, <3>2, <4>3, <6>1
              <7> QED BY <2>3, <3>4, <7>1
            <6>3. 2 \in Nat /\ 2 + e <= Len(f)
              BY <6>1 DEF l
            <6>4. SubSeq(left, 2 + 1, 2 + e) = SubSeq(f, 2 + 1, 2 + e)
              <7>1. left \in Seq(Unit) /\ f \in Seq(Unit) /\ 2 \in Nat /\ e \in Nat
                BY <2>3, <3>2, <6>1
              <7>2. 2 + e <= Len(left) /\ 2 + e <= Len(f)
                BY <6>1, <6>3
              <7> DEFINE x == SubSeq(left, 2 + 1, 2 + e)
                         y == SubSeq(f, 2 + 1, 2 + e)
              <7>3. x \in Seq(Unit) /\ Len(x) = e /\ \A j \in 1..e : x[j] = left[2 + j]
                BY <7>1, <7>2, Part
              <7>4. y \in Seq(Unit) /\ Len(y) = e /\ \A j \in 1..e : y[j] = f[2 + j]
                BY <7>1, <7>2, Part
              <7> HIDE DEF x, y
              <7>5. x = y
                BY <6>2, <7>1, <7>3, <7>4, SeqEqual
              <7> QED BY <7>5 DEF x, y
            <6>5. Payload(m) = SubSeq(f, 2 + 1, 2 + e)
              BY <3>2, <6>1
            <6> QED BY <6>4, <6>5 DEF Sub, e
          <5>5. read.rest = SubSeq(s, Len(UpTo(ms, k + 1)) + 1, Len(s))
            <6> DEFINE e == d - l
                       b == a + l
            <6>1. /\ e \in Nat /\ b \in Nat /\ l + e = d /\ l + e <= Len(left)
                  /\ b + e = c /\ b + e <= Len(s)
              <7>1. Len(left) = d /\ Len(s) = c
                BY <2>2, <2>3
              <7> QED BY <2>1, <3>5, <4>3, <7>1
            <6> HIDE DEF e, b
            <6>2. \A j \in 1..e : left[l + j] = s[b + j]
              <7> TAKE j \in 1..e
              <7>1. l + j \in 1..d /\ b + j \in 1..c /\ a + (l + j) = b + j
                BY <2>1, <3>2, <6>1 DEF b
              <7> QED BY <2>2, <2>3, <7>1
            <6>3. SubSeq(left, l + 1, l + e) = SubSeq(s, b + 1, b + e)
              <7>1. left \in Seq(Unit) /\ s \in Seq(Unit) /\ l \in Nat /\ b \in Nat /\ e \in Nat
                BY <2>2, <2>3, <3>5, <6>1
              <7>2. l + e <= Len(left) /\ b + e <= Len(s)
                BY <6>1
              <7> DEFINE x == SubSeq(left, l + 1, l + e)
                         y == SubSeq(s, b + 1, b + e)
              <7>3. x \in Seq(Unit) /\ Len(x) = e /\ \A j \in 1..e : x[j] = left[l + j]
                BY <7>1, <7>2, Part
              <7>4. y \in Seq(Unit) /\ Len(y) = e /\ \A j \in 1..e : y[j] = s[b + j]
                BY <7>1, <7>2, Part
              <7> HIDE DEF x, y
              <7>5. x = y
                BY <6>2, <7>1, <7>3, <7>4, SeqEqual
              <7> QED BY <7>5 DEF x, y
            <6> QED BY <2>2, <3>3, <5>2, <6>1, <6>3 DEF b
          <5>6. Len(UpTo(ms, k + 1)) <= c
            BY <2>1, <3>2, <3>3, <4>3
          <5> QED BY <2>2, <2>6, <5>2, <5>3, <5>4, <5>5, <5>6 DEF m, read
        <4> QED BY <2>1, <3>2, <4>2, <4>3
      <3> QED BY <3>6, <3>7
    <2> QED BY <2>1, <2>5, <2>6
  <1>3. read.ok => Len(UpTo(ms, k + 1)) <= c
    BY <1>2
  <1> QED BY <1>2, <1>3 DEF ReadsNext, Behind

-----------------------------------------------------------------------------
(* What the other end of a connection reads *)

\* What there is to be read of the messages ms.
Heard(ms) == {Decode(ms[i].type, Payload(ms[i])) : i \in 1..Len(ms)}

\* The first messages have been read, and before the end, all that follows them is left.
Reading(ms, stream) ==
    /\ got \in Seq(Heard(ms)) /\ Len(got) \in 0..Len(ms)
    /\ \A i \in 1..Len(got) : got[i] = Decode(ms[i].type, Payload(ms[i]))
    /\ step = "receive" => Behind(ms, Len(got), stream, made)
    /\ step = "done" =>
          \A i \in 1..Len(ms) : i <= Len(got) <=> Len(UpTo(ms, i)) <= Len(stream)

WireInv ==
    call = "wire" =>
        /\ step \in {"greet", "receive", "done"}
        /\ Connection(given.sent, given.stream)
        /\ step # "greet" => Reading(given.sent, given.stream)

\* It holds at first.
LEMMA WireStart == Init => WireInv
  <1> SUFFICES ASSUME Init, call = "wire" PROVE WireInv
    BY DEF WireInv
  <1>1. PICK ms \in BoundedSeq(WireMessage, MaxMessages) :
          LET stream == Handshake \o FlattenSeq([i \in 1..Len(ms) |-> Frame(ms[i])])
          IN  \E n \in 0..Len(stream) :
                 Begin("wire", "greet", [sent |-> ms, stream |-> SubSeq(stream, 1, n)])
    BY DEF Init, Begin
  <1>2. PICK n \in 0..Len(UpTo(ms, Len(ms))) :
          Begin("wire", "greet", [sent |-> ms, stream |-> SubSeq(UpTo(ms, Len(ms)), 1, n)])
    BY <1>1 DEF UpTo
  <1>3. ms \in Seq(WireMessage)
    <2>1. MaxMessages \in Nat
      BY LibraryBounds
    <2> QED BY <2>1, BoundedIsSeq
  <1> DEFINE u == UpTo(ms, Len(ms))
             s == SubSeq(u, 1, n)
  <1>4. u \in Seq(Unit) /\ Len(u) \in Nat
    BY <1>3, StreamGrows
  <1>5. Len(s) = n
    <2> HIDE DEF u
    <2>1. 0 \in Nat /\ n \in Nat /\ 0 + n <= Len(u)
      BY <1>2, <1>4 DEF u
    <2>2. Len(SubSeq(u, 0 + 1, 0 + n)) = n
      BY <1>4, <2>1, Part
    <2> QED BY <2>1, <2>2
  <1>6. step = "greet" /\ given = [sent |-> ms, stream |-> s]
    BY <1>2 DEF Begin
  <1>7. Connection(ms, s)
    BY <1>2, <1>3, <1>5 DEF Connection
  <1> HIDE DEF s
  <1> QED BY <1>6, <1>7 DEF WireInv

\* The handshake leaves the messages to be read.
LEMMA WireGreet == WireInv /\ call = "wire" /\ Greet => WireInv'
  <1> SUFFICES ASSUME WireInv, call = "wire", Greet PROVE WireInv'
    OBVIOUS
  <1> DEFINE ms == given.sent
             s == given.stream
             u == UpTo(ms, Len(ms))
             c == Len(s)
  <1>1. Connection(ms, s)
    BY DEF WireInv
  <1>2. /\ ms \in Seq(WireMessage) /\ Len(ms) \in Nat /\ u \in Seq(Unit)
        /\ c \in 0..Len(u) /\ s = SubSeq(u, 1, c) /\ Len(u) \in Nat
        /\ UpTo(ms, 0) = Handshake /\ Len(Handshake) = 3 /\ Handshake[1] = "MSYN"
    BY <1>1, StreamGrows DEF Connection, Handshake
  <1>3. /\ got' = <<>> /\ call' = call /\ given' = given /\ made' = SubSeq(s, 4, c)
        /\ step' = IF ReceiveHandshake(s) THEN "receive" ELSE "done"
    BY DEF Greet, Go
  <1>4. \A i \in 0..Len(ms) : /\ Len(UpTo(ms, i)) \in Nat /\ Len(UpTo(ms, i)) >= 3
                              /\ UpTo(ms, i)[1] = "MSYN"
    <2> TAKE i \in 0..Len(ms)
    <2>1. Len(UpTo(ms, i)) \in Nat
      BY <1>2, StreamGrows
    <2>2. /\ Len(UpTo(ms, 0)) <= Len(UpTo(ms, i))
          /\ \A j \in 1..Len(UpTo(ms, 0)) : UpTo(ms, i)[j] = UpTo(ms, 0)[j]
      <3>1. 0 \in 0..i /\ ms \in Seq(WireMessage)
        BY <1>2
      <3> HIDE DEF ms
      <3> QED BY <3>1, StreamPrefix
    <2>3. Len(UpTo(ms, i)) >= 3
      BY <1>2, <2>1, <2>2
    <2>4. UpTo(ms, i)[1] = "MSYN"
      <3>1. UpTo(ms, 0)[1] = "MSYN" /\ 1 \in 1..Len(UpTo(ms, 0))
        BY <1>2
      <3> QED BY <2>2, <3>1, Zenon
    <2> QED BY <2>1, <2>3, <2>4
  <1> HIDE DEF ms, s, u, c
  <1>5. ReceiveHandshake(s) <=> c >= 3
    <2>1. ASSUME c >= 3 PROVE s[1] = "MSYN"
      <3>1. u[1] = "MSYN"
        BY <1>2, <1>4 DEF u
      <3>2. 0 \in Nat /\ c \in Nat /\ 0 + c <= Len(u) /\ 1 \in 1..c
        BY <1>2, <2>1
      <3>3. \A j \in 1..c : SubSeq(u, 0 + 1, 0 + c)[j] = u[0 + j]
        BY <1>2, <3>2, Part
      <3> QED BY <1>2, <3>1, <3>2, <3>3
    <2> QED BY <1>2, <2>1 DEF ReceiveHandshake, c
  <1>6. Reading(ms, s)'
    <2>1. ms' = ms /\ s' = s
      BY <1>3 DEF ms, s
    <2>2. <<>> \in Seq(Heard(ms)) /\ Len(<<>>) = 0 /\ 0 \in 0..Len(ms)
      BY <1>2
    <2>3. ASSUME step' = "receive" PROVE Behind(ms, 0, s, made')
      <3>1. Len(UpTo(ms, 0)) = 3 /\ 3 + 1 = 4
        BY <1>2
      <3>2. made' = SubSeq(s, Len(UpTo(ms, 0)) + 1, c)
        BY <1>3, <3>1
      <3>3. Len(UpTo(ms, 0)) <= c
        BY <1>2, <1>3, <1>5, <2>3, <3>1
      <3> QED BY <3>2, <3>3 DEF Behind, c
    <2>4. ASSUME step' = "done", NEW i \in 1..Len(ms) PROVE ~(Len(UpTo(ms, i)) <= c)
      <3>1. ~(c >= 3) /\ c \in Nat
        BY <1>2, <1>3, <1>5, <2>4
      <3>2. i \in 0..Len(ms)
        BY <1>2
      <3> QED BY <1>4, <3>1, <3>2
    <2>5. \A i \in 1..Len(ms) : ~(i <= 0)
      BY <1>2
    <2> QED BY <1>3, <2>1, <2>2, <2>3, <2>4, <2>5 DEF Reading, c
  <1>7. step' \in {"receive", "done"}
    BY <1>3
  <1>8. Connection(ms', s')
    BY <1>1, <1>3 DEF ms, s
  <1> QED BY <1>6, <1>7, <1>8 DEF WireInv, ms, s

\* One message more is read.
LEMMA WireReceive == WireInv /\ call = "wire" /\ Receive => WireInv'
  <1> SUFFICES ASSUME WireInv, call = "wire", Receive PROVE WireInv'
    OBVIOUS
  <1> DEFINE ms == given.sent
             s == given.stream
             k == Len(got)
             x == ReadFrame(made).message
  <1>1. Connection(ms, s) /\ Reading(ms, s) /\ step = "receive" /\ ReadFrame(made).ok
    BY DEF WireInv, Receive
  <1>2. /\ got' = Append(got, x) /\ call' = call /\ given' = given
        /\ made' = ReadFrame(made).rest /\ step' = "receive"
    BY DEF Receive, Go
  <1>3. ms' = ms /\ s' = s
    BY <1>2
  <1> HIDE DEF ms, s
  <1>4. /\ k < Len(ms) /\ Len(UpTo(ms, k + 1)) <= Len(s)
        /\ x = Decode(ms[k + 1].type, Payload(ms[k + 1]))
        /\ Behind(ms, k + 1, s, made')
    <2>1. k \in 0..Len(ms) /\ Behind(ms, k, s, made)
      BY <1>1 DEF Reading
    <2>2. ReadsNext(ms, k, s, made)
      BY <1>1, <2>1, NextRead
    <2> QED BY <1>1, <1>2, <2>2 DEF ReadsNext
  <1>5. /\ Len(ms) \in Nat /\ k \in Nat /\ got \in Seq(Heard(ms)) /\ x \in Heard(ms)
        /\ \A i \in 1..k : got[i] = Decode(ms[i].type, Payload(ms[i]))
    <2>1. /\ Len(ms) \in Nat /\ k \in Nat /\ got \in Seq(Heard(ms))
          /\ \A i \in 1..k : got[i] = Decode(ms[i].type, Payload(ms[i]))
      BY <1>1 DEF Connection, Reading
    <2>2. k + 1 \in 1..Len(ms)
      BY <1>4, <2>1
    <2>3. x \in Heard(ms)
      BY <1>4, <2>2, Zenon DEF Heard
    <2> QED BY <2>1, <2>3
  <1> HIDE DEF x
  <1>6. /\ got' \in Seq(Heard(ms)) /\ Len(got') = k + 1 /\ got'[k + 1] = x
        /\ \A i \in 1..k : got'[i] = got[i]
    BY <1>2, <1>5, AppendProperties
  <1>7. \A i \in 1..k + 1 : got'[i] = Decode(ms[i].type, Payload(ms[i]))
    <2> TAKE i \in 1..k + 1
    <2>1. CASE i \in 1..k
      BY <1>5, <1>6, <2>1
    <2>2. CASE i = k + 1
      BY <1>4, <1>6, <2>2
    <2> QED BY <1>5, <2>1, <2>2
  <1>8. Len(got') \in 0..Len(ms)
    BY <1>4, <1>5, <1>6
  <1>9. Reading(ms, s)'
    BY <1>2, <1>3, <1>4, <1>6, <1>7, <1>8 DEF Reading
  <1>10. Connection(ms', s')
    BY <1>1, <1>3
  <1> QED BY <1>2, <1>9, <1>10 DEF WireInv, ms, s

\* When no message can be read any more, all that came have been.
LEMMA WireHangUp == WireInv /\ call = "wire" /\ HangUp => WireInv'
  <1> SUFFICES ASSUME WireInv, call = "wire", HangUp PROVE WireInv'
    OBVIOUS
  <1> DEFINE ms == given.sent
             s == given.stream
             k == Len(got)
  <1>1. Connection(ms, s) /\ Reading(ms, s) /\ step = "receive" /\ ~ReadFrame(made).ok
    BY DEF WireInv, HangUp
  <1>2. got' = got /\ call' = call /\ given' = given /\ made' = made /\ step' = "done"
    BY DEF HangUp, Go
  <1>3. ms' = ms /\ s' = s
    BY <1>2
  <1> HIDE DEF ms, s
  <1>4. /\ ms \in Seq(WireMessage) /\ k \in 0..Len(ms) /\ Len(s) \in 0..Len(UpTo(ms, Len(ms)))
        /\ Len(UpTo(ms, k)) <= Len(s) /\ Behind(ms, k, s, made)
    BY <1>1 DEF Connection, Reading, Behind
  <1>5. ~(k < Len(ms) /\ Len(UpTo(ms, k + 1)) <= Len(s))
    <2>1. ReadsNext(ms, k, s, made)
      BY <1>1, <1>4, NextRead
    <2> QED BY <1>1, <2>1 DEF ReadsNext
  <1>6. Len(ms) \in Nat /\ Len(s) \in Nat /\ \A i \in 0..Len(ms) : Len(UpTo(ms, i)) \in Nat
    BY <1>4, StreamGrows
  <1> HIDE DEF k
  <1>7. \A i \in 1..Len(ms) : i <= k <=> Len(UpTo(ms, i)) <= Len(s)
    <2> TAKE i \in 1..Len(ms)
    <2>1. CASE i <= k
      <3>1. i \in 0..k /\ i \in 0..Len(ms)
        BY <1>4, <1>6, <2>1
      <3>2. Len(UpTo(ms, i)) <= Len(UpTo(ms, k))
        BY <1>4, <3>1, StreamPrefix
      <3> QED BY <1>4, <1>6, <2>1, <3>1, <3>2
    <2>2. CASE ~(i <= k)
      <3>1. i \in 0..Len(ms) /\ k + 1 \in 0..i /\ k + 1 \in 0..Len(ms) /\ k < Len(ms)
        BY <1>4, <1>6, <2>2
      <3>2. Len(UpTo(ms, k + 1)) <= Len(UpTo(ms, i))
        BY <1>4, <3>1, StreamPrefix
      <3> QED BY <1>5, <1>6, <2>2, <3>1, <3>2
    <2> QED BY <2>1, <2>2
  <1>8. Reading(ms, s)'
    BY <1>1, <1>2, <1>3, <1>7 DEF Reading, k
  <1>9. Connection(ms', s')
    BY <1>1, <1>3
  <1> QED BY <1>2, <1>8, <1>9 DEF WireInv, ms, s

\* It holds forever.
LEMMA WireAlways == Spec => []WireInv
  <1>1. ASSUME WireInv, [Next]_vars PROVE WireInv'
    <2>1. CASE call # "wire"
      <3>1. call' # "wire"
        BY <1>1, <2>1 DEF Next, vars, Compute, Encode, ApplyPatch, SplitBoth, Plan, Unpack,
                          IndexDocs, SearchDocs, Greet, Receive, HangUp, Go
      <3> QED BY <3>1 DEF WireInv
    <2>2. CASE call = "wire"
      <3>1. CASE UNCHANGED vars
        BY <1>1, <3>1 DEF vars, WireInv, Reading
      <3>2. CASE Next
        <4>1. step \in {"greet", "receive", "done"}
          BY <1>1, <2>2 DEF WireInv
        <4>2. Greet \/ Receive \/ HangUp
          BY <3>2, <4>1 DEF Next, Compute, Encode, ApplyPatch, SplitBoth, Plan, Unpack,
                            IndexDocs, SearchDocs
        <4> QED BY <1>1, <2>2, <4>2, WireGreet, WireReceive, WireHangUp
      <3> QED BY <1>1, <3>1, <3>2
    <2> QED BY <2>1, <2>2
  <1> QED BY WireStart, <1>1, PTL DEF Spec

\* WireExact, whatever the messages are and wherever the connection is lost: the
\* other end has read the messages that came completely, in order, each with its
\* type, and with what it says if its name fits the length sent before it.
THEOREM MessagesAsSent == Spec => []WireExact
  <1>1. ASSUME WireInv PROVE WireExact
    <2> SUFFICES ASSUME step = "done", call = "wire"
                 PROVE  LET upTo(i) == Handshake \o FlattenSeq([j \in 1..i |-> Frame(given.sent[j])])
                            arrived(i) == Len(upTo(i)) <= Len(given.stream)
                        IN  /\ DOMAIN got = {i \in DOMAIN given.sent : arrived(i)}
                            /\ \A i \in DOMAIN got :
                                  /\ got[i].type = given.sent[i].type
                                  /\ \/ got[i] = given.sent[i]
                                     \/ /\ "name" \in DOMAIN given.sent[i]
                                        /\ Len(given.sent[i].name) >= NameSize
      BY DEF WireExact, Done
    <2> DEFINE ms == given.sent
               s == given.stream
    <2>1. /\ ms \in Seq(WireMessage) /\ got \in Seq(Heard(ms)) /\ Len(got) \in 0..Len(ms)
          /\ \A i \in 1..Len(got) : got[i] = Decode(ms[i].type, Payload(ms[i]))
          /\ \A i \in 1..Len(ms) : i <= Len(got) <=> Len(UpTo(ms, i)) <= Len(s)
      BY <1>1 DEF WireInv, Connection, Reading
    <2> HIDE DEF ms, s
    <2>2. Len(ms) \in Nat /\ DOMAIN ms = 1..Len(ms) /\ DOMAIN got = 1..Len(got) /\ Len(got) \in Nat
      BY <2>1
    <2>3. DOMAIN got = {i \in DOMAIN ms : Len(UpTo(ms, i)) <= Len(s)}
      <3>1. \A i : i \in 1..Len(got) <=> i \in 1..Len(ms) /\ i <= Len(got)
        BY <2>1, <2>2
      <3> QED BY <2>1, <2>2, <3>1
    <2>4. ASSUME NEW i \in DOMAIN got PROVE Said(ms[i], got[i])
      <3>1. i \in 1..Len(got) /\ ms[i] \in WireMessage
        BY <2>1, <2>2
      <3> QED BY <2>1, <3>1, MessageKept
    <2> QED BY <2>3, <2>4 DEF ms, s, UpTo, Said
  <1> QED BY <1>1, WireAlways, PTL

-----------------------------------------------------------------------------
(* Deltas: what is found in the base *)

\* From offset o of base and t of target on, n bytes agree, but for the first
\* block, of which only the hash has been looked at.
Agrees(base, o, target, t, n) ==
    /\ o \in Nat /\ n \in Nat /\ n >= ChunkSize
    /\ o + n <= Len(base) /\ t + n <= Len(target)
    /\ \A i \in ChunkSize + 1..n : base[o + i] = target[t + i]

\* The extent of a match lies in both.
LEMMA ExtentIs ==
    ASSUME NEW base \in Seq(Byte), NEW target \in Seq(Byte), NEW o \in Nat, NEW t \in Nat,
           o + ChunkSize <= Len(base), t + ChunkSize <= Len(target)
    PROVE  Agrees(base, o, target, t, Extent(base, o, target, t))
  <1> DEFINE b == Len(base) - o
             c == Len(target) - t
             room == Min({b, c})
             good == {n \in ChunkSize..room : \A i \in ChunkSize + 1..n : base[o + i] = target[t + i]}
  <1>1. ChunkSize \in Nat /\ ChunkSize >= 1
    BY DeltaAssumption
  <1>2. b \in Nat /\ c \in Nat /\ b >= ChunkSize /\ c >= ChunkSize
    BY <1>1
  <1>3. room \in Nat /\ room >= ChunkSize /\ room <= b /\ room <= c
    <2> HIDE DEF b, c
    <2>1. \E m \in {b, c} : \A k \in {b, c} : m <= k
      BY <1>2
    <2>2. room \in {b, c} /\ \A k \in {b, c} : room <= k
      BY <2>1 DEF Min
    <2> QED BY <1>2, <2>2
  <1> HIDE DEF room
  <1>4. ChunkSize \in good
    <2>1. ChunkSize \in ChunkSize..room
      BY <1>1, <1>3
    <2>2. \A i \in ChunkSize + 1..ChunkSize : FALSE
      BY <1>1
    <2> QED BY <2>1, <2>2
  <1>5. good \in SUBSET (1..room) /\ good # {}
    <2>1. \A n \in ChunkSize..room : n \in 1..room
      BY <1>1, <1>3
    <2> QED BY <1>4, <2>1
  <1>6. Max(good) \in good
    <2> HIDE DEF good
    <2> QED BY <1>3, <1>5, Ends
  <1>7. Extent(base, o, target, t) = Max(good)
    BY DEF Extent, room
  <1> DEFINE n == Max(good)
  <1>8. n \in ChunkSize..room /\ \A i \in ChunkSize + 1..n : base[o + i] = target[t + i]
    BY <1>6
  <1>9. n \in Nat /\ n >= ChunkSize /\ n <= b /\ n <= c
    <2> HIDE DEF n, b, c
    <2> QED BY <1>1, <1>2, <1>3, <1>8
  <1> HIDE DEF n
  <1>10. o + n <= Len(base) /\ t + n <= Len(target)
    BY <1>9
  <1> QED BY <1>7, <1>8, <1>9, <1>10 DEF Agrees, n

\* The best match is none, or one of the candidates with its extent.
LEMMA BestMatchIs ==
    ASSUME NEW base \in Seq(Byte), NEW target \in Seq(Byte), NEW t \in 0..Len(target)
    PROVE  \/ BestMatch(base, target, t) = [offset |-> 0, length |-> 0]
           \/ \E o, n : /\ BestMatch(base, target, t) = [offset |-> o, length |-> n]
                        /\ o \in Candidates(base, RollingHash(Block(target, t)))
                        /\ Agrees(base, o, target, t, n)
  <1> DEFINE offsets == IF Len(target) - t < ChunkSize THEN {}
                        ELSE Candidates(base, RollingHash(Block(target, t)))
             length(o) == Extent(base, o, target, t)
             lengths == {length(o) : o \in offsets}
             longest == Max(lengths)
             firsts == {o \in offsets : length(o) = longest}
  <1>1. /\ BestMatch(base, target, t) = IF offsets = {} THEN [offset |-> 0, length |-> 0]
                                        ELSE [offset |-> Min(firsts), length |-> longest]
        /\ ChunkSize \in Nat /\ ChunkSize >= 1
    BY DeltaAssumption DEF BestMatch
  <1>2. CASE offsets = {}
    BY <1>1, <1>2
  <1>3. CASE offsets # {}
    <2>1. ~(Len(target) - t < ChunkSize) /\ offsets = Candidates(base, RollingHash(Block(target, t)))
      BY <1>3
    <2>2. Len(target) \in Nat /\ Len(base) \in Nat /\ t \in Nat /\ t + ChunkSize <= Len(target)
      BY <1>1, <2>1
    <2>3. \A o \in offsets : o \in 0..Len(base) - ChunkSize
      BY <2>1 DEF Candidates
    <2> HIDE DEF offsets
    <2>4. ASSUME NEW o \in offsets
          PROVE  o \in Nat /\ o <= Len(base) /\ Agrees(base, o, target, t, length(o))
      <3>1. o \in Nat /\ o + ChunkSize <= Len(base) /\ o <= Len(base)
        BY <1>1, <2>2, <2>3
      <3> QED BY <2>2, <3>1, ExtentIs
    <2> HIDE DEF length
    <2>5. ASSUME NEW o \in offsets PROVE length(o) \in 1..Len(base)
      <3>1. /\ length(o) \in Nat /\ length(o) >= ChunkSize /\ o \in Nat
            /\ o + length(o) <= Len(base)
        BY <2>4 DEF Agrees
      <3> QED BY <1>1, <2>2, <3>1
    <2>6. lengths \in SUBSET (1..Len(base)) /\ lengths # {}
      BY <1>3, <2>5
    <2> HIDE DEF lengths
    <2>7. longest \in lengths
      BY <2>2, <2>6, Ends
    <2>8. firsts # {} /\ firsts \in SUBSET Nat
      BY <2>4, <2>7 DEF lengths
    <2> DEFINE first == Min(firsts)
    <2>9. first \in firsts
      <3> HIDE DEF firsts
      <3>1. \E m \in firsts : \A k \in firsts : m <= k
        BY <2>8, LeastOf
      <3> QED BY <3>1 DEF Min
    <2> HIDE DEF first, longest
    <2>10. first \in offsets /\ length(first) = longest
      BY <2>9
    <2>11. Agrees(base, first, target, t, longest)
      BY <2>4, <2>10
    <2>12. BestMatch(base, target, t) = [offset |-> first, length |-> longest]
      BY <1>1, <1>3 DEF first
    <2> QED BY <2>1, <2>10, <2>11, <2>12
  <1> QED BY <1>2, <1>3

\* Where the hashes do not collide, the first block agrees too.
LEMMA MatchIs ==
    ASSUME NEW base \in Seq(Byte), NEW target \in Seq(Byte), ~Collision(base, target),
           NEW t \in 0..Len(target), NEW m, m = BestMatch(base, target, t), m.length >= ChunkSize
    PROVE  /\ m.offset \in Nat /\ m.length \in Nat \ {0}
           /\ m.offset + m.length <= Len(base) /\ t + m.length <= Len(target)
           /\ \A i \in 1..m.length : base[m.offset + i] = target[t + i]
  <1>1. ChunkSize \in Nat /\ ChunkSize >= 1
    BY DeltaAssumption
  <1>2. m # [offset |-> 0, length |-> 0]
    BY <1>1
  <1>3. PICK o, n : /\ m = [offset |-> o, length |-> n]
                    /\ o \in Candidates(base, RollingHash(Block(target, t)))
                    /\ Agrees(base, o, target, t, n)
    BY <1>2, BestMatchIs
  <1>4. /\ o \in Nat /\ n \in Nat /\ n >= ChunkSize
        /\ o + n <= Len(base) /\ t + n <= Len(target)
        /\ \A i \in ChunkSize + 1..n : base[o + i] = target[t + i]
    BY <1>3 DEF Agrees
  <1>5. m.offset = o /\ m.length = n /\ n \in Nat \ {0}
    BY <1>1, <1>3, <1>4
  <1>6. Block(base, o) = Block(target, t)
    <2>1. o \in 0..Len(base) - ChunkSize /\ t \in 0..Len(target) - ChunkSize
      BY <1>1, <1>4
    <2>2. RollingHash(Block(base, o)) = RollingHash(Block(target, t))
      BY <1>3 DEF Candidates
    <2> QED BY <2>1, <2>2 DEF Collision
  <1>7. ASSUME NEW i \in 1..ChunkSize PROVE base[o + i] = target[t + i]
    <2>1. o + ChunkSize <= Len(base) /\ t + ChunkSize <= Len(target) /\ t \in Nat
      BY <1>1, <1>4
    <2>2. Block(base, o)[i] = base[o + i]
      BY <1>1, <1>4, <2>1, Part DEF Block
    <2>3. Block(target, t)[i] = target[t + i]
      BY <1>1, <2>1, Part DEF Block
    <2> QED BY <1>6, <2>2, <2>3
  <1>8. ASSUME NEW i \in 1..n PROVE base[o + i] = target[t + i]
    <2>1. i \in 1..ChunkSize \/ i \in ChunkSize + 1..n
      BY <1>1, <1>4
    <2> QED BY <1>4, <1>7, <2>1
  <1> QED BY <1>4, <1>5, <1>8

-----------------------------------------------------------------------------
(* Operations that cover a part of the target *)

Operation ==
    [op : {"copy"}, offset : Nat, length : Nat, data : {<<>>}]
    \cup [op : {"insert"}, offset : {0}, length : Nat, data : Seq(Byte)]

\* Lengths that fit their field are kept.
LEMMA Fitting == ASSUME NEW n \in Nat, n < LengthSize PROVE n % LengthSize = n
  BY LengthAssumption, Z3

\* The operation stands for the bytes of target from t on, whose length fits.
Stands(base, op, target, t) ==
    /\ op \in Operation /\ t \in Nat /\ t + op.length <= Len(target)
    /\ Len(target) \in Nat /\ Len(target) < LengthSize
    /\ \/ /\ op.op = "copy" /\ op.offset + op.length <= Len(base)
          /\ \A i \in 1..op.length : base[op.offset + i] = target[t + i]
       \/ /\ op.op = "insert" /\ Len(op.data) = op.length
          /\ \A i \in 1..op.length : op.data[i] = target[t + i]

\* Each operation stands for the bytes from where the last one ended.
Steps(base, ops, target, p) ==
    /\ p \in [0..Len(ops) -> Nat]
    /\ \A i \in 1..Len(ops) : /\ Stands(base, ops[i], target, p[i - 1])
                              /\ p[i] = p[i - 1] + ops[i].length

\* The operations stand for the bytes of target between t and u.
Covers(base, ops, target, t, u) ==
    /\ ops \in Seq(Operation)
    /\ \E p : Steps(base, ops, target, p) /\ p[0] = t /\ p[Len(ops)] = u

\* No operation stands for nothing, and one for what it stands for.
LEMMA CoversOne ==
    ASSUME NEW base, NEW target, NEW t \in Nat
    PROVE  /\ Covers(base, <<>>, target, t, t)
           /\ \A op : Stands(base, op, target, t) => Covers(base, <<op>>, target, t, t + op.length)
  <1>1. Covers(base, <<>>, target, t, t)
    <2> DEFINE p == [i \in 0..0 |-> t]
    <2>1. p \in [0..0 -> Nat] /\ p[0] = t /\ Len(<<>>) = 0 /\ <<>> \in Seq(Operation)
      OBVIOUS
    <2>2. \A i \in 1..0 : FALSE
      OBVIOUS
    <2> HIDE DEF p
    <2>3. Steps(base, <<>>, target, p)
      BY <2>1, <2>2 DEF Steps
    <2> QED BY <2>1, <2>3 DEF Covers
  <1>2. ASSUME NEW op, Stands(base, op, target, t) PROVE Covers(base, <<op>>, target, t, t + op.length)
    <2> DEFINE p == [i \in 0..1 |-> IF i = 0 THEN t ELSE t + op.length]
    <2>1. op \in Operation
      BY <1>2 DEF Stands
    <2>2. op.length \in Nat
      BY <2>1 DEF Operation
    <2>3. p \in [0..1 -> Nat] /\ p[0] = t /\ p[1] = t + op.length
      BY <2>2
    <2>4. <<op>> \in Seq(Operation) /\ Len(<<op>>) = 1 /\ <<op>>[1] = op
      BY <2>1
    <2> HIDE DEF p
    <2>5. ASSUME NEW i \in 1..1
          PROVE  Stands(base, <<op>>[i], target, p[i - 1]) /\ p[i] = p[i - 1] + <<op>>[i].length
      <3>1. i = 1 /\ i - 1 = 0
        OBVIOUS
      <3>2. p[i - 1] = t /\ p[i] = t + op.length /\ <<op>>[i] = op
        BY <2>3, <2>4, <3>1
      <3> QED BY <1>2, <3>2
    <2>6. Steps(base, <<op>>, target, p)
      BY <2>3, <2>4, <2>5 DEF Steps
    <2> QED BY <2>3, <2>4, <2>6 DEF Covers
  <1> QED BY <1>1, <1>2

\* One after the other they stand for one part after the other.
LEMMA CoversJoined ==
    ASSUME NEW base, NEW target, NEW a, NEW b, NEW t, NEW u, NEW v,
           Covers(base, a, target, t, u), Covers(base, b, target, u, v)
    PROVE  Covers(base, a \o b, target, t, v)
  <1> DEFINE m == Len(a)
             n == Len(b)
             c == a \o b
  <1>1. a \in Seq(Operation) /\ b \in Seq(Operation) /\ m \in Nat /\ n \in Nat
    BY DEF Covers
  <1>2. PICK p : Steps(base, a, target, p) /\ p[0] = t /\ p[m] = u
    BY DEF Covers
  <1>3. PICK q : Steps(base, b, target, q) /\ q[0] = u /\ q[n] = v
    BY DEF Covers
  <1>4. /\ c \in Seq(Operation) /\ Len(c) = m + n
        /\ \A j \in 1..m : c[j] = a[j]
        /\ \A j \in 1..n : c[m + j] = b[j]
    BY <1>1, Joined
  <1>5. /\ p \in [0..m -> Nat] /\ q \in [0..n -> Nat]
        /\ \A i \in 1..m : Stands(base, a[i], target, p[i - 1]) /\ p[i] = p[i - 1] + a[i].length
        /\ \A i \in 1..n : Stands(base, b[i], target, q[i - 1]) /\ q[i] = q[i - 1] + b[i].length
    BY <1>2, <1>3 DEF Steps
  <1> HIDE DEF m, n, c
  <1> DEFINE r == [i \in 0..m + n |-> IF i <= m THEN p[i] ELSE q[i - m]]
  <1>6. /\ r \in [0..m + n -> Nat]
        /\ \A i \in 0..m : r[i] = p[i]
        /\ \A i \in 0..n : r[m + i] = q[i]
    <2>1. ASSUME NEW i \in 0..m + n PROVE r[i] \in Nat
      <3>1. CASE i <= m
        <4>1. i \in 0..m
          BY <1>1, <3>1
        <4> QED BY <1>5, <3>1, <4>1
      <3>2. CASE ~(i <= m)
        <4>1. i - m \in 0..n
          BY <1>1, <3>2
        <4> QED BY <1>5, <3>2, <4>1
      <3> QED BY <3>1, <3>2
    <2>2. ASSUME NEW i \in 0..m PROVE r[i] = p[i]
      <3>1. i <= m /\ i \in 0..m + n
        BY <1>1
      <3> QED BY <3>1
    <2>3. ASSUME NEW i \in 0..n PROVE r[m + i] = q[i]
      <3> DEFINE k == m + i
      <3>1. k \in 0..m + n /\ k - m = i /\ (k <= m <=> i = 0)
        BY <1>1
      <3>2. i = 0 => k = m
        BY <1>1
      <3> HIDE DEF k
      <3>3. r[k] = q[i]
        BY <1>2, <1>3, <3>1, <3>2
      <3> QED BY <3>3 DEF k
    <2> QED BY <2>1, <2>2, <2>3
  <1> HIDE DEF r
  <1>7. ASSUME NEW i \in 1..m + n
        PROVE  Stands(base, c[i], target, r[i - 1]) /\ r[i] = r[i - 1] + c[i].length
    <2>1. CASE i <= m
      <3>1. i \in 1..m /\ i - 1 \in 0..m /\ i \in 0..m
        BY <1>1, <2>1
      <3>2. r[i] = p[i] /\ r[i - 1] = p[i - 1] /\ c[i] = a[i]
        BY <1>4, <1>6, <3>1
      <3> QED BY <1>5, <3>1, <3>2
    <2>2. CASE ~(i <= m)
      <3>1. PICK j \in 1..n : i = m + j
        <4>1. i - m \in 1..n /\ m + (i - m) = i
          BY <1>1, <2>2
        <4> QED BY <4>1
      <3>2. j - 1 \in 0..n /\ j \in 0..n /\ i - 1 = m + (j - 1)
        BY <1>1, <3>1
      <3>3. r[m + (j - 1)] = q[j - 1] /\ r[m + j] = q[j] /\ c[m + j] = b[j]
        BY <1>4, <1>6, <3>2
      <3>4. r[i] = q[j] /\ r[i - 1] = q[j - 1] /\ c[i] = b[j]
        BY <3>1, <3>2, <3>3
      <3> QED BY <1>5, <3>4
    <2> QED BY <2>1, <2>2
  <1>8. r[0] = t /\ r[m + n] = v
    <2>1. 0 \in 0..m /\ n \in 0..n
      BY <1>1
    <2> QED BY <1>2, <1>3, <1>6, <2>1
  <1>9. Steps(base, c, target, r)
    BY <1>4, <1>6, <1>7 DEF Steps
  <1>10. Covers(base, c, target, t, v)
    BY <1>4, <1>8, <1>9 DEF Covers
  <1> QED BY <1>10 DEF c

\* The last one stands for the rest of what the others stand for.
LEMMA CoversLast ==
    ASSUME NEW base, NEW target, NEW ops, ops # <<>>, NEW t, NEW u, Covers(base, ops, target, t, u)
    PROVE  \E w : /\ Covers(base, Front(ops), target, t, w)
                  /\ Stands(base, Last(ops), target, w) /\ u = w + Last(ops).length
  <1> DEFINE n == Len(ops)
             front == Front(ops)
  <1>1. ops \in Seq(Operation) /\ n \in Nat /\ n # 0
    BY DEF Covers
  <1>2. PICK p : Steps(base, ops, target, p) /\ p[0] = t /\ p[n] = u
    BY DEF Covers
  <1>3. /\ p \in [0..n -> Nat]
        /\ \A i \in 1..n : Stands(base, ops[i], target, p[i - 1]) /\ p[i] = p[i - 1] + ops[i].length
    BY <1>2 DEF Steps
  <1>4. front \in Seq(Operation) /\ Len(front) = n - 1 /\ \A i \in 1..n - 1 : front[i] = ops[i]
    <2> DEFINE k == n - 1
    <2>1. k \in Nat /\ 0 \in Nat /\ 0 + k <= n /\ 0 + k = k /\ 0 + 1 = 1 /\ \A i \in 1..k : 0 + i = i
      BY <1>1
    <2>2. front = SubSeq(ops, 1, k)
      BY DEF Front
    <2> HIDE DEF k, front
    <2>3. /\ SubSeq(ops, 0 + 1, 0 + k) \in Seq(Operation)
          /\ Len(SubSeq(ops, 0 + 1, 0 + k)) = k
          /\ \A i \in 1..k : SubSeq(ops, 0 + 1, 0 + k)[i] = ops[0 + i]
      BY <1>1, <2>1, Part
    <2>4. front \in Seq(Operation) /\ Len(front) = k /\ \A i \in 1..k : front[i] = ops[i]
      BY <2>1, <2>2, <2>3
    <2> QED BY <2>4 DEF k
  <1>5. Last(ops) = ops[n]
    BY DEF Last
  <1> HIDE DEF n, front
  <1> DEFINE q == [i \in 0..n - 1 |-> p[i]]
  <1>6. n - 1 \in Nat /\ n - 1 \in 0..n - 1 /\ n \in 1..n /\ 0 \in 0..n - 1
        /\ \A i \in 0..n - 1 : i \in 0..n
    BY <1>1
  <1>7. q \in [0..n - 1 -> Nat] /\ q[0] = t /\ q[n - 1] = p[n - 1] /\ \A i \in 0..n - 1 : q[i] = p[i]
    BY <1>2, <1>3, <1>6
  <1> HIDE DEF q
  <1>8. ASSUME NEW i \in 1..n - 1
        PROVE  Stands(base, front[i], target, q[i - 1]) /\ q[i] = q[i - 1] + front[i].length
    <2>1. i - 1 \in 0..n - 1 /\ i \in 0..n - 1 /\ i \in 1..n
      BY <1>1
    <2>2. q[i - 1] = p[i - 1] /\ q[i] = p[i] /\ front[i] = ops[i]
      BY <1>4, <1>7, <2>1
    <2> QED BY <1>3, <2>1, <2>2
  <1>9. Steps(base, front, target, q)
    BY <1>4, <1>7, <1>8 DEF Steps
  <1>10. Covers(base, front, target, t, p[n - 1])
    BY <1>4, <1>7, <1>9 DEF Covers
  <1>11. Stands(base, ops[n], target, p[n - 1]) /\ u = p[n - 1] + ops[n].length
    BY <1>2, <1>3, <1>6
  <1> QED BY <1>5, <1>10, <1>11 DEF front

\* One turn of compactOps.
Merged(r, op) ==
    IF op.length = 0 THEN r
    ELSE IF r # <<>> /\ Last(r).op = "insert" /\ op.op = "insert"
    THEN Front(r) \o <<Insert(Last(r).data \o op.data)>>
    ELSE Append(r, op)

\* Merging keeps what the operations stand for.
LEMMA MergedCovers ==
    ASSUME NEW base, NEW target, NEW r, NEW op, NEW t, NEW u,
           Covers(base, r, target, t, u), Stands(base, op, target, u)
    PROVE  Covers(base, Merged(r, op), target, t, u + op.length)
  <1>1. r \in Seq(Operation) /\ op \in Operation /\ u \in Nat
    BY DEF Covers, Stands
  <1>4. CASE op.length = 0
    <2>1. Merged(r, op) = r /\ u + op.length = u
      BY <1>1, <1>4 DEF Merged
    <2> QED BY <2>1
  <1>2. CASE op.length # 0 /\ r # <<>> /\ Last(r).op = "insert" /\ op.op = "insert"
    <2>1. PICK w : /\ Covers(base, Front(r), target, t, w)
                   /\ Stands(base, Last(r), target, w) /\ u = w + Last(r).length
      BY <1>2, CoversLast
    <2> DEFINE l == Last(r)
               x == l.data
               y == op.data
               z == x \o y
               k == l.length
               m == op.length
    <2>2. /\ l \in Operation /\ w \in Nat /\ u + m <= Len(target)
          /\ Len(target) \in Nat /\ Len(target) < LengthSize
      BY <2>1 DEF Stands
    <2>3. /\ x \in Seq(Byte) /\ k \in Nat /\ l.op # "copy"
          /\ y \in Seq(Byte) /\ m \in Nat /\ op.op # "copy"
      BY <1>1, <1>2, <2>2 DEF Operation
    <2>4. Len(x) = k /\ \A i \in 1..k : x[i] = target[w + i]
      BY <2>1, <2>3 DEF Stands
    <2>5. Len(y) = m /\ \A i \in 1..m : y[i] = target[u + i]
      BY <2>3 DEF Stands
    <2>6. u = w + k
      BY <2>1
    <2>7. Merged(r, op) = Front(r) \o <<Insert(z)>>
      BY <1>2 DEF Merged
    <2>8. /\ z \in Seq(Byte) /\ Len(z) = Len(x) + Len(y)
          /\ \A j \in 1..Len(x) : z[j] = x[j]
          /\ \A j \in 1..Len(y) : z[Len(x) + j] = y[j]
      <3>1. x \in Seq(Byte) /\ y \in Seq(Byte)
        BY <2>3
      <3> HIDE DEF x, y
      <3> QED BY <3>1, Joined
    <2> HIDE DEF l, x, y, z, k, m
    <2>9. Len(z) = k + m /\ \A j \in 1..k : z[j] = x[j]
      BY <2>4, <2>5, <2>8
    <2>10. \A j \in 1..m : z[k + j] = y[j]
      BY <2>4, <2>5, <2>8
    <2>11. ASSUME NEW i \in 1..k + m PROVE z[i] = target[w + i]
      <3>1. CASE i <= k
        <4>1. i \in 1..k
          BY <2>3, <3>1
        <4> QED BY <2>4, <2>9, <4>1
      <3>2. CASE ~(i <= k)
        <4>1. PICK j \in 1..m : i = k + j
          <5>1. i - k \in 1..m /\ k + (i - k) = i
            BY <2>3, <3>2
          <5> QED BY <5>1
        <4>2. w + i = u + j
          BY <2>2, <2>3, <2>6, <4>1
        <4>3. z[k + j] = y[j] /\ y[j] = target[u + j]
          BY <2>5, <2>10
        <4> QED BY <4>1, <4>2, <4>3
      <3> QED BY <3>1, <3>2
    <2> DEFINE new == Insert(z)
    <2>13. w + (k + m) <= Len(target) /\ w + (k + m) = u + m
      BY <2>2, <2>3, <2>6
    <2>12. new.op = "insert" /\ new.offset = 0 /\ new.length = k + m /\ new.data = z /\ new \in Operation
      <3>1. Len(z) \in Nat
        BY <2>8
      <3>2. Len(z) < LengthSize
        BY <2>2, <2>3, <2>9, <2>13, <3>1, LengthAssumption
      <3>3. Len(z) % LengthSize = k + m
        BY <2>9, <3>1, <3>2, Fitting
      <3> QED BY <2>3, <2>8, <2>9, <3>1, <3>3 DEF Insert, Operation
    <2> HIDE DEF new
    <2>14. Stands(base, new, target, w)
      BY <2>2, <2>9, <2>11, <2>12, <2>13 DEF Stands
    <2>15. Covers(base, <<new>>, target, w, w + (k + m))
      BY <2>2, <2>12, <2>14, CoversOne
    <2>16. Covers(base, Front(r) \o <<new>>, target, t, w + (k + m))
      BY <2>1, <2>15, CoversJoined
    <2> QED BY <2>7, <2>13, <2>16 DEF new, m
  <1>3. CASE op.length # 0 /\ ~(r # <<>> /\ Last(r).op = "insert" /\ op.op = "insert")
    <2>1. Merged(r, op) = Append(r, op)
      BY <1>3 DEF Merged
    <2>2. Append(r, op) = r \o <<op>>
      BY <1>1
    <2>3. Covers(base, <<op>>, target, u, u + op.length)
      BY <1>1, CoversOne
    <2> QED BY <2>1, <2>2, <2>3, CoversJoined
  <1> QED BY <1>2, <1>3, <1>4

-----------------------------------------------------------------------------
(* ComputeDelta *)

\* The operation ComputeDelta appends at offset t of the target.
OpAt(base, target, t) ==
    LET m == BestMatch(base, target, t)
    IN  IF m.length >= ChunkSize THEN Copy(m.offset, m.length) ELSE Insert(<<target[t + 1]>>)

\* It stands for some bytes of the target from there on.
LEMMA OpAtStands ==
    ASSUME NEW base \in Seq(Byte), NEW target \in Seq(Byte), ~Collision(base, target),
           Len(target) < LengthSize, NEW t \in 0..Len(target) - 1
    PROVE  /\ Stands(base, OpAt(base, target, t), target, t)
           /\ OpAt(base, target, t).length \in Nat \ {0}
  <1> DEFINE m == BestMatch(base, target, t)
             op == OpAt(base, target, t)
  <1>1. /\ Len(target) \in Nat /\ t \in Nat /\ t \in 0..Len(target) /\ t + 1 <= Len(target)
        /\ Len(target) < LengthSize
    OBVIOUS
  <1>2. CASE m.length >= ChunkSize
    <2>1. /\ m.offset \in Nat /\ m.length \in Nat \ {0}
          /\ m.offset + m.length <= Len(base) /\ t + m.length <= Len(target)
          /\ \A i \in 1..m.length : base[m.offset + i] = target[t + i]
      <3>1. m = BestMatch(base, target, t)
        OBVIOUS
      <3>2. t \in 0..Len(target)
        BY <1>1
      <3> HIDE DEF m
      <3> QED BY <1>2, <3>1, <3>2, MatchIs
    <2>2. op = Copy(m.offset, m.length)
      BY <1>2 DEF OpAt
    <2> HIDE DEF m, op
    <2>3. /\ op \in Operation /\ op.op = "copy"
          /\ op.offset = m.offset /\ op.length = m.length
      <3>1. m.length < LengthSize
        BY <1>1, <2>1, LengthAssumption
      <3>2. m.length % LengthSize = m.length
        BY <2>1, <3>1, Fitting
      <3> QED BY <2>1, <2>2, <3>2 DEF Copy, Operation
    <2>4. Stands(base, op, target, t)
      BY <1>1, <2>1, <2>3 DEF Stands
    <2> QED BY <2>1, <2>3, <2>4 DEF op
  <1>3. CASE ~(m.length >= ChunkSize)
    <2> DEFINE data == <<target[t + 1]>>
    <2>1. target[t + 1] \in Byte
      BY <1>1
    <2>2. data \in Seq(Byte) /\ Len(data) = 1 /\ data[1] = target[t + 1]
      BY <2>1
    <2>3. op = Insert(data)
      BY <1>3 DEF OpAt
    <2> HIDE DEF data, op
    <2>4. /\ op \in Operation /\ op.op = "insert"
          /\ op.data = data /\ op.length = 1
      <3>1. 1 % LengthSize = 1
        BY LengthAssumption, Fitting
      <3> QED BY <2>2, <2>3, <3>1 DEF Insert, Operation
    <2>5. \A i \in 1..1 : data[i] = target[t + i]
      BY <2>2
    <2>6. Stands(base, op, target, t)
      BY <1>1, <2>2, <2>4, <2>5 DEF Stands
    <2> QED BY <2>4, <2>6 DEF op
  <1> QED BY <1>2, <1>3

\* A table that jumps ahead: each entry is one item, and the entry it leads to.
Ahead(n, jump) == \A t \in 0..n - 1 : jump[t] \in t + 1..n
IsJumpTable(n, item, jump, f) ==
    f = [t \in 0..n |-> IF t = n THEN <<>> ELSE <<item[t]>> \o f[jump[t]]]

\* There is one.
LEMMA JumpTableExists ==
    ASSUME NEW n \in Nat, NEW item, NEW jump, Ahead(n, jump)
    PROVE  \E f : IsJumpTable(n, item, jump, f)
  <1> DEFINE Entry(f, t) == IF t = n THEN <<>> ELSE <<item[t]>> \o f[jump[t]]
             Upto(k) == \E f : \A t \in n - k..n : f[t] = Entry(f, t)
  <1>1. \A t \in 0..n - 1 : jump[t] \in t + 1..n
    BY DEF Ahead
  <1>2. Upto(0)
    <2> DEFINE f == [t \in {n} |-> <<>>]
    <2>1. f[n] = <<>> /\ n - 0 = n /\ \A t \in n..n : t = n
      OBVIOUS
    <2> HIDE DEF f
    <2>2. \A t \in n - 0..n : f[t] = Entry(f, t)
      BY <2>1
    <2> QED BY <2>2
  <1>3. ASSUME NEW k \in 0..n - 1, Upto(k) PROVE Upto(k + 1)
    <2>1. PICK f : \A t \in n - k..n : f[t] = Entry(f, t)
      BY <1>3
    <2> DEFINE b == n - (k + 1)
               g == [t \in b..n |-> IF t = b THEN Entry(f, t) ELSE f[t]]
    <2>2. b \in 0..n - 1 /\ b + 1 = n - k /\ b # n
      OBVIOUS
    <2> HIDE DEF b
    <2>3. ASSUME NEW t \in b..n PROVE g[t] = Entry(g, t)
      <3>1. g[t] = Entry(f, t)
        <4>1. CASE t = b
          BY <4>1
        <4>2. CASE t # b
          <5>1. t \in n - k..n
            BY <2>2, <4>2
          <5>2. g[t] = f[t]
            BY <4>2
          <5> QED BY <2>1, <5>1, <5>2
        <4> QED BY <4>1, <4>2
      <3>2. CASE t = n
        BY <3>1, <3>2
      <3>3. CASE t # n
        <4> DEFINE j == jump[t]
        <4>1. t \in 0..n - 1 /\ j \in t + 1..n
          BY <1>1, <2>2, <3>3
        <4> HIDE DEF j
        <4>2. j \in b..n /\ j # b
          BY <2>2, <4>1
        <4>3. g[j] = f[j]
          BY <4>2
        <4> HIDE DEF g
        <4> QED BY <3>1, <3>3, <4>3 DEF j
      <3> QED BY <3>2, <3>3
    <2> HIDE DEF g, Entry
    <2> QED BY <2>3 DEF b
  <1> HIDE DEF Upto
  <1>4. Upto(n)
    <2> DEFINE good == {k \in 0..n : Upto(k)}
    <2>1. 0 \in good /\ n \in 0..n
      BY <1>2
    <2>2. \A k \in 0..n - 1 : k \in good => k + 1 \in good
      BY <1>3
    <2> HIDE DEF good
    <2>3. n \in good
      BY <2>1, <2>2, Induction
    <2> QED BY <2>3 DEF good
  <1>5. PICK f : \A t \in 0..n : f[t] = Entry(f, t)
    <2>1. n - n = 0
      OBVIOUS
    <2> QED BY <1>4, <2>1 DEF Upto
  <1> DEFINE g == [t \in 0..n |-> f[t]]
  <1>6. ASSUME NEW t \in 0..n PROVE g[t] = Entry(g, t)
    <2>1. g[t] = Entry(f, t)
      BY <1>5
    <2>2. CASE t = n
      BY <2>1, <2>2
    <2>3. CASE t # n
      <3> DEFINE j == jump[t]
      <3>1. t \in 0..n - 1 /\ j \in t + 1..n
        BY <1>1, <2>3
      <3> HIDE DEF j
      <3>2. j \in 0..n
        BY <3>1
      <3>3. g[j] = f[j]
        BY <3>2
      <3> HIDE DEF g
      <3> QED BY <2>1, <2>3, <3>3 DEF j
    <2> QED BY <2>2, <2>3
  <1>7. g = [t \in 0..n |-> Entry(g, t)]
    BY <1>6
  <1> HIDE DEF g
  <1> QED BY <1>7 DEF IsJumpTable

\* The table of ComputeDelta: the operations from each offset of the target on.
IsDelta(base, target, from) ==
    from = [t \in 0..Len(target) |->
        LET m == BestMatch(base, target, t)
        IN  CASE t = Len(target) -> <<>>
              [] t < Len(target) /\ m.length >= ChunkSize ->
                    <<Copy(m.offset, m.length)>> \o from[t + m.length]
              [] OTHER -> <<Insert(<<target[t + 1]>>)>> \o from[t + 1]]
DeltaTable(base, target) == CHOOSE from : IsDelta(base, target, from)

\* ComputeDelta compacts the table's first entry.
LEMMA ComputeIs ==
    \A base, target :
        ComputeDelta(base, target) =
            IF base = <<>> THEN <<Insert(target)>> ELSE CompactOps(DeltaTable(base, target)[0])
  BY DEF ComputeDelta, DeltaTable, IsDelta

\* An entry of the table, and the same with OpAt.
DeltaEntry(base, target, from, t) ==
    LET m == BestMatch(base, target, t)
    IN  CASE t = Len(target) -> <<>>
          [] t < Len(target) /\ m.length >= ChunkSize ->
                <<Copy(m.offset, m.length)>> \o from[t + m.length]
          [] OTHER -> <<Insert(<<target[t + 1]>>)>> \o from[t + 1]
OpEntry(base, target, from, t) ==
    IF t = Len(target) THEN <<>>
    ELSE <<OpAt(base, target, t)>> \o from[t + OpAt(base, target, t).length]

\* The two are the same.
LEMMA EntryIs ==
    ASSUME NEW base \in Seq(Byte), NEW target \in Seq(Byte), ~Collision(base, target),
           Len(target) < LengthSize, NEW from, NEW t \in 0..Len(target)
    PROVE  DeltaEntry(base, target, from, t) = OpEntry(base, target, from, t)
  <1> DEFINE n == Len(target)
             m == BestMatch(base, target, t)
  <1>1. n \in Nat /\ t \in Nat /\ t <= n
    OBVIOUS
  <1>2. CASE t = n
    BY <1>2 DEF DeltaEntry, OpEntry
  <1>3. CASE t # n /\ m.length >= ChunkSize
    <2>1. t < n
      BY <1>1, <1>3
    <2>2. OpAt(base, target, t) = Copy(m.offset, m.length) /\ Copy(m.offset, m.length).length = m.length
      <3>1. m.length \in Nat /\ t + m.length <= n
        <4>1. m = BestMatch(base, target, t)
          OBVIOUS
        <4> HIDE DEF m
        <4> QED BY <1>3, <4>1, MatchIs
      <3>2. m.length < LengthSize
        <4> HIDE DEF m
        <4> QED BY <1>1, <3>1, LengthAssumption
      <3>3. m.length % LengthSize = m.length
        <4> HIDE DEF m
        <4> QED BY <3>1, <3>2, Fitting
      <3> HIDE DEF n
      <3> QED BY <1>3, <3>3 DEF OpAt, Copy
    <2>3. DeltaEntry(base, target, from, t) = <<Copy(m.offset, m.length)>> \o from[t + m.length]
      <3> HIDE DEF m
      <3> QED BY <1>3, <2>1, Zenon DEF m, DeltaEntry
    <2> QED BY <1>3, <2>2, <2>3 DEF OpEntry
  <1>4. CASE t # n /\ ~(m.length >= ChunkSize)
    <2> DEFINE op == Insert(<<target[t + 1]>>)
    <2>1. OpAt(base, target, t) = op /\ op.length = 1
      <3>1. 1 % LengthSize = 1
        BY LengthAssumption, Fitting
      <3> QED BY <1>4, <3>1 DEF OpAt, Insert
    <2>2. DeltaEntry(base, target, from, t) = <<op>> \o from[t + 1]
      BY <1>4, Zenon DEF DeltaEntry
    <2> QED BY <1>4, <2>1, <2>2 DEF OpEntry
  <1> QED BY <1>2, <1>3, <1>4

\* The table of ComputeDelta exists.
LEMMA DeltaTableExists ==
    ASSUME NEW base \in Seq(Byte), NEW target \in Seq(Byte), ~Collision(base, target),
           Len(target) < LengthSize
    PROVE  IsDelta(base, target, DeltaTable(base, target))
  <1> DEFINE n == Len(target)
             item == [t \in 0..n - 1 |-> OpAt(base, target, t)]
             jump == [t \in 0..n - 1 |-> t + OpAt(base, target, t).length]
  <1>1. n \in Nat
    OBVIOUS
  <1>2. \A t \in 0..n - 1 : item[t] = OpAt(base, target, t) /\ jump[t] = t + OpAt(base, target, t).length
    OBVIOUS
  <1> HIDE DEF item, jump
  <1>3. Ahead(n, jump)
    <2>1. ASSUME NEW t \in 0..n - 1 PROVE jump[t] \in t + 1..n
      <3>1. /\ OpAt(base, target, t).length \in Nat \ {0}
            /\ t + OpAt(base, target, t).length <= n
        BY OpAtStands DEF Stands
      <3> QED BY <1>1, <1>2, <3>1
    <2> QED BY <2>1 DEF Ahead
  <1>4. PICK f : IsJumpTable(n, item, jump, f)
    <2> HIDE DEF n
    <2> QED BY <1>1, <1>3, JumpTableExists, Zenon
  <1>5. f = [t \in 0..n |-> IF t = n THEN <<>> ELSE <<item[t]>> \o f[jump[t]]]
    BY <1>4 DEF IsJumpTable
  <1>6. ASSUME NEW t \in 0..n
        PROVE  (IF t = n THEN <<>> ELSE <<item[t]>> \o f[jump[t]]) = DeltaEntry(base, target, f, t)
    <2>1. DeltaEntry(base, target, f, t) = OpEntry(base, target, f, t)
      BY EntryIs
    <2>2. t # n => t \in 0..n - 1
      BY <1>1
    <2> QED BY <1>2, <2>1, <2>2 DEF OpEntry
  <1>7. f = [t \in 0..n |-> DeltaEntry(base, target, f, t)]
    BY <1>5, <1>6
  <1>8. IsDelta(base, target, f)
    BY <1>7 DEF IsDelta, DeltaEntry
  <1> QED BY <1>8 DEF DeltaTable

\* From each offset on, the table's operations stand for the rest of the target.
LEMMA DeltaTableCovers ==
    ASSUME NEW base \in Seq(Byte), NEW target \in Seq(Byte), ~Collision(base, target),
           Len(target) < LengthSize
    PROVE  Covers(base, DeltaTable(base, target)[0], target, 0, Len(target))
  <1> DEFINE n == Len(target)
             f == DeltaTable(base, target)
             Fine(t) == Covers(base, f[t], target, t, n)
             bad == {k \in 0..n : ~Fine(n - k)}
  <1>1. n \in Nat
    OBVIOUS
  <1>2. ASSUME NEW t \in 0..n PROVE f[t] = OpEntry(base, target, f, t)
    <2>1. IsDelta(base, target, f)
      BY DeltaTableExists
    <2> HIDE DEF f
    <2>2. f = [s \in 0..n |-> DeltaEntry(base, target, f, s)]
      BY <2>1 DEF IsDelta, DeltaEntry
    <2>3. f[t] = DeltaEntry(base, target, f, t)
      BY <2>2, Zenon
    <2> QED BY <2>3, EntryIs
  <1> HIDE DEF f
  <1>3. bad = {}
    <2> SUFFICES ASSUME bad # {} PROVE FALSE
      OBVIOUS
    <2>1. bad \in SUBSET Nat
      BY <1>1
    <2>2. PICK k \in bad : \A j \in bad : k <= j
      <3> HIDE DEF bad
      <3> QED BY <2>1, LeastOf
    <2> DEFINE t == n - k
    <2>3. k \in 0..n /\ t \in 0..n /\ ~Fine(t) /\ k = n - t
      BY <1>1, <2>2
    <2> HIDE DEF t
    <2>4. CASE t = n
      <3>1. f[t] = <<>>
        BY <1>2, <2>3, <2>4 DEF OpEntry
      <3>2. Covers(base, <<>>, target, n, n)
        BY <1>1, CoversOne
      <3> QED BY <2>3, <2>4, <3>1, <3>2
    <2>5. CASE t # n
      <3>1. t \in 0..n - 1 /\ t \in Nat
        BY <1>1, <2>3, <2>5
      <3> DEFINE op == OpAt(base, target, t)
                 u == t + op.length
      <3>2. Stands(base, op, target, t) /\ op.length \in Nat \ {0}
        BY <3>1, OpAtStands
      <3>3. f[t] = <<op>> \o f[u]
        BY <1>2, <2>3, <2>5 DEF OpEntry
      <3>4. t + op.length <= n
        BY <3>2 DEF Stands
      <3> HIDE DEF op
      <3>5. n - u \in 0..n /\ ~(k <= n - u) /\ n - (n - u) = u
        BY <1>1, <2>3, <3>1, <3>2, <3>4
      <3>6. Fine(n - (n - u))
        <4> HIDE DEF Fine, u
        <4> QED BY <2>2, <3>5
      <3>7. Covers(base, f[u], target, u, n)
        BY <3>5, <3>6
      <3>8. Covers(base, <<op>>, target, t, u)
        BY <3>1, <3>2, CoversOne
      <3> HIDE DEF u
      <3>9. Covers(base, <<op>> \o f[u], target, t, n)
        BY <3>7, <3>8, CoversJoined
      <3> QED BY <2>3, <3>3, <3>9
    <2> QED BY <2>4, <2>5
  <1>4. n \in 0..n /\ n - n = 0
    BY <1>1
  <1>5. Fine(n - n)
    BY <1>3, <1>4
  <1> QED BY <1>4, <1>5 DEF f

\* compactOps goes through the operations: the table of its fold has what is
\* made of every set of them.
IsCompacting(ops, f) ==
    f = [s \in SUBSET DOMAIN ops |-> IF s = {} THEN <<>> ELSE Merged(f[s \ {Max(s)}], ops[Max(s)])]
Compacting(ops) == CHOOSE f : IsCompacting(ops, f)

\* compactOps is its entry for all operations, if there are two at least.
LEMMA CompactIs ==
    \A ops : CompactOps(ops) = IF Len(ops) <= 1 THEN ops ELSE Compacting(ops)[DOMAIN ops]
  BY DEF CompactOps, Compacting, IsCompacting, Merged, FoldLeft, MapThenFoldSet

\* One turn of the loops over operations, over letters and over chunks: what names the
\* loop.
Turn(what, r, x) ==
    IF what[1] = "compact" THEN Merged(r, x)
    ELSE IF what[1] = "pieces" THEN Letter(what[2], what[3], what[4], r, x)
    ELSE IF x \in what[2] THEN r ELSE Append(r, x)

\* What the loop starts with.
Base(what) == IF what[1] = "pieces" THEN [done |-> {}, now |-> <<>>] ELSE <<>>

\* The table of such a loop: what is made of every set of positions of v.
IsTable(what, v, f) ==
    f = [s \in SUBSET DOMAIN v |-> IF s = {} THEN Base(what) ELSE Turn(what, f[s \ {Max(s)}], v[Max(s)])]

\* There is one, whatever the loop.
LEMMA TableExists ==
    ASSUME NEW what, NEW v, Len(v) \in Nat, DOMAIN v = 1..Len(v) PROVE \E f : IsTable(what, v, f)
  <1> DEFINE n == Len(v)
             Entry(f, s) == IF s = {} THEN Base(what) ELSE Turn(what, f[s \ {Max(s)}], v[Max(s)])
             Upto(k) == \E f : \A s \in SUBSET (1..k) : f[s] = Entry(f, s)
  <1>1. Upto(0)
    <2> DEFINE f == [s \in {{}} |-> Base(what)]
    <2>1. \A s \in SUBSET (1..0) : s = {}
      OBVIOUS
    <2>2. f[{}] = Base(what)
      OBVIOUS
    <2> HIDE DEF f
    <2>3. \A s \in SUBSET (1..0) : f[s] = Entry(f, s)
      BY <2>1, <2>2
    <2> QED BY <2>3
  <1>2. ASSUME NEW k \in Nat, Upto(k) PROVE Upto(k + 1)
    <2>1. PICK f : \A s \in SUBSET (1..k) : f[s] = Entry(f, s)
      BY <1>2
    <2> DEFINE g == [s \in SUBSET (1..k + 1) |-> IF k + 1 \in s THEN Entry(f, s) ELSE f[s]]
    <2>2. ASSUME NEW s \in SUBSET (1..k + 1) PROVE g[s] = Entry(g, s)
      <3>1. CASE s = {}
        <4>1. k + 1 \notin s /\ s \in SUBSET (1..k)
          BY <3>1
        <4>2. g[s] = f[s] /\ f[s] = Entry(f, s)
          BY <2>1, <4>1
        <4> QED BY <3>1, <4>2
      <3>2. CASE s # {}
        <4> DEFINE r == s \ {Max(s)}
        <4>1. Max(s) \in s /\ \A j \in s : j <= Max(s)
          <5>1. k + 1 \in Nat
            OBVIOUS
          <5> QED BY <3>2, <5>1, Ends
        <4>2. r \in SUBSET (1..k) /\ r \in SUBSET (1..k + 1) /\ k + 1 \notin r
          <5>1. Max(s) \in 1..k + 1
            BY <4>1
          <5>2. ASSUME NEW j \in r PROVE j \in 1..k
            <6>1. j \in 1..k + 1 /\ j # Max(s) /\ j <= Max(s)
              BY <4>1
            <6> QED BY <5>1, <6>1
          <5> HIDE DEF r
          <5>3. r \in SUBSET (1..k)
            BY <5>2
          <5> QED BY <5>3
        <4>3. g[r] = f[r]
          BY <4>2
        <4>4. g[s] = Entry(f, s)
          <5>1. CASE k + 1 \in s
            BY <5>1
          <5>2. CASE k + 1 \notin s
            <6>1. s \in SUBSET (1..k)
              BY <5>2
            <6> QED BY <2>1, <5>2, <6>1
          <5> QED BY <5>1, <5>2
        <4> HIDE DEF g
        <4> QED BY <3>2, <4>3, <4>4
      <3> QED BY <3>1, <3>2
    <2> HIDE DEF g, Entry
    <2> QED BY <2>2
  <1> HIDE DEF Upto
  <1>3. Upto(n)
    <2> DEFINE good == {k \in Nat : Upto(k)}
    <2>1. 0 \in good /\ \A k \in 0..n - 1 : k \in good => k + 1 \in good
      BY <1>1, <1>2
    <2>2. n \in Nat /\ n \in 0..n
      OBVIOUS
    <2> HIDE DEF good, n
    <2>3. n \in good
      BY <2>1, <2>2, Induction
    <2> QED BY <2>3 DEF good
  <1>4. PICK f : \A s \in SUBSET (1..n) : f[s] = Entry(f, s)
    BY <1>3 DEF Upto
  <1> DEFINE g == [s \in SUBSET (1..n) |-> f[s]]
  <1>5. ASSUME NEW s \in SUBSET (1..n) PROVE g[s] = Entry(g, s)
    <2>1. CASE s = {}
      BY <1>4, <2>1
    <2>2. CASE s # {}
      <3> DEFINE r == s \ {Max(s)}
      <3>1. r \in SUBSET (1..n)
        OBVIOUS
      <3>2. g[r] = f[r] /\ g[s] = f[s]
        BY <3>1
      <3> HIDE DEF g
      <3> QED BY <1>4, <2>2, <3>2
    <2> QED BY <2>1, <2>2
  <1>6. IsTable(what, v, g)
    BY <1>5 DEF IsTable
  <1> QED BY <1>6

\* The table of compactOps exists.
LEMMA CompactingExists ==
    ASSUME NEW v, Len(v) \in Nat, DOMAIN v = 1..Len(v) PROVE IsCompacting(v, Compacting(v))
  <1>1. \A f : IsTable(<<"compact">>, v, f) <=> IsCompacting(v, f)
    BY DEF IsTable, IsCompacting, Turn, Base
  <1>2. \E f : IsTable(<<"compact">>, v, f)
    BY TableExists
  <1> QED BY <1>1, <1>2 DEF Compacting

\* Compacting keeps what the operations stand for.
LEMMA CompactCovers ==
    ASSUME NEW base, NEW target, NEW ops, NEW t \in Nat, NEW u, Covers(base, ops, target, t, u)
    PROVE  Covers(base, CompactOps(ops), target, t, u)
  <1> DEFINE n == Len(ops)
             f == Compacting(ops)
             e == [k \in 0..n |-> f[1..k]]
  <1>1. ops \in Seq(Operation) /\ n \in Nat /\ DOMAIN ops = 1..n
    BY DEF Covers
  <1>2. PICK p : Steps(base, ops, target, p) /\ p[0] = t /\ p[n] = u
    BY DEF Covers
  <1>3. /\ p \in [0..n -> Nat]
        /\ \A i \in 1..n : Stands(base, ops[i], target, p[i - 1]) /\ p[i] = p[i - 1] + ops[i].length
    BY <1>2 DEF Steps
  <1>4. ASSUME NEW s \in SUBSET (1..n)
        PROVE  f[s] = IF s = {} THEN <<>> ELSE Merged(f[s \ {Max(s)}], ops[Max(s)])
    <2>1. IsCompacting(ops, f)
      BY <1>1, CompactingExists
    <2> HIDE DEF f
    <2>2. f = [r \in SUBSET DOMAIN ops |-> IF r = {} THEN <<>> ELSE Merged(f[r \ {Max(r)}], ops[Max(r)])]
      BY <2>1 DEF IsCompacting
    <2>3. s \in SUBSET DOMAIN ops
      BY <1>1
    <2> QED BY <2>2, <2>3, Zenon
  <1> HIDE DEF f
  <1>5. e[0] = <<>>
    <2>1. 1..0 = {} /\ 0 \in 0..n
      BY <1>1
    <2> QED BY <1>4, <2>1
  <1>6. ASSUME NEW k \in 1..n PROVE e[k] = Merged(e[k - 1], ops[k])
    <2>1. 1..k \in SUBSET (1..n) /\ 1..k # {} /\ k \in 1..k /\ k \in Nat /\ k \in 0..n /\ k - 1 \in 0..n
      BY <1>1
    <2>2. Max(1..k) = k
      <3>1. Max(1..k) \in 1..k /\ \A j \in 1..k : j <= Max(1..k)
        BY <2>1, Ends
      <3> QED BY <2>1, <3>1
    <2>3. (1..k) \ {k} = 1..k - 1
      BY <2>1
    <2>4. f[1..k] = Merged(f[(1..k) \ {Max(1..k)}], ops[Max(1..k)])
      BY <1>4, <2>1
    <2>5. e[k] = f[1..k] /\ e[k - 1] = f[1..k - 1]
      BY <2>1
    <2> QED BY <2>2, <2>3, <2>4, <2>5
  <1>7. CompactOps(ops) = IF n <= 1 THEN ops ELSE e[n]
    BY <1>1, CompactIs DEF f
  <1> HIDE DEF e
  <1> DEFINE Fine(k) == Covers(base, e[k], target, t, p[k])
             good == {k \in 0..n : Fine(k)}
  <1>8. Fine(0)
    BY <1>2, <1>5, CoversOne
  <1>9. ASSUME NEW k \in 1..n, Fine(k - 1) PROVE Fine(k)
    <2>1. /\ Stands(base, ops[k], target, p[k - 1])
          /\ p[k] = p[k - 1] + ops[k].length
      BY <1>3
    <2>2. Covers(base, Merged(e[k - 1], ops[k]), target, t, p[k - 1] + ops[k].length)
      BY <1>9, <2>1, MergedCovers
    <2> QED BY <1>6, <2>1, <2>2
  <1> HIDE DEF Fine
  <1>10. n \in good
    <2>1. 0 \in good /\ n \in 0..n
      BY <1>1, <1>8
    <2>2. \A k \in 0..n - 1 : k \in good => k + 1 \in good
      <3> TAKE k \in 0..n - 1
      <3> HAVE k \in good
      <3> DEFINE j == k + 1
      <3>1. j \in 1..n /\ j - 1 = k /\ j \in 0..n
        BY <1>1
      <3> HIDE DEF j
      <3>2. Fine(j - 1)
        BY <3>1
      <3>3. Fine(j)
        BY <1>9, <3>1, <3>2
      <3> QED BY <3>1, <3>3 DEF j
    <2> HIDE DEF good, n
    <2> QED BY <1>1, <2>1, <2>2, Induction
  <1>11. Covers(base, e[n], target, t, u)
    BY <1>2, <1>10 DEF Fine
  <1> QED BY <1>7, <1>11

\* What ComputeDelta returns stands for the whole target.
LEMMA DeltaCovers ==
    ASSUME NEW base \in Seq(Byte), NEW target \in Seq(Byte), ~Collision(base, target),
           Len(target) < LengthSize
    PROVE  Covers(base, ComputeDelta(base, target), target, 0, Len(target))
  <1> DEFINE n == Len(target)
  <1>1. n \in Nat
    OBVIOUS
  <1>2. CASE base = <<>>
    <2> DEFINE op == Insert(target)
    <2>1. ComputeDelta(base, target) = <<op>>
      BY <1>2, ComputeIs
    <2>2. op \in Operation /\ op.op = "insert" /\ op.length = n /\ op.data = target
      <3>1. n % LengthSize = n
        BY <1>1, Fitting
      <3> QED BY <1>1, <3>1 DEF Insert, Operation
    <2> HIDE DEF op
    <2>3. 0 \in Nat /\ 0 + n = n /\ \A i \in 1..n : 0 + i = i
      BY <1>1
    <2>4. Stands(base, op, target, 0)
      BY <2>2, <2>3 DEF Stands
    <2>5. Covers(base, <<op>>, target, 0, 0 + op.length)
      BY <2>3, <2>4, CoversOne
    <2> QED BY <2>1, <2>2, <2>3, <2>5
  <1>3. CASE base # <<>>
    <2>1. ComputeDelta(base, target) = CompactOps(DeltaTable(base, target)[0])
      BY <1>3, ComputeIs
    <2> QED BY <2>1, DeltaTableCovers, CompactCovers
  <1> QED BY <1>2, <1>3

-----------------------------------------------------------------------------
(* EncodeDelta and Patch *)

\* s is the sequences of ss one after the other, each from where at says.
Laid(ss, at, s) ==
    /\ at \in [0..Len(ss) -> Nat] /\ at[0] = 0 /\ at[Len(ss)] = Len(s)
    /\ \A k \in 1..Len(ss) : /\ at[k] = at[k - 1] + Len(ss[k]) /\ at[k] <= Len(s)
                             /\ \A j \in 1..Len(ss[k]) : s[at[k - 1] + j] = ss[k][j]

\* One more sequence goes at the end.
LEMMA LaidAppend ==
    ASSUME NEW S, NEW ss \in Seq(Seq(S)), NEW at, NEW s \in Seq(S), NEW t \in Seq(S), Laid(ss, at, s)
    PROVE  \E up : Laid(Append(ss, t), up, s \o t)
  <1> DEFINE n == Len(ss)
             tt == Append(ss, t)
             u == s \o t
             a == Len(s)
             b == Len(t)
             up == [k \in 0..n + 1 |-> IF k = n + 1 THEN a + b ELSE at[k]]
  <1>1. n \in Nat /\ a \in Nat /\ b \in Nat
    OBVIOUS
  <1>2. Len(tt) = n + 1 /\ tt[n + 1] = t /\ \A k \in 1..n : tt[k] = ss[k] /\ Len(ss[k]) \in Nat
    OBVIOUS
  <1>3. /\ Len(u) = a + b /\ \A j \in 1..a : u[j] = s[j]
        /\ \A j \in 1..b : u[a + j] = t[j]
    BY Joined
  <1>4. /\ at \in [0..n -> Nat] /\ at[0] = 0 /\ at[n] = a
        /\ \A k \in 1..n : /\ at[k] = at[k - 1] + Len(ss[k]) /\ at[k] <= a
                           /\ \A j \in 1..Len(ss[k]) : s[at[k - 1] + j] = ss[k][j]
    BY DEF Laid
  <1> HIDE DEF n, tt, u, a
  <1>5. /\ up \in [0..n + 1 -> Nat] /\ up[n + 1] = a + b
        /\ \A k \in 0..n : up[k] = at[k]
    <2>1. ASSUME NEW k \in 0..n + 1 PROVE (IF k = n + 1 THEN a + b ELSE at[k]) \in Nat
      <3>1. k # n + 1 => k \in 0..n
        BY <1>1
      <3> QED BY <1>1, <1>4, <3>1
    <2>2. n + 1 \in 0..n + 1 /\ \A k \in 0..n : k \in 0..n + 1 /\ k # n + 1
      BY <1>1
    <2> QED BY <2>1, <2>2
  <1> HIDE DEF up, b
  <1>6. ASSUME NEW k \in 1..n + 1
        PROVE  /\ up[k] = up[k - 1] + Len(tt[k]) /\ up[k] <= a + b
               /\ \A j \in 1..Len(tt[k]) : u[up[k - 1] + j] = tt[k][j]
    <2>1. CASE k = n + 1
      <3>1. k - 1 = n /\ n \in 0..n
        BY <1>1, <2>1
      <3>2. up[k - 1] = a /\ up[k] = a + b /\ tt[k] = t
        BY <1>2, <1>4, <1>5, <2>1, <3>1
      <3> QED BY <1>1, <1>3, <3>2 DEF b
    <2>2. CASE k # n + 1
      <3>1. k \in 1..n /\ k \in 0..n /\ k - 1 \in 0..n
        BY <1>1, <2>2
      <3>2. up[k] = at[k] /\ up[k - 1] = at[k - 1] /\ tt[k] = ss[k] /\ Len(ss[k]) \in Nat
        BY <1>2, <1>5, <3>1
      <3>3. at[k] = at[k - 1] + Len(ss[k]) /\ at[k] <= a /\ at[k] \in Nat /\ at[k - 1] \in Nat
        BY <1>4, <3>1
      <3>4. ASSUME NEW j \in 1..Len(ss[k]) PROVE u[at[k - 1] + j] = ss[k][j]
        <4> DEFINE v == at[k - 1]
                   w == Len(ss[k])
        <4>3. v \in Nat /\ w \in Nat /\ v + w <= a /\ j \in 1..w
          BY <3>2, <3>3
        <4> HIDE DEF v, w
        <4>4. v + j \in 1..a
          BY <1>1, <4>3
        <4>1. at[k - 1] + j \in 1..a
          BY <4>4 DEF v
        <4>2. s[at[k - 1] + j] = ss[k][j]
          BY <1>4, <3>1
        <4> QED BY <1>3, <4>1, <4>2
      <3>5. at[k] <= a + b
        BY <1>1, <3>3
      <3> QED BY <3>2, <3>3, <3>4, <3>5
    <2> QED BY <2>1, <2>2
  <1>7. up[0] = 0
    <2>1. 0 \in 0..n
      BY <1>1
    <2> QED BY <1>4, <1>5, <2>1
  <1>8. Laid(tt, up, u)
    BY <1>2, <1>3, <1>5, <1>6, <1>7 DEF Laid
  <1> QED BY <1>8 DEF tt, u

\* FlattenSeq lays sequences out like that.
LEMMA FlattenLaid ==
    ASSUME NEW S, NEW ss \in Seq(Seq(S))
    PROVE  FlattenSeq(ss) \in Seq(S) /\ \E at : Laid(ss, at, FlattenSeq(ss))
  <1> DEFINE n == Len(ss)
             first(k) == [i \in 1..k |-> ss[i]]
             Fine(k) == FlattenSeq(first(k)) \in Seq(S) /\ \E at : Laid(first(k), at, FlattenSeq(first(k)))
             good == {k \in 0..n : Fine(k)}
  <1>1. n \in Nat /\ ss = first(n)
    OBVIOUS
  <1>2. \A k \in 0..n : first(k) \in Seq(Seq(S)) /\ Len(first(k)) = k
    <2> TAKE k \in 0..n
    <2>1. \A i \in 1..k : ss[i] \in Seq(S)
      OBVIOUS
    <2> QED BY <2>1
  <1>3. Fine(0)
    <2>1. first(0) = <<>>
      OBVIOUS
    <2>2. <<>> \in Seq(Seq(S)) /\ <<>> \in Seq(S)
      OBVIOUS
    <2>3. FlattenSeq(<<>>) = <<>>
      BY <2>2, FlattenAppend, Zenon
    <2> DEFINE at == [k \in 0..0 |-> 0]
    <2>4. Laid(<<>>, at, <<>>)
      <3>1. Len(<<>>) = 0 /\ at \in [0..0 -> Nat] /\ at[0] = 0
        OBVIOUS
      <3>2. \A k \in 1..0 : FALSE
        OBVIOUS
      <3> HIDE DEF at
      <3> QED BY <3>1, <3>2 DEF Laid
    <2> HIDE DEF at
    <2> QED BY <2>1, <2>2, <2>3, <2>4
  <1>4. ASSUME NEW k \in 0..n - 1, Fine(k) PROVE Fine(k + 1)
    <2>1. k \in 0..n /\ k + 1 \in 1..n /\ ss[k + 1] \in Seq(S)
      BY <1>1
    <2>2. first(k) \in Seq(Seq(S)) /\ Len(first(k)) = k
      BY <1>2, <2>1
    <2>3. first(k + 1) = Append(first(k), ss[k + 1])
      <3> DEFINE s == Append(first(k), ss[k + 1])
      <3>1. DOMAIN s = 1..k + 1 /\ s = [j \in 1..k + 1 |-> s[j]]
        BY <1>1, <2>1, <2>2
      <3>2. ASSUME NEW j \in 1..k + 1 PROVE s[j] = ss[j]
        BY <1>1, <2>1, <2>2
      <3> QED BY <3>1, <3>2
    <2>4. PICK at : Laid(first(k), at, FlattenSeq(first(k)))
      BY <1>4
    <2> DEFINE a == first(k)
               t == ss[k + 1]
               s == FlattenSeq(a)
    <2>5. a \in Seq(Seq(S)) /\ t \in Seq(S) /\ s \in Seq(S) /\ Laid(a, at, s)
      BY <1>4, <2>1, <2>2, <2>4
    <2>6. FlattenSeq(Append(a, t)) = s \o t
      <3> HIDE DEF a, t
      <3> QED BY <2>5, FlattenAppend
    <2>7. s \o t \in Seq(S)
      <3> HIDE DEF s, t
      <3> QED BY <2>5, Joined
    <2>8. \E up : Laid(Append(a, t), up, s \o t)
      <3> HIDE DEF a, s, t
      <3> QED BY <2>5, LaidAppend
    <2>9. first(k + 1) = Append(a, t)
      BY <2>3
    <2> HIDE DEF first, a, s, t
    <2> QED BY <2>6, <2>7, <2>8, <2>9
  <1> HIDE DEF Fine
  <1>5. n \in good
    <2>1. 0 \in good /\ n \in 0..n
      BY <1>1, <1>3
    <2>2. \A k \in 0..n - 1 : k \in good => k + 1 \in good
      <3> TAKE k \in 0..n - 1
      <3> HAVE k \in good
      <3>1. k + 1 \in 0..n
        BY <1>1
      <3> QED BY <1>4, <3>1
    <2> HIDE DEF good, n
    <2> QED BY <1>1, <2>1, <2>2, Induction
  <1>6. Fine(n)
    BY <1>5
  <1> HIDE DEF first, n
  <1> QED BY <1>1, <1>6 DEF Fine

\* The fields of an operation.
Code(op) ==
    IF op.op = "copy" THEN <<0, op.offset, op.length>>
    ELSE <<1, Len(op.data) % LengthSize>> \o op.data

\* They are numbers: the kind first, then the extent or the bytes.
LEMMA CodeIs ==
    ASSUME NEW op \in Operation, op.op = "insert" => Len(op.data) < LengthSize
    PROVE  /\ Code(op) \in Seq(Nat)
           /\ op.op = "copy" =>
                 /\ Len(Code(op)) = 3
                 /\ Code(op)[1] = 0 /\ Code(op)[2] = op.offset /\ Code(op)[3] = op.length
           /\ op.op = "insert" =>
                 /\ Len(Code(op)) = 2 + Len(op.data)
                 /\ Code(op)[1] = 1 /\ Code(op)[2] = Len(op.data)
                 /\ \A j \in 1..Len(op.data) : Code(op)[2 + j] = op.data[j]
  <1>1. CASE op.op = "copy"
    <2>1. op.offset \in Nat /\ op.length \in Nat /\ op.op # "insert"
      BY <1>1 DEF Operation
    <2>2. Code(op) = <<0, op.offset, op.length>>
      BY <1>1 DEF Code
    <2> QED BY <2>1, <2>2
  <1>2. CASE op.op # "copy"
    <2> DEFINE head == <<1, Len(op.data) % LengthSize>>
               rest == op.data
    <2>1. op.data \in Seq(Byte)
      BY <1>2 DEF Operation
    <2>2. rest \in Seq(Nat) /\ Len(op.data) \in Nat
      <3> DEFINE d == op.data
      <3>1. d \in Seq(Byte)
        BY <2>1
      <3> HIDE DEF d
      <3>2. \A i \in 1..Len(d) : d[i] \in Nat
        <4>1. \A i \in 1..Len(d) : d[i] \in Byte
          BY <3>1
        <4>2. \A x \in Byte : x \in Nat
          BY ByteAssumption
        <4> QED BY <4>1, <4>2
      <3>3. d \in Seq(Nat) /\ Len(d) \in Nat
        BY <3>1, <3>2
      <3> QED BY <3>3 DEF d
    <2>3. head \in Seq(Nat) /\ Len(head) = 2 /\ head[1] = 1 /\ head[2] = Len(op.data)
      <3>1. op.op = "insert"
        BY <1>2 DEF Operation
      <3> DEFINE n == Len(op.data)
      <3>2. n \in Nat /\ n < LengthSize
        BY <2>2, <3>1
      <3> HIDE DEF n
      <3>3. n % LengthSize = n
        BY <3>2, Fitting
      <3> QED BY <3>2, <3>3 DEF n
    <2>4. Code(op) = head \o rest
      BY <1>2 DEF Code
    <2> HIDE DEF head, rest
    <2>5. /\ head \o rest \in Seq(Nat) /\ Len(head \o rest) = Len(head) + Len(rest)
          /\ \A j \in 1..Len(head) : (head \o rest)[j] = head[j]
          /\ \A j \in 1..Len(rest) : (head \o rest)[Len(head) + j] = rest[j]
      <3>1. head \in Seq(Nat) /\ rest \in Seq(Nat)
        BY <2>2, <2>3
      <3> QED BY <3>1, Joined
    <2> QED BY <1>2, <2>2, <2>3, <2>4, <2>5 DEF rest
  <1> QED BY <1>1, <1>2

\* What Patch knows of the operation at field i: whether it is one, what it
\* stands for, and where the next one is.
SoundAt(base, fields, i) ==
    \/ fields[i] = 0 /\ i + 2 <= Len(fields) /\ fields[i + 1] + fields[i + 2] <= Len(base)
    \/ fields[i] = 1 /\ i + 1 <= Len(fields) /\ i + 1 + fields[i + 1] <= Len(fields)
BytesAt(base, fields, i) ==
    IF fields[i] = 0 THEN SubSeq(base, fields[i + 1] + 1, fields[i + 1] + fields[i + 2])
    ELSE SubSeq(fields, i + 2, i + 1 + fields[i + 1])
NextAt(fields, i) == IF fields[i] = 0 THEN i + 3 ELSE i + 2 + fields[i + 1]

\* The table of Patch: what it makes of the fields from each one on.
PatchEntry(base, fields, from, i) ==
    LET rest == from[NextAt(fields, i)]
    IN  IF i > Len(fields) THEN [ok |-> TRUE, data |-> <<>>]
        ELSE IF SoundAt(base, fields, i) /\ rest.ok
             THEN [ok |-> TRUE, data |-> BytesAt(base, fields, i) \o rest.data]
        ELSE Bad
IsPatch(base, fields, from) == from = [i \in 1..Len(fields) + 1 |-> PatchEntry(base, fields, from, i)]
PatchTable(base, fields) == CHOOSE from : IsPatch(base, fields, from)

\* Patch is the table's first entry.
LEMMA PatchIs == \A base, fields : Patch(base, fields) = PatchTable(base, fields)[1]
  BY DEF Patch, PatchTable, IsPatch, PatchEntry, SoundAt, BytesAt, NextAt

\* An entry of the table depends on later ones only.
LEMMA PatchLater ==
    ASSUME NEW base, NEW fields \in Seq(Nat), NEW i \in 1..Len(fields) + 1, NEW f, NEW g,
           \A j \in i + 1..Len(fields) + 1 : f[j] = g[j]
    PROVE  PatchEntry(base, fields, f, i) = PatchEntry(base, fields, g, i)
  <1> DEFINE n == Len(fields)
             k == NextAt(fields, i)
  <1>1. n \in Nat /\ i \in Nat /\ i >= 1
    OBVIOUS
  <1>2. CASE i > n
    BY <1>2, Zenon DEF PatchEntry
  <1>3. CASE ~(i > n) /\ SoundAt(base, fields, i)
    <2>1. k \in i + 1..n + 1
      <3>1. CASE fields[i] = 0
        <4>1. i + 2 <= n /\ k = i + 3
          BY <1>3, <3>1 DEF SoundAt, NextAt
        <4> QED BY <1>1, <4>1
      <3>2. CASE fields[i] # 0
        <4>1. i + 1 <= n /\ i + 1 + fields[i + 1] <= n /\ k = i + 2 + fields[i + 1]
          BY <1>3, <3>2 DEF SoundAt, NextAt
        <4>2. fields[i + 1] \in Nat
          BY <1>1, <4>1
        <4> QED BY <1>1, <4>1, <4>2
      <3> QED BY <3>1, <3>2
    <2>2. f[k] = g[k]
      <3> HIDE DEF k
      <3> QED BY <2>1
    <2> QED BY <1>3, <2>2, Zenon DEF PatchEntry
  <1>4. CASE ~(i > n) /\ ~SoundAt(base, fields, i)
    BY <1>4, Zenon DEF PatchEntry
  <1> QED BY <1>2, <1>3, <1>4

\* The table of Patch exists.
LEMMA PatchTableExists ==
    ASSUME NEW base, NEW fields \in Seq(Nat) PROVE IsPatch(base, fields, PatchTable(base, fields))
  <1> DEFINE n == Len(fields) + 1
             Upto(k) == \E f : \A i \in n - k..n : i >= 1 => f[i] = PatchEntry(base, fields, f, i)
  <1>1. n \in Nat /\ n >= 1 /\ n = Len(fields) + 1
    OBVIOUS
  <1>2. Upto(0)
    <2> DEFINE f == [i \in {n} |-> [ok |-> TRUE, data |-> <<>>]]
    <2>1. f[n] = [ok |-> TRUE, data |-> <<>>] /\ n - 0 = n /\ \A i \in n..n : i = n
      BY <1>1
    <2>2. n > Len(fields)
      BY <1>1
    <2> HIDE DEF f, n
    <2>3. PatchEntry(base, fields, f, n) = [ok |-> TRUE, data |-> <<>>]
      BY <2>2 DEF PatchEntry
    <2> QED BY <2>1, <2>3
  <1>3. ASSUME NEW k \in 0..n - 1, Upto(k) PROVE Upto(k + 1)
    <2>1. PICK f : \A i \in n - k..n : i >= 1 => f[i] = PatchEntry(base, fields, f, i)
      BY <1>3
    <2> DEFINE b == n - (k + 1)
               g == [i \in b..n |-> IF i = b THEN PatchEntry(base, fields, f, i) ELSE f[i]]
    <2>2. b \in 0..n - 1 /\ b + 1 = n - k /\ b # n
      BY <1>1
    <2> HIDE DEF b
    <2>3. ASSUME NEW i \in b..n, i >= 1 PROVE g[i] = PatchEntry(base, fields, g, i)
      <3>1. g[i] = PatchEntry(base, fields, f, i)
        <4>1. CASE i = b
          BY <4>1
        <4>2. CASE i # b
          <5>1. i \in n - k..n
            BY <1>1, <2>2, <4>2
          <5>2. g[i] = f[i]
            BY <4>2
          <5> QED BY <2>1, <2>3, <5>1, <5>2
        <4> QED BY <4>1, <4>2
      <3>2. ASSUME NEW j \in i + 1..n PROVE g[j] = f[j]
        <4>1. j \in b..n /\ j # b
          BY <1>1, <2>2
        <4> QED BY <4>1
      <3>3. i \in 1..Len(fields) + 1
        BY <1>1, <2>2, <2>3
      <3> HIDE DEF g
      <3>4. PatchEntry(base, fields, g, i) = PatchEntry(base, fields, f, i)
        BY <3>2, <3>3, PatchLater
      <3> QED BY <3>1, <3>4
    <2> HIDE DEF g
    <2> QED BY <2>3 DEF b
  <1> HIDE DEF Upto
  <1>4. Upto(n)
    <2> DEFINE good == {k \in 0..n : Upto(k)}
    <2>1. 0 \in good /\ n \in 0..n
      BY <1>1, <1>2
    <2>2. \A k \in 0..n - 1 : k \in good => k + 1 \in good
      <3> TAKE k \in 0..n - 1
      <3> HAVE k \in good
      <3>1. k + 1 \in 0..n
        BY <1>1
      <3> QED BY <1>3, <3>1
    <2> HIDE DEF good, n
    <2>3. n \in good
      BY <1>1, <2>1, <2>2, Induction
    <2> QED BY <2>3 DEF good
  <1>5. PICK f : \A i \in 1..n : f[i] = PatchEntry(base, fields, f, i)
    <2>1. n - n = 0 /\ \A i \in 1..n : i \in 0..n /\ i >= 1
      BY <1>1
    <2> QED BY <1>4, <2>1 DEF Upto
  <1> DEFINE g == [i \in 1..n |-> f[i]]
  <1>6. ASSUME NEW i \in 1..n PROVE g[i] = PatchEntry(base, fields, g, i)
    <2>1. g[i] = f[i] /\ f[i] = PatchEntry(base, fields, f, i)
      BY <1>5
    <2>2. \A j \in i + 1..Len(fields) + 1 : g[j] = f[j]
      BY <1>1
    <2> HIDE DEF g
    <2>3. PatchEntry(base, fields, g, i) = PatchEntry(base, fields, f, i)
      BY <2>2, PatchLater
    <2> QED BY <2>1, <2>3
  <1>7. g = [i \in 1..n |-> PatchEntry(base, fields, g, i)]
    BY <1>6
  <1> HIDE DEF g
  <1>8. IsPatch(base, fields, g)
    BY <1>7 DEF IsPatch
  <1> QED BY <1>8 DEF PatchTable

\* The first bytes of a sequence, and the rest, are the sequence.
LEMMA PartsJoined ==
    ASSUME NEW S, NEW s \in Seq(S), NEW i \in Nat, NEW m \in Nat, i + m <= Len(s)
    PROVE  SubSeq(s, i + 1, i + m) \o SubSeq(s, i + m + 1, Len(s)) = SubSeq(s, i + 1, Len(s))
  <1> DEFINE n == Len(s)
             a == SubSeq(s, i + 1, i + m)
             b == SubSeq(s, i + m + 1, n)
             c == SubSeq(s, i + 1, n)
             k == n - (i + m)
             h == n - i
             im == i + m
  <1>1. /\ n \in Nat /\ k \in Nat /\ h \in Nat /\ m + k = h /\ i + h = n /\ i + h <= n
        /\ im \in Nat /\ im + k = n /\ im + k <= n
    OBVIOUS
  <1>2. a \in Seq(S) /\ Len(a) = m /\ \A j \in 1..m : a[j] = s[i + j]
    BY Part
  <1>3. b \in Seq(S) /\ Len(b) = k /\ \A j \in 1..k : b[j] = s[im + j]
    <2> HIDE DEF k
    <2>1. /\ SubSeq(s, im + 1, im + k) \in Seq(S) /\ Len(SubSeq(s, im + 1, im + k)) = k
          /\ \A j \in 1..k : SubSeq(s, im + 1, im + k)[j] = s[im + j]
      <3> HIDE DEF im, n
      <3>1. im + k <= Len(s)
        BY <1>1 DEF n
      <3> QED BY <1>1, <3>1, Part
    <2> QED BY <1>1, <2>1
  <1>4. c \in Seq(S) /\ Len(c) = h /\ \A j \in 1..h : c[j] = s[i + j]
    <2> HIDE DEF h
    <2>1. /\ SubSeq(s, i + 1, i + h) \in Seq(S) /\ Len(SubSeq(s, i + 1, i + h)) = h
          /\ \A j \in 1..h : SubSeq(s, i + 1, i + h)[j] = s[i + j]
      <3> HIDE DEF n
      <3>1. i + h <= Len(s)
        BY <1>1 DEF n
      <3> QED BY <1>1, <3>1, Part
    <2> QED BY <1>1, <2>1
  <1> HIDE DEF a, b, c
  <1>5. /\ a \o b \in Seq(S) /\ Len(a \o b) = Len(a) + Len(b)
        /\ \A j \in 1..Len(a) : (a \o b)[j] = a[j]
        /\ \A j \in 1..Len(b) : (a \o b)[Len(a) + j] = b[j]
    BY <1>2, <1>3, Joined
  <1> HIDE DEF n, k, h, im
  <1>6. ASSUME NEW j \in 1..h PROVE (a \o b)[j] = c[j]
    <2>1. CASE j <= m
      <3>1. j \in 1..m
        BY <1>1, <2>1
      <3> QED BY <1>2, <1>4, <1>5, <3>1
    <2>2. CASE ~(j <= m)
      <3>1. PICK l \in 1..k : j = m + l
        <4>1. j - m \in 1..k /\ m + (j - m) = j
          BY <1>1, <2>2
        <4> QED BY <4>1
      <3>2. im + l = i + j
        BY <1>1, <3>1 DEF im
      <3>3. (a \o b)[m + l] = b[l] /\ b[l] = s[im + l]
        BY <1>2, <1>3, <1>5
      <3> QED BY <1>4, <3>1, <3>2, <3>3
    <2> QED BY <2>1, <2>2
  <1>7. Len(a \o b) = Len(c)
    BY <1>1, <1>2, <1>3, <1>4, <1>5
  <1>8. a \o b = c
    BY <1>4, <1>5, <1>6, <1>7, SeqEqual
  <1> QED BY <1>8 DEF a, b, c, n

\* The l members after the first i, and two sequences with such parts alike.
After(s, i, l) == SubSeq(s, i + 1, i + l)
Alike(s, i, r, j, l) ==
    i + l <= Len(s) /\ j + l <= Len(r) /\ \A k \in 1..l : s[i + k] = r[j + k]

\* Parts that are alike are the same sequence.
LEMMA SamePart ==
    ASSUME NEW S, NEW s \in Seq(S), NEW r \in Seq(S), NEW i \in Nat, NEW j \in Nat, NEW l \in Nat,
           Alike(s, i, r, j, l)
    PROVE  After(s, i, l) = After(r, j, l)
  <1> DEFINE x == SubSeq(s, i + 1, i + l)
             y == SubSeq(r, j + 1, j + l)
  <1>1. x \in Seq(S) /\ Len(x) = l /\ \A k \in 1..l : x[k] = s[i + k]
    BY Part DEF Alike
  <1>2. y \in Seq(S) /\ Len(y) = l /\ \A k \in 1..l : y[k] = r[j + k]
    BY Part DEF Alike
  <1> HIDE DEF x, y
  <1>3. \A k \in 1..l : x[k] = y[k]
    BY <1>1, <1>2 DEF Alike
  <1>4. x = y
    BY <1>1, <1>2, <1>3, SeqEqual
  <1> QED BY <1>4 DEF After, x, y

\* The fields after the first a are those of the operation, and Patch reads it
\* there, with the bytes it stands for.
WrittenAt(fields, op, a) ==
    /\ a + Len(Code(op)) <= Len(fields)
    /\ \A j \in 1..Len(Code(op)) : fields[a + j] = Code(op)[j]
ReadAt(base, target, fields, op, a, t) ==
    /\ SoundAt(base, fields, a + 1) /\ a + 1 <= Len(fields)
    /\ NextAt(fields, a + 1) = a + Len(Code(op)) + 1
    /\ BytesAt(base, fields, a + 1) = After(target, t, op.length)

\* What stands for a part of a text of a length that fits is itself of one.
LEMMA DataFits ==
    ASSUME NEW base, NEW op, NEW target, NEW t, Stands(base, op, target, t)
    PROVE  op.op = "insert" => Len(op.data) < LengthSize
  <1>1. op \in Operation /\ t \in Nat /\ t + op.length <= Len(target)
        /\ Len(target) \in Nat /\ Len(target) < LengthSize
    BY DEF Stands
  <1>2. op.length \in Nat
    BY <1>1 DEF Operation
  <1>3. op.length < LengthSize
    BY <1>1, <1>2, LengthAssumption
  <1>4. op.op = "insert" => Len(op.data) = op.length
    BY DEF Stands
  <1> QED BY <1>3, <1>4

\* An operation written somewhere is read there.
LEMMA OperationRead ==
    ASSUME NEW base \in Seq(Nat), NEW target \in Seq(Nat), NEW fields \in Seq(Nat), NEW a \in Nat,
           NEW op \in Operation, NEW t \in Nat, Stands(base, op, target, t), WrittenAt(fields, op, a)
    PROVE  ReadAt(base, target, fields, op, a, t)
  <1>4. a + Len(Code(op)) <= Len(fields)
    BY DEF WrittenAt
  <1>5. \A j \in 1..Len(Code(op)) : fields[a + j] = Code(op)[j]
    BY DEF WrittenAt
  <1> DEFINE l == op.length
             n == Len(fields)
             i == a + 1
  <1>1. l \in Nat /\ n \in Nat /\ t + l <= Len(target)
    BY DEF Operation, Stands
  <1>2. CASE op.op = "copy"
    <2> DEFINE o == op.offset
    <2>1. o \in Nat /\ o + l <= Len(base) /\ \A j \in 1..l : base[o + j] = target[t + j]
      BY <1>2 DEF Operation, Stands
    <2>2. Len(Code(op)) = 3 /\ Code(op)[1] = 0 /\ Code(op)[2] = o /\ Code(op)[3] = l
      BY <1>2, CodeIs, DataFits
    <2> HIDE DEF o, l, n
    <2>3. fields[a + 1] = 0 /\ fields[a + 2] = o /\ fields[a + 3] = l
      <3>1. 1 \in 1..Len(Code(op)) /\ 2 \in 1..Len(Code(op)) /\ 3 \in 1..Len(Code(op))
        BY <2>2
      <3> QED BY <1>5, <2>2, <3>1
    <2>4. fields[i] = 0 /\ fields[i + 1] = o /\ fields[i + 2] = l
      <3>1. i = a + 1 /\ i + 1 = a + 2 /\ i + 2 = a + 3
        OBVIOUS
      <3> HIDE DEF i
      <3> QED BY <2>3, <3>1
    <2>5. i + 2 <= n /\ a + 1 <= n /\ i + 3 = a + 3 + 1
      BY <1>1, <1>4, <2>2 DEF n
    <2> HIDE DEF i
    <2>6. SoundAt(base, fields, i)
      BY <2>1, <2>4, <2>5 DEF SoundAt, n
    <2>7. NextAt(fields, i) = a + Len(Code(op)) + 1
      BY <2>2, <2>4, <2>5 DEF NextAt
    <2>8. BytesAt(base, fields, i) = After(base, o, l)
      BY <2>4 DEF BytesAt, After
    <2>9. After(base, o, l) = After(target, t, l)
      <3>1. Alike(base, o, target, t, l)
        BY <1>1, <2>1 DEF Alike
      <3> QED BY <1>1, <2>1, <3>1, SamePart
    <2> QED BY <2>5, <2>6, <2>7, <2>8, <2>9 DEF ReadAt, i, l, n
  <1>3. CASE op.op # "copy"
    <2> DEFINE d == op.data
    <2>1. op.op = "insert"
      BY <1>3 DEF Operation
    <2>2. Len(d) = l /\ \A j \in 1..l : d[j] = target[t + j]
      BY <1>3 DEF Stands
    <2>3. /\ Len(Code(op)) = 2 + l /\ Code(op)[1] = 1 /\ Code(op)[2] = l
          /\ \A j \in 1..l : Code(op)[2 + j] = d[j]
      BY <2>1, <2>2, CodeIs, DataFits
    <2> HIDE DEF d, l
    <2>4. fields[a + 1] = 1 /\ fields[a + 2] = l
      <3>1. 1 \in 1..Len(Code(op)) /\ 2 \in 1..Len(Code(op))
        BY <1>1, <2>3
      <3> QED BY <1>5, <2>3, <3>1
    <2>5. ASSUME NEW j \in 1..l PROVE fields[(i + 1) + j] = target[t + j]
      <3>1. 2 + j \in 1..Len(Code(op)) /\ (i + 1) + j = a + (2 + j)
        BY <1>1, <2>3
      <3>2. fields[a + (2 + j)] = Code(op)[2 + j]
        BY <1>5, <3>1
      <3>3. Code(op)[2 + j] = target[t + j]
        BY <2>2, <2>3
      <3> QED BY <3>1, <3>2, <3>3
    <2>6. i \in Nat /\ i + 1 \in Nat /\ i + 1 <= n /\ a + 1 <= n /\ (i + 1) + l <= n /\ i + 2 + l = a + (2 + l) + 1
      BY <1>1, <1>4, <2>3 DEF n
    <2>7. fields[i] = 1 /\ fields[i + 1] = l
      <3>1. i = a + 1 /\ i + 1 = a + 2
        OBVIOUS
      <3> HIDE DEF i
      <3> QED BY <2>4, <3>1
    <2> HIDE DEF i, n
    <2>8. SoundAt(base, fields, i)
      BY <2>6, <2>7 DEF SoundAt, n
    <2>9. NextAt(fields, i) = a + Len(Code(op)) + 1
      BY <2>3, <2>6, <2>7 DEF NextAt
    <2>10. BytesAt(base, fields, i) = After(fields, i + 1, l)
      <3>1. BytesAt(base, fields, i) = SubSeq(fields, i + 2, i + 1 + l)
        BY <2>7 DEF BytesAt
      <3>2. (i + 1) + 1 = i + 2
        BY <2>6
      <3> QED BY <3>1, <3>2 DEF After
    <2>11. After(fields, i + 1, l) = After(target, t, l)
      <3> DEFINE o == i + 1
      <3>1. Alike(fields, o, target, t, l) /\ o \in Nat
        BY <1>1, <2>5, <2>6 DEF Alike, n
      <3> HIDE DEF o
      <3>2. After(fields, o, l) = After(target, t, l)
        BY <1>1, <3>1, SamePart
      <3> QED BY <3>2 DEF o
    <2> QED BY <2>6, <2>8, <2>9, <2>10, <2>11 DEF ReadAt, i, l, n
  <1> QED BY <1>2, <1>3

\* Patch gives back what the encoded operations stand for.
LEMMA PatchCovered ==
    ASSUME NEW base \in Seq(Byte), NEW target \in Seq(Byte), NEW ops,
           Covers(base, ops, target, 0, Len(target))
    PROVE  Patch(base, EncodeDelta(ops)) = [ok |-> TRUE, data |-> target]
  <1> DEFINE m == Len(ops)
             T == Len(target)
             codes == [i \in 1..m |-> Code(ops[i])]
             fields == FlattenSeq(codes)
             n == Len(fields)
             from == PatchTable(base, fields)
             after(t) == [ok |-> TRUE, data |-> SubSeq(target, t + 1, T)]
  <1>1. ops \in Seq(Operation) /\ m \in Nat /\ T \in Nat /\ \A k \in 1..m : ops[k] \in Operation
    BY DEF Covers
  <1>2. PICK p : Steps(base, ops, target, p) /\ p[0] = 0 /\ p[m] = T
    BY DEF Covers
  <1>3. /\ p \in [0..m -> Nat]
        /\ \A k \in 1..m : Stands(base, ops[k], target, p[k - 1]) /\ p[k] = p[k - 1] + ops[k].length
    BY <1>2 DEF Steps
  <1>4. codes \in Seq(Seq(Nat)) /\ Len(codes) = m
    <2>1. \A i \in 1..m : Code(ops[i]) \in Seq(Nat)
      BY <1>1, <1>3, CodeIs, DataFits
    <2> QED BY <1>1, <2>1
  <1>5. EncodeDelta(ops) = fields
    BY DEF EncodeDelta, Concat, Code
  <1>6. \A k \in 1..m : codes[k] = Code(ops[k])
    OBVIOUS
  <1> HIDE DEF codes
  <1>7. fields \in Seq(Nat) /\ \E at : Laid(codes, at, fields)
    BY <1>4, FlattenLaid
  <1>8. PICK at : Laid(codes, at, fields)
    BY <1>7
  <1>9. n \in Nat /\ base \in Seq(Nat) /\ target \in Seq(Nat)
    <2>1. n \in Nat
      BY <1>7
    <2>2. \A b \in Byte : b \in Nat
      BY ByteAssumption
    <2> QED BY <2>1, <2>2
  <1> HIDE DEF fields
  <1>10. /\ at \in [0..m -> Nat] /\ at[0] = 0 /\ at[m] = n
         /\ \A k \in 1..m : at[k] = at[k - 1] + Len(codes[k]) /\ at[k] <= n
         /\ \A k \in 1..m : \A j \in 1..Len(codes[k]) : fields[at[k - 1] + j] = codes[k][j]
    <2>1. m = Len(codes)
      BY <1>4
    <2> HIDE DEF m, T, from
    <2> QED BY <1>8, <2>1 DEF Laid
  <1>11. ASSUME NEW i \in 1..n + 1 PROVE from[i] = PatchEntry(base, fields, from, i)
    <2>1. IsPatch(base, fields, from)
      BY <1>7, PatchTableExists
    <2> HIDE DEF from
    <2>2. from = [j \in 1..Len(fields) + 1 |-> PatchEntry(base, fields, from, j)]
      BY <2>1 DEF IsPatch
    <2> QED BY <2>2, Zenon
  <1>12. Patch(base, fields) = from[1]
    BY PatchIs
  <1> HIDE DEF from, n, m, T
  <1> DEFINE Fine(k) == from[at[k] + 1] = after(p[k])
  <1>13. Fine(m)
    <2>1. n + 1 \in 1..n + 1 /\ n + 1 > Len(fields)
      BY <1>9 DEF n
    <2>2. PatchEntry(base, fields, from, n + 1) = [ok |-> TRUE, data |-> <<>>]
      BY <2>1 DEF PatchEntry
    <2>3. SubSeq(target, T + 1, T) = <<>>
      BY <1>1 DEF T
    <2>4. from[n + 1] = [ok |-> TRUE, data |-> <<>>]
      BY <1>11, <2>1, <2>2
    <2> QED BY <1>2, <1>10, <2>3, <2>4
  <1>14. ASSUME NEW k \in 1..m, Fine(k) PROVE Fine(k - 1)
    <2> DEFINE op == ops[k]
               c == Code(op)
               i == at[k - 1] + 1
               t == p[k - 1]
               l == op.length
    <2>1. k - 1 \in 0..m /\ k \in 0..m
      BY <1>1
    <2>2. at[k - 1] \in Nat /\ at[k] \in Nat /\ t \in Nat /\ p[k] \in Nat
      BY <1>3, <1>10, <2>1
    <2>3. op \in Operation /\ Stands(base, op, target, t) /\ p[k] = t + l
      BY <1>1, <1>3
    <2>4. c = codes[k] /\ c \in Seq(Nat) /\ Len(c) \in Nat
      BY <1>6, <2>3, CodeIs, DataFits
    <2>5. at[k] = at[k - 1] + Len(c) /\ at[k] <= n /\ \A j \in 1..Len(c) : fields[at[k - 1] + j] = c[j]
      BY <1>10, <2>4
    <2>6. t + l <= T /\ l \in Nat
      BY <2>3 DEF Stands, Operation, T
    <2> DEFINE a == at[k - 1]
               z == at[k]
    <2>7. a \in Nat /\ z \in Nat /\ z = a + Len(c) /\ z <= n /\ \A j \in 1..Len(c) : fields[a + j] = c[j]
      BY <2>2, <2>5
    <2> HIDE DEF op, t, l, a, z
    <2>8. /\ SoundAt(base, fields, a + 1) /\ a + 1 <= n /\ NextAt(fields, a + 1) = z + 1
          /\ BytesAt(base, fields, a + 1) = SubSeq(target, t + 1, t + l)
      <3>1. WrittenAt(fields, op, a)
        BY <2>7 DEF WrittenAt, n, c
      <3>2. fields \in Seq(Nat) /\ base \in Seq(Nat) /\ target \in Seq(Nat)
        BY <1>7, <1>9
      <3>3. ReadAt(base, target, fields, op, a, t)
        BY <2>2, <2>3, <2>7, <3>1, <3>2, OperationRead
      <3> QED BY <2>7, <3>3 DEF ReadAt, After, n, c, l
    <2> DEFINE e == a + 1
    <2>9. e \in 1..n + 1 /\ ~(e > Len(fields)) /\ i = e
      <3>1. e \in 1..n + 1 /\ ~(e > n)
        BY <1>9, <2>7, <2>8
      <3> QED BY <3>1 DEF n, a
    <2>10. from[z + 1] = [ok |-> TRUE, data |-> SubSeq(target, t + l + 1, T)]
      BY <1>14, <2>3 DEF z
    <2> HIDE DEF e, c, i
    <2> DEFINE rest == from[NextAt(fields, e)]
               more == SubSeq(target, t + l + 1, T)
    <2>11. rest = [ok |-> TRUE, data |-> more]
      BY <2>8, <2>10 DEF e
    <2> HIDE DEF rest, more
    <2>12. rest.ok = TRUE /\ rest.data = more
      BY <2>11
    <2>13. PatchEntry(base, fields, from, e) = [ok |-> TRUE, data |-> BytesAt(base, fields, e) \o rest.data]
      <3>1. SoundAt(base, fields, e) /\ rest.ok
        BY <2>8, <2>12 DEF e
      <3> QED BY <2>9, <3>1, Zenon DEF PatchEntry, rest
    <2>14. SubSeq(target, t + 1, t + l) \o more = SubSeq(target, t + 1, T)
      BY <2>2, <2>6, PartsJoined DEF T, more
    <2>15. BytesAt(base, fields, e) \o rest.data = SubSeq(target, t + 1, T)
      BY <2>8, <2>12, <2>14 DEF e
    <2>16. from[e] = PatchEntry(base, fields, from, e)
      BY <1>11, <2>9
    <2>17. from[e] = after(t)
      BY <2>13, <2>15, <2>16
    <2> QED BY <2>9, <2>17 DEF i, t
  <1> HIDE DEF Fine
  <1>15. Fine(0)
    <2> DEFINE good == {k \in 0..m : Fine(m - k)}
    <2>1. 0 \in good /\ m \in 0..m
      BY <1>1, <1>13
    <2>2. \A k \in 0..m - 1 : k \in good => k + 1 \in good
      <3> TAKE k \in 0..m - 1
      <3> HAVE k \in good
      <3> DEFINE j == m - k
      <3>1. j \in 1..m /\ m - (k + 1) = j - 1 /\ k + 1 \in 0..m
        BY <1>1
      <3>2. Fine(j)
        OBVIOUS
      <3> HIDE DEF j
      <3>3. Fine(j - 1)
        BY <1>14, <3>1, <3>2
      <3> QED BY <3>1, <3>3
    <2> HIDE DEF good
    <2>3. m \in good
      BY <1>1, <2>1, <2>2, Induction
    <2>4. m - m = 0
      BY <1>1
    <2> QED BY <2>3, <2>4 DEF good
  <1>16. from[1] = after(0)
    <2>1. at[0] + 1 = 1
      BY <1>10
    <2> QED BY <1>2, <1>15, <2>1 DEF Fine
  <1>17. SubSeq(target, 0 + 1, T) = target
    BY <1>1 DEF T
  <1> QED BY <1>5, <1>12, <1>16, <1>17

-----------------------------------------------------------------------------
(* Chunks *)

\* The boundary as seen from the start of the chunk: how far the window starts behind
\* it, the hash k bytes behind it, and how far the chunk reaches.
Skipped == IF MinSize - Window >= 0 THEN MinSize - Window ELSE 0
HashAt(data, offset, k) ==
    FoldLeft(Gear, 0, SubSeq(data, offset + Skipped + 1, offset + k + 1))
Furthest(data, offset) ==
    IF MaxSize <= Len(data) - offset THEN MaxSize ELSE Len(data) - offset
CutsAt(data, offset) ==
    {k \in MinSize..Furthest(data, offset) - 1 : Cuts(HashAt(data, offset, k))}
Reach(data, offset) ==
    IF MinSize >= Len(data) - offset THEN Len(data) - offset
    ELSE IF CutsAt(data, offset) = {} THEN Furthest(data, offset)
    ELSE Min(CutsAt(data, offset)) + 1

\* Where no window wraps, that is where findChunkBoundary cuts.
LEMMA BoundaryReached ==
    ASSUME NEW data \in Seq(Byte), NEW x \in 0..Len(data) - 1, x + MinSize >= Window
    PROVE  ChunkBoundary(data, x) = x + Reach(data, x) /\ Reach(data, x) \in Nat
  <1> DEFINE n == Len(data)
             maxEnd == Min({x + MaxSize, n})
             hash(pos) == FoldLeft(Gear, 0, SubSeq(data, WindowStart(x) + 1, pos + 1))
             cuts == {pos \in x + MinSize..maxEnd - 1 : Cuts(hash(pos))}
             ks == CutsAt(data, x)
             f == Furthest(data, x)
             r == Reach(data, x)
  <1>1. /\ n \in Nat /\ x \in Nat /\ x < n /\ MinSize \in Nat /\ MaxSize \in Nat
        /\ Window \in Nat /\ MinSize # 0 /\ MinSize < MaxSize
    BY ChunkAssumption
  <1>2. ChunkBoundary(data, x) =
            IF x + MinSize >= n THEN n ELSE IF cuts = {} THEN maxEnd ELSE Min(cuts) + 1
    BY DEF ChunkBoundary
  <1>3. r = IF MinSize >= n - x THEN n - x ELSE IF ks = {} THEN f ELSE Min(ks) + 1
    BY DEF Reach
  <1>4. maxEnd = x + f /\ f \in Nat
    <2> HIDE DEF n
    <2> DEFINE y == x + MaxSize
    <2>1. y \in Int /\ n \in Int
      BY <1>1
    <2> HIDE DEF y
    <2>2. Min({y, n}) = IF y <= n THEN y ELSE n
      BY <2>1, OfTwo
    <2>3. f = IF MaxSize <= n - x THEN MaxSize ELSE n - x
      BY DEF Furthest, n
    <2> HIDE DEF f
    <2>4. maxEnd = IF x + MaxSize <= n THEN x + MaxSize ELSE n
      BY <2>2 DEF y
    <2> HIDE DEF maxEnd
    <2> QED BY <1>1, <2>3, <2>4
  <1>5. WindowStart(x) = x + Skipped /\ Skipped \in Nat
    <2> DEFINE y == x + MinSize - Window
    <2>1. y \in Int /\ x \in Int
      BY <1>1
    <2> HIDE DEF y
    <2>2. Max({y, x}) = IF y <= x THEN x ELSE y
      BY <2>1, OfTwo
    <2>3. ~(x + MinSize < Window)
      BY <1>1
    <2>4. WindowStart(x) = IF y <= x THEN x ELSE y
      BY <2>2, <2>3 DEF WindowStart, y
    <2> QED BY <1>1, <2>4 DEF y, Skipped
  <1>6. cuts = {x + k : k \in ks} /\ ks \in SUBSET Nat
    <2>1. ASSUME NEW k \in Nat PROVE hash(x + k) = HashAt(data, x, k)
      BY <1>5 DEF HashAt
    <2>2. ks = {k \in MinSize..f - 1 : Cuts(HashAt(data, x, k))}
      BY DEF CutsAt
    <2> DEFINE h(k) == HashAt(data, x, k)
    <2> HIDE DEF f, hash, h
    <2>3. cuts = {pos \in x + MinSize..x + f - 1 : Cuts(hash(pos))}
      BY <1>4
    <2> HIDE DEF cuts, ks, maxEnd
    <2>4. ASSUME NEW pos \in cuts PROVE \E k \in ks : pos = x + k
      <3> DEFINE k == pos - x
      <3>1. k \in MinSize..f - 1 /\ x + k = pos /\ k \in Nat
        BY <1>1, <1>4, <2>3
      <3> HIDE DEF k
      <3>2. Cuts(HashAt(data, x, k))
        BY <2>1, <2>3, <3>1
      <3> QED BY <2>2, <3>1, <3>2
    <2>5. ASSUME NEW k \in ks PROVE x + k \in cuts
      <3>1. k \in MinSize..f - 1 /\ k \in Nat /\ x + k \in x + MinSize..x + f - 1
        BY <1>1, <1>4, <2>2
      <3>2. Cuts(hash(x + k))
        BY <2>1, <2>2, <3>1
      <3> QED BY <2>3, <3>1, <3>2
    <2>6. ks \in SUBSET Nat
      BY <1>1, <1>4, <2>2
    <2> QED BY <2>4, <2>5, <2>6
  <1> HIDE DEF n, maxEnd, hash, cuts, ks, f, r
  <1>7. CASE MinSize >= n - x
    BY <1>1, <1>2, <1>3, <1>7 DEF r
  <1>8. CASE ~(MinSize >= n - x) /\ ks = {}
    <2>1. cuts = {} /\ ~(x + MinSize >= n)
      BY <1>1, <1>6, <1>8
    <2> QED BY <1>2, <1>3, <1>4, <1>8, <2>1 DEF r
  <1>9. CASE ~(MinSize >= n - x) /\ ks # {}
    <2>1. cuts # {} /\ Min(cuts) = x + Min(ks)
      BY <1>1, <1>6, <1>9, LeastMoved
    <2>2. Min(ks) \in Nat
      BY <1>6, <1>9, LeastIs
    <2>3. ~(x + MinSize >= n)
      BY <1>1, <1>9
    <2>4. ChunkBoundary(data, x) = Min(cuts) + 1 /\ r = Min(ks) + 1
      BY <1>2, <1>3, <1>9, <2>1, <2>3
    <2> QED BY <1>1, <2>1, <2>2, <2>4 DEF r
  <1> QED BY <1>7, <1>8, <1>9

\* Equal bytes up to the ends of both data are cut alike.
LEMMA CutAlike ==
    ASSUME NEW d \in Seq(Byte), NEW e \in Seq(Byte), NEW x \in 0..Len(d) - 1, NEW y \in 0..Len(e) - 1,
           Len(d) - x = Len(e) - y, \A i \in 1..Len(d) - x : d[x + i] = e[y + i]
    PROVE  Reach(d, x) = Reach(e, y)
  <1> DEFINE m == Len(d) - x
  <1>1. /\ m \in Nat /\ x \in Nat /\ y \in Nat /\ x + m = Len(d) /\ y + m = Len(e)
        /\ MinSize \in Nat /\ MaxSize \in Nat /\ Window \in Nat
    BY ChunkAssumption
  <1>2. Furthest(d, x) = Furthest(e, y) /\ \A k \in MinSize..Furthest(d, x) - 1 : k \in Nat /\ k < m
    <2>1. Furthest(d, x) = IF MaxSize <= m THEN MaxSize ELSE m
      BY DEF Furthest
    <2>2. Furthest(e, y) = IF MaxSize <= m THEN MaxSize ELSE m
      BY DEF Furthest
    <2> HIDE DEF m
    <2> QED BY <1>1, <2>1, <2>2
  <1>3. ASSUME NEW k \in Nat, k < m PROVE HashAt(d, x, k) = HashAt(e, y, k)
    <2> DEFINE s == Skipped
               p == SubSeq(d, x + s + 1, x + k + 1)
               q == SubSeq(e, y + s + 1, y + k + 1)
    <2>1. s \in Nat
      BY <1>1 DEF Skipped
    <2>2. CASE s <= k
      <3> DEFINE l == k + 1 - s
                 i == x + s
                 j == y + s
      <3>1. l \in Nat /\ i \in Nat /\ j \in Nat /\ i + l = x + k + 1 /\ j + l = y + k + 1
            /\ i + l <= Len(d) /\ j + l <= Len(e)
        BY <1>1, <1>3, <2>1, <2>2
      <3>2. \A o \in 1..l : s + o \in 1..m /\ x + (s + o) = i + o /\ y + (s + o) = j + o
        BY <1>1, <1>3, <2>1, <2>2
      <3> HIDE DEF l, s, m
      <3>3. \A o \in 1..l : d[i + o] = e[j + o]
        <4> TAKE o \in 1..l
        <4> DEFINE c == s + o
        <4>1. c \in 1..m /\ x + c = i + o /\ y + c = j + o
          BY <3>2
        <4> HIDE DEF c, i, j
        <4>2. d[x + c] = e[y + c]
          BY <4>1 DEF m
        <4> QED BY <4>1, <4>2
      <3> HIDE DEF i, j
      <3>4. Alike(d, i, e, j, l)
        BY <3>1, <3>3 DEF Alike
      <3>6. SubSeq(d, i + 1, i + l) = SubSeq(e, j + 1, j + l)
        BY <3>1, <3>4, SamePart DEF After
      <3>7. p = q
        BY <3>1, <3>6 DEF i, j
      <3> QED BY <3>7 DEF HashAt, s
    <2>3. CASE ~(s <= k)
      <3>1. p = <<>> /\ q = <<>>
        BY <1>1, <1>3, <2>1, <2>3
      <3> QED BY <3>1 DEF HashAt
    <2> QED BY <2>2, <2>3
  <1>4. CutsAt(d, x) = CutsAt(e, y)
    <2> DEFINE f == Furthest(d, x)
    <2>1. CutsAt(d, x) = {k \in MinSize..f - 1 : Cuts(HashAt(d, x, k))}
      BY DEF CutsAt
    <2>2. CutsAt(e, y) = {k \in MinSize..f - 1 : Cuts(HashAt(e, y, k))}
      BY <1>2 DEF CutsAt
    <2>3. \A k \in MinSize..f - 1 : HashAt(d, x, k) = HashAt(e, y, k)
      BY <1>2, <1>3
    <2> HIDE DEF f
    <2> QED BY <2>1, <2>2, <2>3
  <1>5. Len(d) - x = m /\ Len(e) - y = m
    OBVIOUS
  <1> QED BY <1>2, <1>4, <1>5 DEF Reach

\* A chunk has at least one byte and no more than MaxSize, and if it is not the last
\* one more than MinSize.
LEMMA BoundaryWithin ==
    ASSUME NEW data \in Seq(Byte), NEW x \in 0..Len(data) - 1
    PROVE  /\ ChunkBoundary(data, x) \in x + 1..Len(data)
           /\ ChunkBoundary(data, x) - x <= MaxSize
           /\ ChunkBoundary(data, x) < Len(data) => ChunkBoundary(data, x) > x + MinSize
  <1> DEFINE n == Len(data)
             y == x + MaxSize
             maxEnd == Min({y, n})
             hash(pos) == FoldLeft(Gear, 0, SubSeq(data, WindowStart(x) + 1, pos + 1))
             cuts == {pos \in x + MinSize..maxEnd - 1 : Cuts(hash(pos))}
             b == ChunkBoundary(data, x)
  <1>1. /\ n \in Nat /\ x \in Nat /\ x < n /\ MinSize \in Nat /\ MaxSize \in Nat
        /\ MinSize # 0 /\ MinSize < MaxSize
    BY ChunkAssumption
  <1>2. b = IF x + MinSize >= n THEN n ELSE IF cuts = {} THEN maxEnd ELSE Min(cuts) + 1
    BY DEF ChunkBoundary
  <1>3. maxEnd = IF y <= n THEN y ELSE n
    <2>1. y \in Int /\ n \in Int
      BY <1>1
    <2> HIDE DEF y, n
    <2> QED BY <2>1, OfTwo
  <1>4. cuts \in SUBSET (x + MinSize..maxEnd - 1)
    OBVIOUS
  <1> HIDE DEF b, n, maxEnd, hash, cuts
  <1>5. CASE x + MinSize >= n
    BY <1>1, <1>2, <1>5 DEF b, n
  <1>6. CASE ~(x + MinSize >= n) /\ cuts = {}
    BY <1>1, <1>2, <1>3, <1>6 DEF b, n
  <1>7. CASE ~(x + MinSize >= n) /\ cuts # {}
    <2>1. maxEnd \in Nat /\ maxEnd <= n /\ maxEnd <= y
      BY <1>1, <1>3
    <2>2. cuts \in SUBSET Nat
      BY <1>1, <1>4, <2>1
    <2> DEFINE c == Min(cuts)
    <2>3. c \in x + MinSize..maxEnd - 1
      BY <1>4, <1>7, <2>2, LeastIs
    <2>4. b = c + 1
      BY <1>2, <1>7
    <2> HIDE DEF c
    <2> QED BY <1>1, <2>1, <2>3, <2>4 DEF b, n
  <1> QED BY <1>5, <1>6, <1>7

\* The table of Split: the ends of the chunks from each offset on.
IsSplit(data, from) ==
    from = [offset \in 0..Len(data) |->
        IF offset = Len(data) THEN <<>>
        ELSE LET end == ChunkBoundary(data, offset) IN <<end>> \o from[end]]
SplitTable(data) == CHOOSE from : IsSplit(data, from)

\* Split is its first entry.
LEMMA SplitIs == \A data : Split(data) = SplitTable(data)[0]
  BY DEF Split, SplitTable, IsSplit

\* The table of Split exists.
LEMMA SplitTableExists == ASSUME NEW data \in Seq(Byte) PROVE IsSplit(data, SplitTable(data))
  <1> DEFINE n == Len(data)
             b == [t \in 0..n - 1 |-> ChunkBoundary(data, t)]
  <1>1. n \in Nat
    OBVIOUS
  <1>2. \A t \in 0..n - 1 : b[t] = ChunkBoundary(data, t) /\ b[t] \in t + 1..n
    BY BoundaryWithin
  <1> HIDE DEF b
  <1>3. PICK f : f = [t \in 0..n |-> IF t = n THEN <<>> ELSE <<b[t]>> \o f[b[t]]]
    <2> HIDE DEF n
    <2>1. Ahead(n, b)
      BY <1>2 DEF Ahead
    <2>2. \E f : IsJumpTable(n, b, b, f)
      BY <1>1, <2>1, JumpTableExists, Zenon
    <2> QED BY <2>2 DEF IsJumpTable
  <1>4. ASSUME NEW t \in 0..n
        PROVE  (IF t = n THEN <<>> ELSE <<b[t]>> \o f[b[t]]) =
                 (IF t = n THEN <<>>
                  ELSE LET end == ChunkBoundary(data, t) IN <<end>> \o f[end])
    <2>1. t # n => t \in 0..n - 1
      BY <1>1
    <2> QED BY <1>2, <2>1
  <1>5. IsSplit(data, f)
    BY <1>3, <1>4 DEF IsSplit
  <1> QED BY <1>5 DEF SplitTable

\* Where chunk i starts, and the ends of the chunks of data from offset on.
StartOf(ends, offset, i) == IF i = 1 THEN offset ELSE ends[i - 1]
CutFrom(data, ends, offset) ==
    /\ ends \in Seq(Nat)
    /\ \A i \in 1..Len(ends) : /\ StartOf(ends, offset, i) \in 0..Len(data) - 1
                               /\ ends[i] = ChunkBoundary(data, StartOf(ends, offset, i))
    /\ StartOf(ends, offset, Len(ends) + 1) = Len(data)

\* One chunk in front of others.
LEMMA CutBefore ==
    ASSUME NEW data \in Seq(Byte), NEW x \in 0..Len(data) - 1, NEW ends, NEW b,
           b = ChunkBoundary(data, x), CutFrom(data, ends, b)
    PROVE  CutFrom(data, <<b>> \o ends, x)
  <1> DEFINE m == Len(ends)
             f == <<b>> \o ends
  <1>1. b = ChunkBoundary(data, x) /\ CutFrom(data, ends, b)
    OBVIOUS
  <1>2. b \in Nat
    <2>1. b \in x + 1..Len(data) /\ x \in Nat /\ Len(data) \in Nat
      BY <1>1, BoundaryWithin
    <2> QED BY <2>1
  <1>3. ends \in Seq(Nat) /\ m \in Nat
    BY <1>1 DEF CutFrom
  <1>4. f \in Seq(Nat) /\ Len(f) = m + 1
    BY <1>2, <1>3
  <1>5. f[1] = b /\ \A i \in 1..m : f[i + 1] = ends[i]
    BY <1>2, <1>3
  <1> HIDE DEF f
  <1>6. StartOf(f, x, 1) = x
    BY DEF StartOf
  <1>7. \A i \in 1..m + 1 : StartOf(f, x, i + 1) = StartOf(ends, b, i)
    <2> TAKE i \in 1..m + 1
    <2>1. i + 1 # 1 /\ i + 1 - 1 = i
      BY <1>3
    <2>2. StartOf(f, x, i + 1) = f[i]
      BY <2>1 DEF StartOf
    <2>3. CASE i = 1
      BY <1>5, <2>2, <2>3 DEF StartOf
    <2>4. CASE i # 1
      <3>1. i - 1 \in 1..m /\ i - 1 + 1 = i
        BY <1>3, <2>4
      <3>2. f[i] = ends[i - 1]
        BY <1>5, <3>1
      <3> QED BY <2>2, <2>4, <3>2 DEF StartOf
    <2> QED BY <2>3, <2>4
  <1>8. ASSUME NEW i \in 1..m + 1
        PROVE  StartOf(f, x, i) \in 0..Len(data) - 1 /\ f[i] = ChunkBoundary(data, StartOf(f, x, i))
    <2>1. CASE i = 1
      BY <1>1, <1>5, <1>6, <2>1
    <2>2. CASE i # 1
      <3> DEFINE j == i - 1
      <3>1. j \in 1..m /\ j \in 1..m + 1 /\ i = j + 1
        BY <1>3, <2>2
      <3> HIDE DEF j
      <3>2. StartOf(f, x, j + 1) = StartOf(ends, b, j) /\ f[j + 1] = ends[j]
        BY <1>5, <1>7, <3>1
      <3>3. StartOf(ends, b, j) \in 0..Len(data) - 1 /\ ends[j] = ChunkBoundary(data, StartOf(ends, b, j))
        BY <1>1, <3>1 DEF CutFrom
      <3> QED BY <3>1, <3>2, <3>3
    <2> QED BY <2>1, <2>2
  <1>9. StartOf(f, x, m + 1 + 1) = Len(data)
    <2>1. m + 1 \in 1..m + 1
      BY <1>3
    <2>2. StartOf(f, x, m + 1 + 1) = StartOf(ends, b, m + 1)
      BY <1>7, <2>1
    <2> QED BY <1>1, <2>2 DEF CutFrom
  <1>10. CutFrom(data, f, x)
    BY <1>4, <1>8, <1>9 DEF CutFrom
  <1> QED BY <1>10 DEF f

\* Split cuts all of the data.
LEMMA SplitCuts == ASSUME NEW data \in Seq(Byte) PROVE CutFrom(data, Split(data), 0)
  <1> DEFINE n == Len(data)
             f == SplitTable(data)
             good == {k \in 0..n : CutFrom(data, f[n - k], n - k)}
  <1>1. n \in Nat
    OBVIOUS
  <1>2. IsSplit(data, f)
    BY SplitTableExists
  <1> HIDE DEF f
  <1>3. ASSUME NEW x \in 0..n
        PROVE  f[x] = IF x = n THEN <<>> ELSE <<ChunkBoundary(data, x)>> \o f[ChunkBoundary(data, x)]
    <2>1. f = [offset \in 0..n |->
                 IF offset = n THEN <<>>
                 ELSE <<ChunkBoundary(data, offset)>> \o f[ChunkBoundary(data, offset)]]
      BY <1>2 DEF IsSplit
    <2> HIDE DEF n
    <2> QED BY <2>1, Zenon
  <1>4. 0 \in good
    <2>1. CutFrom(data, <<>>, n)
      BY <1>1 DEF CutFrom, StartOf
    <2>2. n \in 0..n /\ n - 0 = n /\ 0 \in 0..n
      BY <1>1
    <2>3. f[n] = <<>>
      BY <1>3, <2>2
    <2> QED BY <2>1, <2>2, <2>3
  <1> DEFINE Fine(k) == CutFrom(data, f[n - k], n - k)
  <1>5. ASSUME NEW k \in 0..n - 1, \A j \in 0..k : Fine(j) PROVE Fine(k + 1)
    <2> DEFINE x == n - (k + 1)
               b == ChunkBoundary(data, x)
               j == n - b
    <2>1. x \in 0..n - 1 /\ x \in 0..n /\ x # n
      BY <1>1
    <2>2. b \in x + 1..n
      BY <2>1, BoundaryWithin
    <2>3. f[x] = <<b>> \o f[b]
      BY <1>3, <2>1
    <2> HIDE DEF b
    <2>4. j \in 0..k /\ n - j = b
      BY <1>1, <2>1, <2>2
    <2> HIDE DEF x, j, Fine
    <2>5. Fine(j)
      BY <1>5, <2>4
    <2>6. CutFrom(data, f[b], b)
      BY <2>4, <2>5 DEF Fine
    <2>7. CutFrom(data, <<b>> \o f[b], x)
      <3> DEFINE g == f[b]
      <3>1. CutFrom(data, g, b) /\ x \in 0..Len(data) - 1 /\ b = ChunkBoundary(data, x)
        BY <2>1, <2>6 DEF b
      <3> HIDE DEF g
      <3>2. CutFrom(data, <<b>> \o g, x)
        BY <3>1, CutBefore
      <3> QED BY <3>2 DEF g
    <2> QED BY <2>3, <2>7 DEF Fine, x
  <1> DEFINE all == {k \in 0..n : \A j \in 0..k : Fine(j)}
  <1>6. 0 \in all /\ \A k \in 0..n - 1 : k \in all => k + 1 \in all
    <2>1. 0 \in all
      BY <1>1, <1>4
    <2> HIDE DEF Fine
    <2>2. ASSUME NEW k \in 0..n - 1, k \in all PROVE k + 1 \in all
      <3>1. Fine(k + 1) /\ \A j \in 0..k : Fine(j)
        BY <1>5, <2>2
      <3>2. \A j \in 0..k + 1 : j \in 0..k \/ j = k + 1
        OBVIOUS
      <3> QED BY <1>1, <3>1, <3>2
    <2> QED BY <2>1, <2>2
  <1>7. n \in all
    <2>1. n \in 0..n
      BY <1>1
    <2> HIDE DEF all
    <2> QED BY <1>1, <1>6, <2>1, Induction
  <1>8. Fine(n)
    <2>1. n \in 0..n
      BY <1>1
    <2> HIDE DEF Fine
    <2> QED BY <1>7, <2>1
  <1>9. n - n = 0
    BY <1>1
  <1>10. Split(data) = f[0]
    BY SplitIs DEF f
  <1> QED BY <1>8, <1>9, <1>10

\* What CutFrom says of the ends: each is behind the one before it, the last is the
\* end of the data, and each but the last is behind MinSize.
LEMMA EndsAre ==
    ASSUME NEW data \in Seq(Byte), NEW ends, CutFrom(data, ends, 0)
    PROVE  /\ ends \in Seq(Nat) /\ Len(ends) \in Nat
           /\ \A i \in 1..Len(ends) :
                 /\ StartOf(ends, 0, i) \in 0..Len(data) - 1
                 /\ ends[i] = ChunkBoundary(data, StartOf(ends, 0, i))
                 /\ ends[i] \in StartOf(ends, 0, i) + 1..Len(data)
                 /\ ends[i] - StartOf(ends, 0, i) <= MaxSize
                 /\ i < Len(ends) =>
                       /\ ends[i] \in 0..Len(data) - 1
                       /\ ends[i] > StartOf(ends, 0, i) + MinSize
                 /\ i = Len(ends) => ends[i] = Len(data)
           /\ Len(ends) = 0 => Len(data) = 0
  <1> DEFINE m == Len(ends)
             n == Len(data)
             s(i) == StartOf(ends, 0, i)
  <1>1. /\ ends \in Seq(Nat) /\ m \in Nat /\ n \in Nat /\ s(m + 1) = n
        /\ \A i \in 1..m : s(i) \in 0..n - 1 /\ ends[i] = ChunkBoundary(data, s(i))
    BY DEF CutFrom
  <1>2. ASSUME NEW i \in 1..m
        PROVE  /\ ends[i] \in s(i) + 1..n /\ ends[i] - s(i) <= MaxSize
               /\ ends[i] < n => ends[i] > s(i) + MinSize
    <2> DEFINE x == s(i)
    <2>1. x \in 0..n - 1 /\ ends[i] = ChunkBoundary(data, x)
      BY <1>1
    <2> HIDE DEF x
    <2> QED BY <2>1, BoundaryWithin DEF x
  <1>3. ASSUME NEW i \in 1..m PROVE s(i + 1) = ends[i]
    <2>1. i + 1 # 1 /\ i + 1 - 1 = i
      BY <1>1
    <2> QED BY <2>1 DEF StartOf
  <1>4. ASSUME NEW i \in 1..m, i < m PROVE ends[i] \in 0..n - 1 /\ ends[i] > s(i) + MinSize
    <2>1. i + 1 \in 1..m
      BY <1>1, <1>4
    <2>2. ends[i] \in 0..n - 1
      BY <1>1, <1>3, <2>1
    <2>3. ends[i] < n
      BY <1>1, <2>2
    <2> QED BY <1>2, <2>2, <2>3
  <1>5. m > 0 => ends[m] = n
    <2>1. m > 0 => m \in 1..m
      BY <1>1
    <2> QED BY <1>1, <1>3, <2>1
  <1>6. m = 0 => n = 0
    BY <1>1 DEF StartOf
  <1>7. \A i \in 1..m : i = m => ends[i] = n
    BY <1>1, <1>5
  <1> HIDE DEF s
  <1>8. \A i \in 1..m :
                 /\ s(i) \in 0..n - 1
                 /\ ends[i] = ChunkBoundary(data, s(i))
                 /\ ends[i] \in s(i) + 1..n
                 /\ ends[i] - s(i) <= MaxSize
                 /\ i < m => /\ ends[i] \in 0..n - 1
                             /\ ends[i] > s(i) + MinSize
                 /\ i = m => ends[i] = n
    BY <1>1, <1>2, <1>4, <1>7
  <1> QED BY <1>1, <1>6, <1>8 DEF s

\* In short: each chunk has bytes, and they are bytes of the data.
Ordered(data, ends) ==
    /\ Len(ends) \in Nat /\ Len(data) \in Nat
    /\ \A i \in 1..Len(ends) : /\ StartOf(ends, 0, i) \in 0..Len(data) - 1
                               /\ ends[i] \in StartOf(ends, 0, i) + 1..Len(data)

\* So it is with the ends of CutFrom.
LEMMA EndsOrdered ==
    ASSUME NEW data \in Seq(Byte), NEW ends, CutFrom(data, ends, 0) PROVE Ordered(data, ends)
  <1>1. CutFrom(data, ends, 0)
    OBVIOUS
  <1>2. /\ Len(ends) \in Nat /\ Len(data) \in Nat
        /\ \A i \in 1..Len(ends) : /\ StartOf(ends, 0, i) \in 0..Len(data) - 1
                                   /\ ends[i] \in StartOf(ends, 0, i) + 1..Len(data)
    BY <1>1, EndsAre
  <1> QED BY <1>2 DEF Ordered

\* The chunks between those ends.
ChunksOf(data, ends) == [i \in 1..Len(ends) |-> SubSeq(data, StartOf(ends, 0, i) + 1, ends[i])]

\* They are what Chunks gives.
LEMMA ChunksAre == ASSUME NEW data PROVE Chunks(data) = ChunksOf(data, Split(data))
  <1> DEFINE e == Split(data)
  <1>1. Chunks(data) = [i \in 1..Len(e) |-> SubSeq(data, IF i = 1 THEN 1 ELSE e[i - 1] + 1, e[i])]
    BY DEF Chunks
  <1>2. \A i \in 1..Len(e) : (IF i = 1 THEN 1 ELSE e[i - 1] + 1) = StartOf(e, 0, i) + 1
    BY DEF StartOf
  <1> HIDE DEF e
  <1>3. Chunks(data) = [i \in 1..Len(e) |-> SubSeq(data, StartOf(e, 0, i) + 1, e[i])]
    BY <1>1, <1>2
  <1> QED BY <1>3 DEF e, ChunksOf

\* Each chunk is a part of the data, and has bytes.
LEMMA ChunkParts ==
    ASSUME NEW data \in Seq(Byte), NEW ends, CutFrom(data, ends, 0)
    PROVE  /\ ChunksOf(data, ends) \in Seq(Seq(Byte))
           /\ Len(ChunksOf(data, ends)) = Len(ends)
           /\ \A i \in 1..Len(ends) :
                 /\ Len(ChunksOf(data, ends)[i]) = ends[i] - StartOf(ends, 0, i)
                 /\ ChunksOf(data, ends)[i] =
                       After(data, StartOf(ends, 0, i), ends[i] - StartOf(ends, 0, i))
                 /\ \A j \in 1..ends[i] - StartOf(ends, 0, i) :
                       ChunksOf(data, ends)[i][j] = data[StartOf(ends, 0, i) + j]
  <1> DEFINE m == Len(ends)
             cs == ChunksOf(data, ends)
             s(i) == StartOf(ends, 0, i)
             l(i) == ends[i] - s(i)
  <1>1. /\ m \in Nat /\ Len(data) \in Nat
        /\ \A i \in 1..m : s(i) \in 0..Len(data) - 1 /\ ends[i] \in s(i) + 1..Len(data)
    <2>1. Ordered(data, ends)
      BY EndsOrdered
    <2> QED BY <2>1 DEF Ordered
  <1>2. ASSUME NEW i \in 1..m
        PROVE  /\ cs[i] \in Seq(Byte) /\ Len(cs[i]) = l(i)
               /\ cs[i] = After(data, s(i), l(i))
               /\ \A j \in 1..l(i) : cs[i][j] = data[s(i) + j]
    <2> DEFINE x == s(i)
               k == l(i)
    <2>1. x \in Nat /\ k \in Nat /\ x + k <= Len(data) /\ x + k = ends[i]
      BY <1>1
    <2>2. cs[i] = SubSeq(data, x + 1, ends[i])
      BY DEF ChunksOf
    <2> HIDE DEF x, k, cs
    <2>3. cs[i] = SubSeq(data, x + 1, x + k)
      BY <2>1, <2>2
    <2>4. /\ SubSeq(data, x + 1, x + k) \in Seq(Byte) /\ Len(SubSeq(data, x + 1, x + k)) = k
          /\ \A j \in 1..k : SubSeq(data, x + 1, x + k)[j] = data[x + j]
      BY <2>1, Part
    <2>5. cs[i] = After(data, x, k)
      BY <2>3 DEF After
    <2>6. cs[i] \in Seq(Byte) /\ Len(cs[i]) = k /\ \A j \in 1..k : cs[i][j] = data[x + j]
      BY <2>3, <2>4
    <2> QED BY <2>5, <2>6 DEF x, k
  <1>3. Len(cs) = m /\ cs \in Seq(Seq(Byte))
    <2>1. DOMAIN cs = 1..m /\ cs = [i \in 1..m |-> cs[i]]
      BY DEF ChunksOf
    <2> HIDE DEF cs, m
    <2>2. cs \in [1..m -> Seq(Byte)]
      BY <1>2, <2>1
    <2> QED BY <1>1, <2>1, <2>2
  <1> HIDE DEF cs
  <1> QED BY <1>2, <1>3 DEF cs

\* Where the chunks from the i-th on are when they are put together.
SuffixAt(data, ends, i, at) ==
    LET t == SubSeq(ChunksOf(data, ends), i, Len(ends))
    IN  /\ Laid(t, at, Concat(t)) /\ Len(t) = Len(ends) + 1 - i
        /\ \A k \in 0..Len(ends) + 1 - i :
              at[k] = StartOf(ends, 0, i + k) - StartOf(ends, 0, i)

\* They have such places.
LEMMA SuffixLaid ==
    ASSUME NEW data \in Seq(Byte), NEW ends, CutFrom(data, ends, 0), NEW i \in 1..Len(ends) + 1
    PROVE  \E at : SuffixAt(data, ends, i, at)
  <1> DEFINE m == Len(ends)
             n == Len(data)
             cs == ChunksOf(data, ends)
             s(j) == StartOf(ends, 0, j)
             t == SubSeq(cs, i, m)
             q == m + 1 - i
             h == i - 1
  <1>1. /\ m \in Nat /\ n \in Nat
        /\ \A j \in 1..m : s(j) \in 0..n - 1 /\ ends[j] \in s(j) + 1..n
    <2>1. Ordered(data, ends)
      BY EndsOrdered
    <2> QED BY <2>1 DEF Ordered
  <1>2. q \in Nat /\ h \in Nat /\ h + q = m /\ h + 1 = i /\ h + q <= m
    BY <1>1
  <1>3. cs \in Seq(Seq(Byte)) /\ Len(cs) = m /\ \A j \in 1..m : Len(cs[j]) = ends[j] - s(j)
    <2>1. CutFrom(data, ends, 0)
      OBVIOUS
    <2> QED BY <2>1, ChunkParts
  <1>4. \A j \in 1..m : s(j + 1) = ends[j]
    <2> TAKE j \in 1..m
    <2>1. j + 1 # 1 /\ j + 1 - 1 = j
      BY <1>1
    <2> QED BY <2>1 DEF StartOf
  <1>12. ASSUME NEW j \in 1..m + 1 PROVE s(j) \in Nat
    <2>1. CASE j = 1
      BY <2>1 DEF StartOf
    <2>2. CASE j # 1
      <3>1. j - 1 \in 1..m
        BY <1>1, <2>2
      <3>2. ends[j - 1] \in Nat
        BY <1>1, <3>1
      <3> QED BY <2>2, <3>2 DEF StartOf
    <2> QED BY <2>1, <2>2
  <1> HIDE DEF cs, s
  <1>5. t \in Seq(Seq(Byte)) /\ Len(t) = q /\ \A k \in 1..q : t[k] = cs[h + k]
    <2> HIDE DEF h, q
    <2>1. /\ SubSeq(cs, h + 1, h + q) \in Seq(Seq(Byte)) /\ Len(SubSeq(cs, h + 1, h + q)) = q
          /\ \A k \in 1..q : SubSeq(cs, h + 1, h + q)[k] = cs[h + k]
      <3>1. h + q <= Len(cs)
        BY <1>2, <1>3
      <3> DEFINE S == Seq(Byte)
      <3>2. cs \in Seq(S)
        BY <1>3
      <3> HIDE DEF S
      <3>3. /\ SubSeq(cs, h + 1, h + q) \in Seq(S) /\ Len(SubSeq(cs, h + 1, h + q)) = q
            /\ \A k \in 1..q : SubSeq(cs, h + 1, h + q)[k] = cs[h + k]
        BY <1>2, <3>1, <3>2, Part
      <3> QED BY <3>3 DEF S
    <2> QED BY <1>2, <2>1
  <1> HIDE DEF t
  <1>6. FlattenSeq(t) \in Seq(Byte) /\ \E at : Laid(t, at, FlattenSeq(t))
    BY <1>5, FlattenLaid
  <1>7. PICK at : Laid(t, at, FlattenSeq(t))
    BY <1>6
  <1>8. at[0] = 0 /\ \A k \in 1..q : at[k] = at[k - 1] + Len(t[k])
    BY <1>5, <1>7 DEF Laid
  <1> DEFINE Fine(k) == at[k] = s(i + k) - s(i)
             good == {k \in 0..q : Fine(k)}
  <1>9. Fine(0)
    <2>1. s(i) \in Nat /\ i + 0 = i
      BY <1>12
    <2> QED BY <1>8, <2>1
  <1>10. ASSUME NEW k \in 0..q - 1, Fine(k) PROVE Fine(k + 1)
    <2> DEFINE l == k + 1
               j == i + k
    <2>1. l \in 1..q /\ l - 1 = k /\ j \in 1..m /\ j \in 1..m + 1 /\ h + l = j /\ i + l = j + 1 /\ i \in 1..m + 1
      BY <1>1, <1>2
    <2> HIDE DEF l, j, h
    <2>2. at[l] = at[k] + Len(cs[j])
      BY <1>5, <1>8, <2>1
    <2>3. Len(cs[j]) = ends[j] - s(j) /\ s(j + 1) = ends[j]
      BY <1>3, <1>4, <2>1
    <2>4. s(j) \in Nat /\ s(i) \in Nat /\ ends[j] \in Nat
      <3>1. ends[j] \in s(j) + 1..n /\ s(j) \in Nat /\ n \in Nat
        BY <1>1, <1>12, <2>1
      <3> QED BY <1>12, <2>1, <3>1
    <2>5. at[k] = s(j) - s(i)
      BY <1>10 DEF j
    <2>6. at[l] = s(j + 1) - s(i)
      BY <2>2, <2>3, <2>4, <2>5
    <2> QED BY <2>1, <2>6 DEF l
  <1> HIDE DEF Fine
  <1>11. \A k \in 0..q : k \in good
    <2>1. 0 \in good
      BY <1>2, <1>9
    <2>2. \A k \in 0..q - 1 : k \in good => k + 1 \in good
      <3> TAKE k \in 0..q - 1
      <3>1. k + 1 \in 0..q
        BY <1>2
      <3> QED BY <1>10, <3>1
    <2> HIDE DEF good, q
    <2> QED BY <1>2, <2>1, <2>2, Induction
  <1>13. \A k \in 0..q : at[k] = s(i + k) - s(i)
    BY <1>11 DEF Fine
  <1> HIDE DEF q, h
  <1>14. SuffixAt(data, ends, i, at)
    BY <1>5, <1>7, <1>13 DEF SuffixAt, Concat, t, q, s, cs
  <1> QED BY <1>14

\* They are that much of the end of the data.
LEMMA SuffixLength ==
    ASSUME NEW data \in Seq(Byte), NEW ends, CutFrom(data, ends, 0), NEW i \in 1..Len(ends) + 1
    PROVE  Len(Concat(SubSeq(ChunksOf(data, ends), i, Len(ends)))) =
               Len(data) - StartOf(ends, 0, i)
  <1> DEFINE m == Len(ends)
             t == SubSeq(ChunksOf(data, ends), i, m)
             q == m + 1 - i
             s(j) == StartOf(ends, 0, j)
  <1>1. m \in Nat /\ Len(data) \in Nat /\ s(m + 1) = Len(data)
    BY DEF CutFrom
  <1>2. CutFrom(data, ends, 0)
    OBVIOUS
  <1> HIDE DEF s
  <1>3. PICK at : Laid(t, at, Concat(t)) /\ Len(t) = q /\ \A k \in 0..q : at[k] = s(i + k) - s(i)
    <2>1. \E at : SuffixAt(data, ends, i, at)
      BY <1>2, SuffixLaid
    <2> QED BY <2>1 DEF SuffixAt, s
  <1> HIDE DEF t
  <1>4. at[q] = Len(Concat(t))
    BY <1>3 DEF Laid
  <1>5. q \in 0..q /\ i + q = m + 1
    BY <1>1
  <1> HIDE DEF q
  <1>6. Len(Concat(t)) = Len(data) - s(i)
    BY <1>1, <1>3, <1>4, <1>5
  <1> QED BY <1>6 DEF t, s

\* All of them are the data.
LEMMA ChunksAreData ==
    ASSUME NEW data \in Seq(Byte), NEW ends, CutFrom(data, ends, 0)
    PROVE  Concat(ChunksOf(data, ends)) = data
  <1> DEFINE m == Len(ends)
             n == Len(data)
             cs == ChunksOf(data, ends)
             s(j) == StartOf(ends, 0, j)
             c == Concat(cs)
  <1>1. CutFrom(data, ends, 0)
    OBVIOUS
  <1>2. /\ m \in Nat /\ n \in Nat /\ s(m + 1) = n /\ s(1) = 0
        /\ \A j \in 1..m : s(j) \in 0..n - 1 /\ ends[j] \in s(j) + 1..n
    BY <1>1, EndsAre DEF CutFrom, StartOf
  <1>3. /\ cs \in Seq(Seq(Byte)) /\ Len(cs) = m
        /\ \A j \in 1..m : /\ Len(cs[j]) = ends[j] - s(j)
                           /\ \A k \in 1..ends[j] - s(j) : cs[j][k] = data[s(j) + k]
    BY <1>1, ChunkParts
  <1>4. SubSeq(cs, 1, m) = cs
    <2> HIDE DEF cs
    <2> QED BY <1>3
  <1>5. PICK at : Laid(cs, at, c) /\ \A k \in 0..m : at[k] = s(1 + k) - s(1)
    <2>1. 1 \in 1..m + 1 /\ m + 1 - 1 = m
      BY <1>2
    <2>2. \E at : /\ Laid(SubSeq(cs, 1, m), at, Concat(SubSeq(cs, 1, m)))
                  /\ \A k \in 0..m + 1 - 1 : at[k] = s(1 + k) - s(1)
      <3> DEFINE i == 1
      <3>1. i \in 1..m + 1
        BY <2>1
      <3> HIDE DEF i
      <3>2. \E at : SuffixAt(data, ends, i, at)
        BY <1>1, <3>1, SuffixLaid
      <3> QED BY <3>2 DEF SuffixAt, s, i
    <2> HIDE DEF s, cs
    <2> QED BY <1>4, <2>1, <2>2
  <1>6. c \in Seq(Byte)
    <2> HIDE DEF cs
    <2> QED BY <1>3, FlattenLaid DEF Concat
  <1>7. /\ at[m] = Len(c)
        /\ \A k \in 1..m : \A j \in 1..Len(cs[k]) : c[at[k - 1] + j] = cs[k][j]
    <2> HIDE DEF cs, c
    <2> QED BY <1>3, <1>5 DEF Laid
  <1> HIDE DEF cs, c, s
  <1>8. \A k \in 1..m : s(k + 1) = ends[k]
    <2> TAKE k \in 1..m
    <2>1. k + 1 # 1 /\ k + 1 - 1 = k
      BY <1>2
    <2> QED BY <2>1 DEF StartOf, s
  <1>9. \A k \in 1..m : at[k - 1] = s(k) /\ at[k] = ends[k]
    <2> TAKE k \in 1..m
    <2>1. k - 1 \in 0..m /\ k \in 0..m /\ 1 + (k - 1) = k /\ 1 + k = k + 1
      BY <1>2
    <2>2. s(k) \in Int /\ ends[k] \in Int
      BY <1>2
    <2>3. at[k - 1] = s(k) - s(1) /\ at[k] = s(k + 1) - s(1)
      BY <1>5, <2>1
    <2> QED BY <1>2, <1>8, <2>2, <2>3
  <1> DEFINE good == {k \in 0..m : \A p \in 1..at[k] : c[p] = data[p]}
  <1>10. 0 \in good
    <2>1. 0 \in 0..m /\ 1 + 0 = 1
      BY <1>2
    <2>2. at[0] = 0
      BY <1>2, <1>5, <2>1
    <2> QED BY <2>1, <2>2
  <1>11. ASSUME NEW k \in 0..m - 1, k \in good PROVE k + 1 \in good
    <2> DEFINE l == k + 1
    <2>1. l \in 1..m /\ l - 1 = k /\ l \in 0..m
      BY <1>2
    <2> HIDE DEF l
    <2>2. at[k] = s(l) /\ at[l] = ends[l] /\ s(l) \in 0..n - 1 /\ ends[l] \in s(l) + 1..n
      BY <1>2, <1>9, <2>1
    <2>3. ASSUME NEW p \in 1..at[l] PROVE c[p] = data[p]
      <3>1. CASE p <= at[k]
        <4>1. p \in 1..at[k]
          BY <1>2, <2>2, <3>1
        <4> QED BY <1>11, <4>1
      <3>2. CASE ~(p <= at[k])
        <4> DEFINE j == p - s(l)
        <4>1. j \in 1..ends[l] - s(l) /\ s(l) + j = p
          BY <1>2, <2>2, <3>2
        <4> HIDE DEF j
        <4>2. c[at[l - 1] + j] = cs[l][j] /\ cs[l][j] = data[s(l) + j]
          BY <1>3, <1>7, <2>1, <4>1
        <4> QED BY <2>1, <2>2, <4>1, <4>2
      <3> QED BY <3>1, <3>2
    <2> QED BY <2>1, <2>3 DEF l
  <1>12. m \in good
    <2>1. m \in 0..m
      BY <1>2
    <2> HIDE DEF good
    <2> QED BY <1>2, <1>10, <1>11, <2>1, Induction
  <1>13. Len(c) = n
    <2>1. m \in 0..m /\ 1 + m = m + 1
      BY <1>2
    <2>2. at[m] = s(m + 1) - s(1)
      BY <1>5, <2>1
    <2> QED BY <1>2, <1>7, <2>2
  <1>14. c = data
    <2>1. \A p \in 1..n : c[p] = data[p]
      BY <1>7, <1>12, <1>13
    <2> QED BY <1>2, <1>6, <1>13, <2>1, SeqEqual
  <1> QED BY <1>14 DEF c, cs

\* The ends of the chunks, counted from the end of the data.
LEMMA EndsBackAre ==
    ASSUME NEW data \in Seq(Byte), NEW ends, CutFrom(data, ends, 0)
    PROVE  EndsBack(ChunksOf(data, ends)) = {Len(data) - ends[j] : j \in 1..Len(ends)}
  <1> DEFINE m == Len(ends)
             cs == ChunksOf(data, ends)
             L(i) == Len(Concat(SubSeq(cs, i, m)))
  <1>1. CutFrom(data, ends, 0)
    OBVIOUS
  <1>2. m \in Nat /\ Len(cs) = m
    BY <1>1, EndsAre, ChunkParts
  <1>3. \A i \in 2..m + 1 : L(i) = Len(data) - ends[i - 1]
    <2> TAKE i \in 2..m + 1
    <2>1. i \in 1..m + 1 /\ i # 1
      BY <1>2
    <2>2. L(i) = Len(data) - StartOf(ends, 0, i)
      BY <1>1, <2>1, SuffixLength
    <2> QED BY <2>1, <2>2 DEF StartOf
  <1>4. EndsBack(cs) = {L(i) : i \in 2..m + 1}
    BY <1>2 DEF EndsBack
  <1> HIDE DEF cs, L
  <1>5. ASSUME NEW j \in 1..m PROVE j + 1 \in 2..m + 1 /\ j + 1 - 1 = j
    BY <1>2
  <1>6. ASSUME NEW i \in 2..m + 1 PROVE i - 1 \in 1..m
    BY <1>2
  <1>7. ASSUME NEW x, x \in EndsBack(cs) PROVE x \in {Len(data) - ends[j] : j \in 1..m}
    BY <1>3, <1>4, <1>6, <1>7
  <1>8. ASSUME NEW j \in 1..m PROVE Len(data) - ends[j] \in EndsBack(cs)
    <2> DEFINE i == j + 1
    <2>1. i \in 2..m + 1 /\ i - 1 = j
      BY <1>5
    <2> HIDE DEF i
    <2>2. L(i) = Len(data) - ends[j]
      BY <1>3, <2>1
    <2> QED BY <1>4, <2>1, <2>2
  <1> QED BY <1>7, <1>8 DEF cs

\* Two data with the same last s bytes.
SameEnd(d, e, s) ==
    /\ s \in Nat /\ s <= Len(d) /\ s <= Len(e)
    /\ \A k \in 1..s : d[Len(d) - s + k] = e[Len(e) - s + k]

\* From a cut in both that is behind a first chunk, the next cut is in both.
LEMMA NextAlike ==
    ASSUME NEW d \in Seq(Byte), NEW e \in Seq(Byte), NEW s, SameEnd(d, e, s),
           NEW x \in 0..Len(d) - 1, NEW y \in 0..Len(e) - 1,
           Len(d) - x = Len(e) - y, Len(d) - x <= s, x >= MinSize, y >= MinSize
    PROVE  Len(d) - ChunkBoundary(d, x) = Len(e) - ChunkBoundary(e, y)
  <1> DEFINE n == Len(d)
             h == Len(e)
             m == n - x
  <1>1. /\ n \in Nat /\ h \in Nat /\ s \in Nat /\ m \in Nat /\ s <= n /\ s <= h /\ m <= s
        /\ n - x = m /\ h - y = m /\ x \in Nat /\ y \in Nat
    BY DEF SameEnd
  <1>2. x >= MinSize /\ y >= MinSize /\ MinSize \in Nat /\ Window \in Nat /\ Window <= 2 * MinSize
    BY ChunkAssumption, WindowAssumption
  <1>3. x + MinSize >= Window /\ y + MinSize >= Window
    BY <1>1, <1>2
  <1>4. ChunkBoundary(d, x) = x + Reach(d, x) /\ Reach(d, x) \in Nat
    BY <1>3, BoundaryReached
  <1>5. ChunkBoundary(e, y) = y + Reach(e, y)
    BY <1>3, BoundaryReached
  <1>6. \A i \in 1..m : d[x + i] = e[y + i]
    <2> TAKE i \in 1..m
    <2> DEFINE k == s - m + i
    <2> HIDE DEF m
    <2>1. k \in 1..s /\ n - s + k = x + i /\ h - s + k = y + i
      BY <1>1
    <2> HIDE DEF k
    <2>2. d[n - s + k] = e[h - s + k]
      BY <2>1 DEF SameEnd
    <2> QED BY <2>1, <2>2
  <1>7. Reach(d, x) = Reach(e, y)
    <2>1. Len(d) - x = Len(e) - y /\ \A i \in 1..Len(d) - x : d[x + i] = e[y + i]
      BY <1>6
    <2> QED BY <2>1, CutAlike
  <1> DEFINE r == Reach(d, x)
             bd == ChunkBoundary(d, x)
             be == ChunkBoundary(e, y)
  <1>8. bd = x + r /\ be = y + r /\ r \in Nat
    BY <1>4, <1>5, <1>7
  <1> HIDE DEF n, h, m, r, bd, be
  <1>9. n - bd = h - be
    BY <1>1, <1>8
  <1> QED BY <1>9 DEF n, h, bd, be

\* The ends of later chunks are further on.
LEMMA EndsRise ==
    ASSUME NEW data \in Seq(Byte), NEW ends, CutFrom(data, ends, 0), NEW i \in 1..Len(ends)
    PROVE  \A k \in 0..Len(ends) - i : k > 0 => ends[i + k] > ends[i]
  <1> DEFINE m == Len(ends)
             q == m - i
             good == {k \in 0..q : k > 0 => ends[i + k] > ends[i]}
  <1>1. /\ m \in Nat /\ Len(data) \in Nat
        /\ \A j \in 1..m : /\ StartOf(ends, 0, j) \in 0..Len(data) - 1
                           /\ ends[j] \in StartOf(ends, 0, j) + 1..Len(data)
    <2>1. Ordered(data, ends)
      BY EndsOrdered
    <2> QED BY <2>1 DEF Ordered
  <1>2. q \in Nat /\ i \in 1..m
    BY <1>1
  <1>3. 0 \in good
    BY <1>2
  <1>4. ASSUME NEW k \in 0..q - 1, k \in good PROVE k + 1 \in good
    <2> DEFINE j == i + (k + 1)
    <2>1. j \in 1..m /\ j # 1 /\ j - 1 = i + k /\ i + k \in 1..m /\ k + 1 \in 0..q /\ i + 0 = i
      BY <1>1, <1>2
    <2> HIDE DEF j
    <2>2. StartOf(ends, 0, j) = ends[i + k]
      BY <2>1 DEF StartOf
    <2>3. ends[j] \in ends[i + k] + 1..Len(data) /\ ends[i + k] \in 0..Len(data) - 1
      BY <1>1, <2>1, <2>2
    <2>4. ends[i] \in Int
      BY <1>1, <1>2
    <2>5. ends[i + k] >= ends[i]
      <3>1. CASE k = 0
        BY <2>1, <2>4, <3>1
      <3>2. CASE k # 0
        <4>1. ends[i + k] > ends[i]
          BY <1>4, <3>2
        <4> QED BY <2>3, <2>4, <4>1
      <3> QED BY <3>1, <3>2
    <2>6. ends[j] > ends[i]
      BY <1>1, <2>3, <2>4, <2>5
    <2> QED BY <2>1, <2>6 DEF j
  <1>5. \A k \in 0..q : k \in good
    <2> HIDE DEF good, q
    <2> QED BY <1>2, <1>3, <1>4, Induction
  <1> QED BY <1>5

\* A cut that both data have within their common end.
BothCut(d, e, a, b, s, i, p) ==
    /\ i \in 1..Len(a) /\ p \in 1..Len(b)
    /\ Len(d) - a[i] = Len(e) - b[p] /\ Len(d) - a[i] <= s

\* After one cut that both have, both have every cut that one of them has.
LEMMA CutsFollow ==
    ASSUME NEW d \in Seq(Byte), NEW e \in Seq(Byte), NEW a, NEW b, NEW s,
           CutFrom(d, a, 0), CutFrom(e, b, 0), SameEnd(d, e, s),
           NEW i, NEW p, BothCut(d, e, a, b, s, i, p)
    PROVE  \A k \in 0..Len(a) - i : BothCut(d, e, a, b, s, i + k, p + k)
  <1> DEFINE n == Len(d)
             h == Len(e)
             m == Len(a)
             l == Len(b)
             q == m - i
             Fine(k) == BothCut(d, e, a, b, s, i + k, p + k)
             good == {k \in 0..q : Fine(k)}
  <1>1. /\ CutFrom(d, a, 0) /\ CutFrom(e, b, 0) /\ SameEnd(d, e, s)
        /\ BothCut(d, e, a, b, s, i, p)
    OBVIOUS
  <1>2. /\ m \in Nat /\ n \in Nat
        /\ \A j \in 1..m : /\ StartOf(a, 0, j) \in 0..n - 1
                           /\ a[j] = ChunkBoundary(d, StartOf(a, 0, j))
                           /\ a[j] \in StartOf(a, 0, j) + 1..n
                           /\ j < m => /\ a[j] \in 0..n - 1
                                       /\ a[j] > StartOf(a, 0, j) + MinSize
    BY <1>1, EndsAre
  <1>3. /\ l \in Nat /\ h \in Nat
        /\ \A j \in 1..l : /\ StartOf(b, 0, j) \in 0..h - 1
                           /\ b[j] = ChunkBoundary(e, StartOf(b, 0, j))
                           /\ b[j] \in StartOf(b, 0, j) + 1..h
                           /\ j < l => /\ b[j] \in 0..h - 1
                                       /\ b[j] > StartOf(b, 0, j) + MinSize
                           /\ j = l => b[j] = h
    BY <1>1, EndsAre
  <1>4. i \in 1..m /\ p \in 1..l /\ q \in Nat /\ s \in Nat /\ MinSize \in Nat
    BY <1>1, <1>2, ChunkAssumption DEF BothCut, SameEnd
  <1>5. 0 \in good
    <2>1. i + 0 = i /\ p + 0 = p
      BY <1>4
    <2> QED BY <1>1, <1>4, <2>1
  <1>6. ASSUME NEW k \in 0..q - 1, k \in good PROVE k + 1 \in good
    <2> DEFINE j == i + k
               o == p + k
               x == a[j]
               y == b[o]
    <2>1. j \in 1..m /\ j < m /\ j + 1 \in 1..m /\ j + 1 # 1 /\ j + 1 - 1 = j /\ k + 1 \in 0..q
      BY <1>2, <1>4
    <2>2. o \in 1..l /\ n - x = h - y /\ n - x <= s
      BY <1>6 DEF BothCut
    <2>7. i + (k + 1) = j + 1 /\ p + (k + 1) = o + 1
      BY <1>4
    <2> HIDE DEF j, o, q
    <2>3. x \in 0..n - 1 /\ x > MinSize
      <3>1. StartOf(a, 0, j) \in 0..n - 1 /\ x > StartOf(a, 0, j) + MinSize /\ x \in 0..n - 1
        BY <1>2, <2>1
      <3> HIDE DEF x
      <3> QED BY <1>2, <1>4, <3>1
    <2>4. y \in 0..h - 1 /\ o < l
      <3>1. y \in Int /\ (o = l => y = h)
        BY <1>3, <2>2
      <3>2. o < l
        <4> HIDE DEF x, y
        <4> QED BY <1>2, <1>3, <2>2, <2>3, <3>1
      <3> QED BY <1>3, <2>2, <3>2
    <2>5. y > MinSize /\ o + 1 \in 1..l /\ o + 1 # 1 /\ o + 1 - 1 = o
      <3>1. StartOf(b, 0, o) \in 0..h - 1 /\ y > StartOf(b, 0, o) + MinSize
        BY <1>3, <2>2, <2>4
      <3>2. y > MinSize
        <4> HIDE DEF y
        <4> QED BY <1>3, <1>4, <2>4, <3>1
      <3> QED BY <1>3, <2>2, <2>4, <3>2
    <2>6. a[j + 1] = ChunkBoundary(d, x) /\ b[o + 1] = ChunkBoundary(e, y)
      <3>1. StartOf(a, 0, j + 1) = x /\ StartOf(b, 0, o + 1) = y
        <4> DEFINE j1 == j + 1
                   o1 == o + 1
        <4>1. j1 # 1 /\ j1 - 1 = j /\ o1 # 1 /\ o1 - 1 = o
          BY <1>2, <1>3, <2>1, <2>2
        <4> HIDE DEF j1, o1
        <4>2. StartOf(a, 0, j1) = x
          BY <4>1 DEF StartOf
        <4>3. StartOf(b, 0, o1) = y
          BY <4>1 DEF StartOf
        <4> QED BY <4>2, <4>3 DEF j1, o1
      <3> HIDE DEF x, y
      <3> QED BY <1>2, <1>3, <2>1, <2>5, <3>1
    <2> HIDE DEF x, y
    <2>8. n - a[j + 1] = h - b[o + 1]
      <3>1. x >= MinSize /\ y >= MinSize
        BY <1>2, <1>3, <1>4, <2>3, <2>4, <2>5
      <3>2. n - ChunkBoundary(d, x) = h - ChunkBoundary(e, y)
        BY <1>1, <2>2, <2>3, <2>4, <3>1, NextAlike
      <3> QED BY <2>6, <3>2
    <2>9. n - a[j + 1] <= s
      <3>1. ChunkBoundary(d, x) \in x + 1..n
        BY <2>3, BoundaryWithin
      <3> QED BY <1>2, <1>4, <2>2, <2>3, <2>6, <3>1
    <2>10. BothCut(d, e, a, b, s, j + 1, o + 1)
      BY <2>1, <2>5, <2>8, <2>9 DEF BothCut
    <2> QED BY <2>1, <2>7, <2>10
  <1> HIDE DEF Fine
  <1>7. \A k \in 0..q : k \in good
    <2> HIDE DEF good, q
    <2> QED BY <1>4, <1>5, <1>6, Induction
  <1> QED BY <1>7 DEF Fine

\* Of two cuts the one nearer to the end is some chunks after the other.
LEMMA CutAfter ==
    ASSUME NEW data \in Seq(Byte), NEW ends, CutFrom(data, ends, 0),
           NEW i \in 1..Len(ends), NEW j \in 1..Len(ends), ends[j] >= ends[i]
    PROVE  \E k \in 0..Len(ends) - i : j = i + k
  <1>1. CutFrom(data, ends, 0) /\ ends[j] >= ends[i]
    OBVIOUS
  <1>2. /\ Len(ends) \in Nat /\ Len(data) \in Nat
        /\ \A o \in 1..Len(ends) : /\ StartOf(ends, 0, o) \in 0..Len(data) - 1
                                   /\ ends[o] \in StartOf(ends, 0, o) + 1..Len(data)
    <2>1. Ordered(data, ends)
      BY EndsOrdered
    <2> QED BY <2>1 DEF Ordered
  <1>3. ends[j] \in Int /\ ends[i] \in Int
    BY <1>2
  <1>4. CASE j < i
    <2> DEFINE k == i - j
    <2>1. k \in 0..Len(ends) - j /\ k > 0 /\ j + k = i
      BY <1>2, <1>4
    <2> HIDE DEF k
    <2>2. ends[j + k] > ends[j]
      BY <1>1, <2>1, EndsRise
    <2> QED BY <1>1, <1>3, <2>1, <2>2
  <1>5. CASE ~(j < i)
    <2>1. j - i \in 0..Len(ends) - i /\ j = i + (j - i)
      BY <1>2, <1>5
    <2> QED BY <2>1
  <1> QED BY <1>4, <1>5

\* Up to a cut that both have, counted from the end, the one has the cuts of the other.
LEMMA CutsWithin ==
    ASSUME NEW d \in Seq(Byte), NEW e \in Seq(Byte), NEW a, NEW b, NEW s,
           CutFrom(d, a, 0), CutFrom(e, b, 0), SameEnd(d, e, s),
           NEW i, NEW p, BothCut(d, e, a, b, s, i, p),
           NEW j \in 1..Len(a), Len(d) - a[j] <= Len(d) - a[i]
    PROVE  \E o \in 1..Len(b) : Len(d) - a[j] = Len(e) - b[o]
  <1>1. /\ CutFrom(d, a, 0) /\ CutFrom(e, b, 0) /\ SameEnd(d, e, s)
        /\ BothCut(d, e, a, b, s, i, p) /\ Len(d) - a[j] <= Len(d) - a[i]
    OBVIOUS
  <1>2. i \in 1..Len(a)
    BY <1>1 DEF BothCut
  <1>3. a[j] >= a[i]
    <2>1. /\ Len(d) \in Nat
          /\ \A o \in 1..Len(a) : /\ StartOf(a, 0, o) \in 0..Len(d) - 1
                                  /\ a[o] \in StartOf(a, 0, o) + 1..Len(d)
      <3>1. Ordered(d, a)
        BY <1>1, EndsOrdered
      <3> QED BY <3>1 DEF Ordered
    <2>2. a[j] \in Int /\ a[i] \in Int
      BY <1>2, <2>1
    <2> QED BY <1>1, <2>1, <2>2
  <1>4. PICK k \in 0..Len(a) - i : j = i + k
    BY <1>1, <1>2, <1>3, CutAfter
  <1>5. BothCut(d, e, a, b, s, i + k, p + k)
    BY <1>1, CutsFollow
  <1>6. p + k \in 1..Len(b) /\ Len(d) - a[j] = Len(e) - b[p + k]
    BY <1>4, <1>5 DEF BothCut
  <1> QED BY <1>6

\* A chunk that starts at or after a cut both have is a chunk of the other.
LEMMA ChunkShared ==
    ASSUME NEW d \in Seq(Byte), NEW e \in Seq(Byte), NEW a, NEW b, NEW s,
           CutFrom(d, a, 0), CutFrom(e, b, 0), SameEnd(d, e, s),
           NEW i, NEW p, BothCut(d, e, a, b, s, i, p),
           NEW j \in 1..Len(a), Len(d) - StartOf(a, 0, j) <= Len(d) - a[i]
    PROVE  \E o \in 1..Len(b) : ChunksOf(d, a)[j] = ChunksOf(e, b)[o]
  <1> DEFINE n == Len(d)
             h == Len(e)
  <1>1. /\ CutFrom(d, a, 0) /\ CutFrom(e, b, 0) /\ SameEnd(d, e, s)
        /\ BothCut(d, e, a, b, s, i, p) /\ n - StartOf(a, 0, j) <= n - a[i]
    OBVIOUS
  <1>2. i \in 1..Len(a) /\ p \in 1..Len(b)
    BY <1>1 DEF BothCut
  <1>3. /\ n \in Nat /\ Len(a) \in Nat
        /\ \A o \in 1..Len(a) : StartOf(a, 0, o) \in 0..n - 1 /\ a[o] \in StartOf(a, 0, o) + 1..n
    <2>1. Ordered(d, a)
      BY <1>1, EndsOrdered
    <2> QED BY <2>1 DEF Ordered
  <1>4. /\ h \in Nat /\ Len(b) \in Nat
        /\ \A o \in 1..Len(b) : StartOf(b, 0, o) \in 0..h - 1 /\ b[o] \in StartOf(b, 0, o) + 1..h
    <2>1. Ordered(e, b)
      BY <1>1, EndsOrdered
    <2> QED BY <2>1 DEF Ordered
  <1>5. StartOf(a, 0, j) >= a[i] /\ a[i] > 0 /\ a[i] \in Int
    <2>1. a[i] \in StartOf(a, 0, i) + 1..n /\ StartOf(a, 0, i) \in 0..n - 1 /\ StartOf(a, 0, j) \in 0..n - 1
      BY <1>2, <1>3
    <2> QED BY <1>1, <1>3, <2>1
  <1>6. j # 1
    BY <1>5 DEF StartOf
  <1> DEFINE r == j - 1
  <1>7. r \in 1..Len(a) /\ j = r + 1 /\ r + 1 # 1 /\ r + 1 - 1 = r
    BY <1>3, <1>6
  <1>8. StartOf(a, 0, j) = a[r]
    BY <1>6 DEF StartOf
  <1> HIDE DEF r, n, h
  <1>9. a[r] >= a[i]
    BY <1>5, <1>8
  <1>10. PICK k \in 0..Len(a) - i : r = i + k
    BY <1>1, <1>2, <1>7, <1>9, CutAfter
  <1>11. k + 1 \in 0..Len(a) - i /\ j = i + (k + 1) /\ p + (k + 1) = p + k + 1
    BY <1>2, <1>3, <1>4, <1>7, <1>10
  <1> DEFINE o == p + (k + 1)
             l == p + k
  <1>12. BothCut(d, e, a, b, s, r, l)
    BY <1>1, <1>10, CutsFollow
  <1>13. BothCut(d, e, a, b, s, j, o)
    <2> DEFINE z == k + 1
    <2>1. z \in 0..Len(a) - i /\ j = i + z
      BY <1>11
    <2> HIDE DEF z
    <2>2. BothCut(d, e, a, b, s, i + z, p + z)
      BY <1>1, <2>1, CutsFollow
    <2> QED BY <2>1, <2>2 DEF z
  <1>14. o # 1 /\ o - 1 = l /\ o \in 1..Len(b) /\ l \in 1..Len(b)
    <2>1. o \in 1..Len(b) /\ l \in 1..Len(b)
      BY <1>12, <1>13 DEF BothCut
    <2> QED BY <1>2, <1>4, <1>10, <2>1
  <1> HIDE DEF o, l
  <1>15. StartOf(b, 0, o) = b[l]
    BY <1>14 DEF StartOf
  <1> DEFINE x == a[r]
             y == b[l]
             u == a[j]
             v == b[o]
             c == u - x
  <1>16. n - x = h - y /\ n - u = h - v /\ n - x <= s /\ s \in Nat
    BY <1>1, <1>12, <1>13 DEF BothCut, SameEnd, n, h
  <1>17. x \in 0..n - 1 /\ u \in x + 1..n /\ y \in 0..h - 1 /\ v \in y + 1..h
    BY <1>3, <1>4, <1>8, <1>14, <1>15
  <1> HIDE DEF x, y, u, v
  <1>18. c \in Nat /\ v - y = c /\ x \in Nat /\ y \in Nat /\ x + c <= n /\ y + c <= h
    BY <1>3, <1>4, <1>16, <1>17
  <1>19. \A q \in 1..c : d[x + q] = e[y + q]
    <2> TAKE q \in 1..c
    <2> DEFINE w == s - (n - x) + q
    <2> HIDE DEF c
    <2>1. c <= n - x /\ s <= n /\ s <= h
      BY <1>1, <1>3, <1>17, <1>18 DEF SameEnd, n, h
    <2>2. w \in 1..s /\ n - s + w = x + q /\ h - s + w = y + q
      BY <1>3, <1>4, <1>16, <1>17, <1>18, <2>1
    <2> HIDE DEF w
    <2>3. d[n - s + w] = e[h - s + w]
      BY <1>1, <2>2 DEF SameEnd, n, h
    <2> QED BY <2>2, <2>3
  <1> HIDE DEF c
  <1>20. After(d, x, c) = After(e, y, c)
    <2>1. Alike(d, x, e, y, c)
      BY <1>18, <1>19 DEF Alike, n, h
    <2> QED BY <1>18, <2>1, SamePart
  <1>21. ChunksOf(d, a)[j] = After(d, x, c)
    <2>1. ChunksOf(d, a)[j] = After(d, StartOf(a, 0, j), a[j] - StartOf(a, 0, j))
      BY <1>1, ChunkParts
    <2> QED BY <1>8, <2>1 DEF x, c, u
  <1>22. ChunksOf(e, b)[o] = After(e, y, c)
    <2>1. ChunksOf(e, b)[o] = After(e, StartOf(b, 0, o), b[o] - StartOf(b, 0, o))
      BY <1>1, <1>14, ChunkParts
    <2>2. v - y = c
      BY <1>18
    <2> QED BY <1>15, <2>1, <2>2 DEF y, v
  <1> QED BY <1>14, <1>20, <1>21, <1>22

\* BuildSyncPlan goes through the chunks: the table of its fold.
IsMissing(chunks, remote, f) ==
    f = [s \in SUBSET DOMAIN chunks |->
        IF s = {} THEN <<>>
        ELSE IF chunks[Max(s)] \in remote THEN f[s \ {Max(s)}]
        ELSE Append(f[s \ {Max(s)}], chunks[Max(s)])]
Missing(chunks, remote) == CHOOSE f : IsMissing(chunks, remote, f)

\* The plan has its entry for all chunks.
LEMMA PlanIs ==
    \A chunks, remote :
        SyncPlan(chunks, remote).missing = Missing(chunks, remote)[DOMAIN chunks]
  BY DEF SyncPlan, Missing, IsMissing, FoldLeft, MapThenFoldSet

\* The table exists.
LEMMA MissingExists ==
    ASSUME NEW chunks, Len(chunks) \in Nat, DOMAIN chunks = 1..Len(chunks), NEW remote
    PROVE  IsMissing(chunks, remote, Missing(chunks, remote))
  <1> DEFINE what == <<"missing", remote>>
  <1>1. what[1] \notin {"compact", "pieces"} /\ what[2] = remote
    OBVIOUS
  <1> HIDE DEF what
  <1>2. \A f : IsTable(what, chunks, f) <=> IsMissing(chunks, remote, f)
    BY <1>1 DEF IsTable, IsMissing, Turn, Base
  <1>3. \E f : IsTable(what, chunks, f)
    BY TableExists
  <1> QED BY <1>2, <1>3 DEF Missing

\* No chunk the plan sends is one the other end has.
LEMMA MissingAbsent ==
    ASSUME NEW chunks \in Seq(Seq(Byte)), NEW remote
    PROVE  \A c \in ToSet(SyncPlan(chunks, remote).missing) : c \notin remote
  <1> DEFINE n == Len(chunks)
             f == Missing(chunks, remote)
             absent == {c \in Seq(Byte) : c \notin remote}
             good == {k \in 0..n : f[1..k] \in Seq(absent)}
  <1>1. n \in Nat /\ DOMAIN chunks = 1..n /\ \A i \in 1..n : chunks[i] \in Seq(Byte)
    OBVIOUS
  <1>2. IsMissing(chunks, remote, f)
    BY <1>1, MissingExists
  <1> HIDE DEF f
  <1>3. ASSUME NEW s \in SUBSET (1..n)
        PROVE  f[s] = IF s = {} THEN <<>>
                      ELSE IF chunks[Max(s)] \in remote THEN f[s \ {Max(s)}]
                      ELSE Append(f[s \ {Max(s)}], chunks[Max(s)])
    <2>1. f = [r \in SUBSET DOMAIN chunks |->
                 IF r = {} THEN <<>>
                 ELSE IF chunks[Max(r)] \in remote THEN f[r \ {Max(r)}]
                 ELSE Append(f[r \ {Max(r)}], chunks[Max(r)])]
      BY <1>2 DEF IsMissing
    <2>2. s \in SUBSET DOMAIN chunks
      BY <1>1
    <2> QED BY <2>1, <2>2, Zenon
  <1>4. 0 \in good
    <2>1. 1..0 = {} /\ 0 \in 0..n /\ 1..0 \in SUBSET (1..n)
      BY <1>1
    <2>2. f[1..0] = <<>>
      BY <1>3, <2>1
    <2>3. <<>> \in Seq(absent)
      OBVIOUS
    <2> HIDE DEF absent
    <2> QED BY <2>1, <2>2, <2>3
  <1>5. ASSUME NEW k \in 0..n - 1, k \in good PROVE k + 1 \in good
    <2> DEFINE j == k + 1
               s == 1..j
    <2>1. j \in 1..n /\ j \in 0..n /\ j \in Nat /\ s \in SUBSET (1..n) /\ s \in SUBSET (1..j) /\ j \in s /\ s \ {j} = 1..k
      BY <1>1
    <2>2. Max(s) = j
      <3>1. s # {}
        BY <2>1
      <3> HIDE DEF j
      <3>2. Max(s) \in s /\ \A i \in s : i <= Max(s)
        BY <2>1, <3>1, Ends
      <3> QED BY <2>1, <3>2
    <2>3. f[1..k] \in Seq(absent)
      BY <1>5
    <2> HIDE DEF s, j
    <2>4. f[s] = IF chunks[j] \in remote THEN f[1..k] ELSE Append(f[1..k], chunks[j])
      BY <1>3, <2>1, <2>2
    <2>5. f[s] \in Seq(absent)
      <3>1. CASE chunks[j] \in remote
        BY <2>3, <2>4, <3>1
      <3>2. CASE chunks[j] \notin remote
        <4>1. chunks[j] \in absent
          BY <1>1, <2>1, <3>2
        <4> DEFINE r == f[1..k]
        <4> HIDE DEF r, absent
        <4>2. Append(r, chunks[j]) \in Seq(absent)
          BY <2>3, <4>1 DEF r
        <4> QED BY <2>4, <3>2, <4>2 DEF r
      <3> QED BY <3>1, <3>2
    <2> QED BY <2>1, <2>5 DEF s, j
  <1>6. n \in good
    <2>1. n \in 0..n
      BY <1>1
    <2> HIDE DEF good
    <2> QED BY <1>1, <1>4, <1>5, <2>1, Induction
  <1> DEFINE m == SyncPlan(chunks, remote).missing
  <1>7. m \in Seq(absent)
    <2>1. m = f[1..n]
      BY <1>1, PlanIs DEF f
    <2> QED BY <1>6, <2>1
  <1> HIDE DEF m
  <1>8. \A c \in ToSet(m) : c \in absent
    <2> HIDE DEF absent
    <2> QED BY <1>7 DEF ToSet
  <1> QED BY <1>8 DEF m

\* Up to a cut that both have, what is an end in the one is an end in the other.
EndsOf(data, ends) == {Len(data) - ends[j] : j \in 1..Len(ends)}

\* In one direction.
LEMMA EndsShared ==
    ASSUME NEW d \in Seq(Byte), NEW e \in Seq(Byte), NEW a, NEW b, NEW s,
           CutFrom(d, a, 0), CutFrom(e, b, 0), SameEnd(d, e, s),
           NEW i, NEW p, BothCut(d, e, a, b, s, i, p),
           NEW y \in EndsOf(d, a), y <= Len(d) - a[i]
    PROVE  y \in EndsOf(e, b)
  <1>1. /\ CutFrom(d, a, 0) /\ CutFrom(e, b, 0) /\ SameEnd(d, e, s)
        /\ BothCut(d, e, a, b, s, i, p)
    OBVIOUS
  <1>2. PICK j \in 1..Len(a) : y = Len(d) - a[j]
    BY DEF EndsOf
  <1>3. Len(d) - a[j] <= Len(d) - a[i]
    BY <1>2
  <1>4. PICK o \in 1..Len(b) : Len(d) - a[j] = Len(e) - b[o]
    BY <1>1, <1>3, CutsWithin
  <1> QED BY <1>2, <1>4 DEF EndsOf

\* What two data with the same end have in common: n bytes from the end on, the same
\* ends, and of the one no chunk that the other has not.
MeetAt(d, e, a, b, n) ==
    /\ EndsOf(d, a) \cap 0..n = EndsOf(e, b) \cap 0..n
    /\ \A j \in 1..Len(a) :
          Len(d) - StartOf(a, 0, j) <= n
              => \E o \in 1..Len(b) : ChunksOf(d, a)[j] = ChunksOf(e, b)[o]

\* That is so from any cut on that both have.
LEMMA EndsMeet ==
    ASSUME NEW d \in Seq(Byte), NEW e \in Seq(Byte), NEW a, NEW b, NEW s,
           CutFrom(d, a, 0), CutFrom(e, b, 0), SameEnd(d, e, s),
           NEW n \in EndsOf(d, a) \cap EndsOf(e, b), n <= s
    PROVE  MeetAt(d, e, a, b, n)
  <1>1. /\ CutFrom(d, a, 0) /\ CutFrom(e, b, 0) /\ SameEnd(d, e, s) /\ SameEnd(e, d, s)
    BY DEF SameEnd
  <1>2. PICK i \in 1..Len(a) : n = Len(d) - a[i]
    BY DEF EndsOf
  <1>3. PICK p \in 1..Len(b) : n = Len(e) - b[p]
    BY DEF EndsOf
  <1>4. BothCut(d, e, a, b, s, i, p) /\ BothCut(e, d, b, a, s, p, i)
    BY <1>2, <1>3 DEF BothCut
  <1>5. n \in Int
    <2>1. Ordered(d, a)
      BY <1>1, EndsOrdered
    <2>2. Len(d) \in Nat /\ a[i] \in StartOf(a, 0, i) + 1..Len(d)
      BY <2>1 DEF Ordered
    <2>3. a[i] \in Int
      BY <2>2
    <2> QED BY <1>2, <2>2, <2>3
  <1>6. ASSUME NEW y \in EndsOf(d, a), y <= n PROVE y \in EndsOf(e, b)
    <2>1. y <= Len(d) - a[i]
      BY <1>2, <1>6
    <2> QED BY <1>1, <1>4, <2>1, EndsShared
  <1>7. ASSUME NEW y \in EndsOf(e, b), y <= n PROVE y \in EndsOf(d, a)
    <2>1. y <= Len(e) - b[p]
      BY <1>3, <1>7
    <2> QED BY <1>1, <1>4, <2>1, EndsShared
  <1>8. EndsOf(d, a) \cap 0..n = EndsOf(e, b) \cap 0..n
    <2>1. \A y \in 0..n : y <= n
      BY <1>5
    <2> QED BY <1>6, <1>7, <2>1
  <1>9. ASSUME NEW j \in 1..Len(a), Len(d) - StartOf(a, 0, j) <= n
        PROVE  \E o \in 1..Len(b) : ChunksOf(d, a)[j] = ChunksOf(e, b)[o]
    <2>1. Len(d) - StartOf(a, 0, j) <= Len(d) - a[i]
      BY <1>2, <1>9
    <2> QED BY <1>1, <1>4, <2>1, ChunkShared
  <1> QED BY <1>8, <1>9 DEF MeetAt

\* ChunksMeet of two data, with what each step makes of them.
LEMMA MeetHolds ==
    ASSUME NEW d \in Seq(Byte), NEW e \in Seq(Byte), NEW s, SameEnd(d, e, s), NEW l, NEW r, NEW m,
           l = Chunks(d), r = Chunks(e), m = SyncPlan(l, ToSet(r)).missing
    PROVE  LET x == EndsBack(l)
               y == EndsBack(r)
               meet == {n \in x \cap y : n <= s}
           IN  /\ Concat(l) = d
               /\ \A i \in DOMAIN l : /\ Len(l[i]) \in 1..MaxSize
                                      /\ i < Len(l) => Len(l[i]) > MinSize
               /\ \A n \in meet : x \cap 0..n = y \cap 0..n
               /\ meet # {} =>
                     \A i \in DOMAIN l :
                         Len(Concat(SubSeq(l, i, Len(l)))) <= Max(meet) => l[i] \notin ToSet(m)
  <1> DEFINE a == Split(d)
             b == Split(e)
             x == EndsBack(l)
             y == EndsBack(r)
             meet == {n \in x \cap y : n <= s}
  <1>1. CutFrom(d, a, 0) /\ CutFrom(e, b, 0) /\ SameEnd(d, e, s)
    BY SplitCuts
  <1>2. l = ChunksOf(d, a) /\ r = ChunksOf(e, b) /\ m = SyncPlan(l, ToSet(r)).missing
    BY ChunksAre
  <1> HIDE DEF a, b
  <1>3. Concat(l) = d
    BY <1>1, <1>2, ChunksAreData
  <1>4. l \in Seq(Seq(Byte)) /\ Len(l) = Len(a) /\ \A i \in 1..Len(a) : Len(l[i]) = a[i] - StartOf(a, 0, i)
    BY <1>1, <1>2, ChunkParts
  <1>5. r \in Seq(Seq(Byte)) /\ Len(r) = Len(b)
    BY <1>1, <1>2, ChunkParts
  <1>6. DOMAIN l = 1..Len(a) /\ DOMAIN r = 1..Len(b)
    BY <1>4, <1>5
  <1>7. ASSUME NEW i \in 1..Len(a)
        PROVE  Len(l[i]) \in 1..MaxSize /\ (i < Len(a) => Len(l[i]) > MinSize)
    <2> DEFINE u == a[i]
               v == StartOf(a, 0, i)
    <2>1. /\ v \in 0..Len(d) - 1 /\ u \in v + 1..Len(d) /\ u - v <= MaxSize
          /\ i < Len(a) => u > v + MinSize
      BY <1>1, EndsAre
    <2>2. Len(l[i]) = u - v
      BY <1>4
    <2> HIDE DEF u, v
    <2>3. MinSize \in Nat /\ MaxSize \in Nat /\ Len(d) \in Nat
      BY ChunkAssumption
    <2> QED BY <2>1, <2>2, <2>3
  <1>8. x = EndsOf(d, a) /\ y = EndsOf(e, b)
    BY <1>1, <1>2, EndsBackAre DEF EndsOf
  <1>9. \A i \in 1..Len(a) : Len(Concat(SubSeq(l, i, Len(l)))) = Len(d) - StartOf(a, 0, i)
    <2> TAKE i \in 1..Len(a)
    <2>1. i \in 1..Len(a) + 1
      BY <1>4
    <2>2. Len(Concat(SubSeq(ChunksOf(d, a), i, Len(a)))) = Len(d) - StartOf(a, 0, i)
      BY <1>1, <2>1, SuffixLength
    <2> QED BY <1>2, <1>4, <2>2
  <1> HIDE DEF x, y
  <1>10. ASSUME NEW n \in meet
         PROVE  /\ x \cap 0..n = y \cap 0..n
                /\ \A j \in 1..Len(a) :
                      Len(d) - StartOf(a, 0, j) <= n
                          => \E o \in 1..Len(b) : ChunksOf(d, a)[j] = ChunksOf(e, b)[o]
    <2>1. n \in EndsOf(d, a) \cap EndsOf(e, b) /\ n <= s
      BY <1>8
    <2>2. MeetAt(d, e, a, b, n)
      BY <1>1, <2>1, EndsMeet
    <2> QED BY <1>8, <2>2 DEF MeetAt
  <1>11. ASSUME meet # {}, NEW i \in 1..Len(a), Len(d) - StartOf(a, 0, i) <= Max(meet)
         PROVE  l[i] \notin ToSet(m)
    <2>1. meet \in SUBSET (0..Len(d))
      <3>1. ASSUME NEW n \in meet PROVE n \in 0..Len(d)
        <4>1. PICK j \in 1..Len(a) : n = Len(d) - a[j]
          BY <1>8 DEF EndsOf
        <4>2. Ordered(d, a)
          BY <1>1, EndsOrdered
        <4> DEFINE u == a[j]
                   v == StartOf(a, 0, j)
        <4>3. Len(d) \in Nat /\ v \in 0..Len(d) - 1 /\ u \in v + 1..Len(d)
          BY <4>2 DEF Ordered
        <4>4. n = Len(d) - u
          BY <4>1
        <4> HIDE DEF u, v
        <4> QED BY <4>3, <4>4
      <3> QED BY <3>1
    <2>2. Max(meet) \in meet
      <3> DEFINE n == Len(d)
      <3>1. n \in Nat /\ meet \in SUBSET (0..n) /\ meet # {}
        BY <1>11, <2>1
      <3> HIDE DEF meet, n
      <3> QED BY <3>1, Greatest
    <2>3. PICK o \in 1..Len(b) : ChunksOf(d, a)[i] = ChunksOf(e, b)[o]
      <3> DEFINE n == Max(meet)
      <3>1. n \in meet /\ Len(d) - StartOf(a, 0, i) <= n
        BY <1>11, <2>2
      <3> HIDE DEF n, meet
      <3> QED BY <1>10, <3>1
    <2>4. l[i] \in ToSet(r)
      BY <1>2, <1>6, <2>3 DEF ToSet
    <2> DEFINE remote == ToSet(r)
    <2> HIDE DEF remote
    <2>5. \A c \in ToSet(SyncPlan(l, remote).missing) : c \notin remote
      BY <1>4, MissingAbsent
    <2>6. \A c \in ToSet(m) : c \notin remote
      BY <1>2, <2>5 DEF remote
    <2> QED BY <2>4, <2>6 DEF remote
  <1>12. \A i \in DOMAIN l : /\ Len(l[i]) \in 1..MaxSize
                             /\ i < Len(l) => Len(l[i]) > MinSize
    BY <1>4, <1>6, <1>7
  <1>13. \A n \in meet : x \cap 0..n = y \cap 0..n
    BY <1>10
  <1>14. meet # {} =>
             \A i \in DOMAIN l :
                 Len(Concat(SubSeq(l, i, Len(l)))) <= Max(meet) => l[i] \notin ToSet(m)
    <2> HIDE DEF meet
    <2>1. ASSUME meet # {}, NEW i \in DOMAIN l, Len(Concat(SubSeq(l, i, Len(l)))) <= Max(meet)
          PROVE  l[i] \notin ToSet(m)
      <3>1. i \in 1..Len(a)
        BY <1>6
      <3>2. Len(d) - StartOf(a, 0, i) <= Max(meet)
        BY <1>9, <2>1, <3>1
      <3> QED BY <1>11, <2>1, <3>1, <3>2
    <2> QED BY <2>1
  <1> HIDE DEF meet
  <1> DEFINE whole == Concat(l) = d
             sizes == \A i \in DOMAIN l : /\ Len(l[i]) \in 1..MaxSize
                                          /\ i < Len(l) => Len(l[i]) > MinSize
             alike == \A n \in meet : x \cap 0..n = y \cap 0..n
             unsent == meet # {} =>
                 \A i \in DOMAIN l :
                     Len(Concat(SubSeq(l, i, Len(l)))) <= Max(meet) => l[i] \notin ToSet(m)
  <1>15. whole
    BY <1>3
  <1>16. sizes
    BY <1>12
  <1>17. alike
    BY <1>13
  <1>18. unsent
    BY <1>14, Zenon
  <1> HIDE DEF whole, sizes, alike, unsent
  <1>19. whole /\ sizes /\ alike /\ unsent
    BY <1>15, <1>16, <1>17, <1>18
  <1> QED BY <1>19, Zenon DEF meet, x, y, whole, sizes, alike, unsent

-----------------------------------------------------------------------------
(* Pack files *)

\* What a pack is made of.
PackEntry == [hash : Object, offset : Nat, length : Nat]
PackUnit == {"MPAK", "crc32", 1} \cup Nat \cup (Object \X Nat) \cup PackEntry

\* The bytes of an object are as many as it compresses to.
LEMMA BytesOf ==
    ASSUME NEW o \in Object
    PROVE  BodyOf(o) \in Seq(PackUnit) /\ Len(BodyOf(o)) = Compressed[o] /\ Compressed[o] \in Nat \ {0}
  <1> DEFINE n == Compressed[o]
             b == [i \in 1..n |-> <<o, i>>]
  <1>1. n \in Nat \ {0}
    BY CompressedAssumption
  <1> HIDE DEF n
  <1>2. \A i \in 1..n : <<o, i>> \in PackUnit
    BY <1>1 DEF PackUnit
  <1>3. b \in [1..n -> PackUnit] /\ DOMAIN b = 1..n
    BY <1>2
  <1> HIDE DEF b
  <1>4. b \in Seq(PackUnit) /\ Len(b) = n
    BY <1>1, <1>3
  <1> QED BY <1>1, <1>4 DEF b, n, BodyOf

\* The bytes of the objects, one after the other.
Bodies(os) == [i \in 1..Len(os) |-> BodyOf(os[i])]

\* They are laid out as FlattenSeq does it.
LEMMA BodyLaid ==
    ASSUME NEW os \in Seq(Object)
    PROVE  /\ Bodies(os) \in Seq(Seq(PackUnit)) /\ Len(Bodies(os)) = Len(os)
           /\ Body(os) \in Seq(PackUnit) /\ \E at : Laid(Bodies(os), at, Body(os))
  <1>1. Len(os) \in Nat /\ \A i \in 1..Len(os) : os[i] \in Object
    OBVIOUS
  <1>2. \A i \in 1..Len(os) : BodyOf(os[i]) \in Seq(PackUnit)
    BY <1>1, BytesOf
  <1>3. Bodies(os) \in [1..Len(os) -> Seq(PackUnit)] /\ DOMAIN Bodies(os) = 1..Len(os)
    BY <1>2 DEF Bodies
  <1>4. Bodies(os) \in Seq(Seq(PackUnit)) /\ Len(Bodies(os)) = Len(os)
    BY <1>1, <1>3
  <1>5. Body(os) = FlattenSeq(Bodies(os))
    BY DEF Body, Bodies
  <1> QED BY <1>4, <1>5, FlattenLaid

\* The length of what comes before the k-th object is where its bytes begin.
LEMMA BytesStand ==
    ASSUME NEW os \in Seq(Object), NEW k \in 1..Len(os), NEW x,
           x = Len(Body(SubSeq(os, 1, k - 1)))
    PROVE  /\ os[k] \in Object /\ x \in Nat /\ x + Compressed[os[k]] <= Len(Body(os))
           /\ \A j \in 1..Compressed[os[k]] : Body(os)[x + j] = BodyOf(os[k])[j]
  <1>1. x = Len(Body(SubSeq(os, 1, k - 1))) /\ Len(os) \in Nat /\ os[k] \in Object
    OBVIOUS
  <1> DEFINE n == k - 1
             ts == SubSeq(os, 1, n)
             ss == Bodies(os)
             tt == Bodies(ts)
             s == Body(os)
             t == Body(ts)
  <1>2. n \in Nat /\ n + 1 = k /\ 0 + n <= Len(os) /\ n <= Len(os)
    BY <1>1
  <1>3. ts \in Seq(Object) /\ Len(ts) = n /\ \A j \in 1..n : ts[j] = os[j]
    <2> HIDE DEF n
    <2>1. /\ SubSeq(os, 0 + 1, 0 + n) \in Seq(Object) /\ Len(SubSeq(os, 0 + 1, 0 + n)) = n
          /\ \A j \in 1..n : SubSeq(os, 0 + 1, 0 + n)[j] = os[0 + j]
      BY <1>2, Part
    <2>2. 0 + 1 = 1 /\ 0 + n = n /\ \A j \in 1..n : 0 + j = j
      BY <1>2
    <2> QED BY <2>1, <2>2
  <1>4. PICK at : Laid(ss, at, s)
    BY BodyLaid
  <1>5. PICK bt : Laid(tt, bt, t)
    <2> HIDE DEF ts
    <2> QED BY <1>3, BodyLaid
  <1>6. Len(ss) = Len(os) /\ Len(tt) = n
    <2> HIDE DEF ts
    <2> QED BY <1>3, BodyLaid
  <1>7. \A j \in 1..n : tt[j] = ss[j] /\ ss[j] = BodyOf(os[j])
    <2> TAKE j \in 1..n
    <2>1. j \in 1..Len(os) /\ j \in 1..Len(ts) /\ ts[j] = os[j]
      BY <1>2, <1>3
    <2> HIDE DEF ts
    <2> QED BY <2>1 DEF Bodies
  <1>8. ss[k] = BodyOf(os[k])
    BY DEF Bodies
  <1> HIDE DEF ss, tt, s, t, ts
  <1>9. /\ at \in [0..Len(os) -> Nat] /\ at[0] = 0
        /\ \A i \in 1..Len(os) : /\ at[i] = at[i - 1] + Len(ss[i]) /\ at[i] <= Len(s)
                                 /\ \A j \in 1..Len(ss[i]) : s[at[i - 1] + j] = ss[i][j]
    BY <1>4, <1>6 DEF Laid
  <1>10. /\ bt \in [0..n -> Nat] /\ bt[0] = 0 /\ bt[n] = Len(t)
         /\ \A i \in 1..n : bt[i] = bt[i - 1] + Len(tt[i])
    BY <1>5, <1>6 DEF Laid
  <1> DEFINE good == {i \in 0..n : at[i] = bt[i]}
  <1>11. n \in good
    <2>1. 0 \in good
      BY <1>2, <1>9, <1>10
    <2>2. \A i \in 0..n - 1 : i \in good => i + 1 \in good
      <3> TAKE i \in 0..n - 1
      <3> HAVE i \in good
      <3>1. i + 1 \in 1..n /\ i + 1 \in 0..n /\ i + 1 \in 1..Len(os) /\ i + 1 - 1 = i
        BY <1>1, <1>2
      <3>2. at[i + 1] = at[i] + Len(ss[i + 1]) /\ bt[i + 1] = bt[i] + Len(tt[i + 1])
        BY <1>9, <1>10, <3>1
      <3> QED BY <1>7, <3>1, <3>2
    <2> HIDE DEF good
    <2>3. n \in 0..n
      BY <1>2
    <2> QED BY <1>2, <2>1, <2>2, <2>3, Induction
  <1>12. x = at[k - 1]
    BY <1>1, <1>10, <1>11 DEF t, ts
  <1>13. k - 1 \in 0..Len(os) /\ k \in 1..Len(os)
    BY <1>1
  <1>14. Len(ss[k]) = Compressed[os[k]]
    BY <1>1, <1>8, BytesOf
  <1>15. x \in Nat /\ at[k] = x + Compressed[os[k]] /\ at[k] <= Len(s)
         /\ \A j \in 1..Compressed[os[k]] : s[x + j] = ss[k][j]
    BY <1>9, <1>12, <1>13, <1>14
  <1> QED BY <1>1, <1>8, <1>15 DEF s

\* The entry of the k-th object.
LEMMA EntryHas ==
    ASSUME NEW os \in Seq(Object), NEW k \in 1..Len(os), NEW x,
           x = Len(Body(SubSeq(os, 1, k - 1)))
    PROVE  /\ Entries(os)[k] \in PackEntry
           /\ Entries(os)[k] = [hash |-> os[k], offset |-> x % OffsetSize, length |-> Compressed[os[k]]]
  <1>1. x = Len(Body(SubSeq(os, 1, k - 1)))
    OBVIOUS
  <1>2. Entries(os)[k] = [hash |-> os[k], offset |-> x % OffsetSize, length |-> Compressed[os[k]]]
    BY <1>1 DEF Entries
  <1>3. os[k] \in Object /\ x \in Nat /\ Compressed[os[k]] \in Nat
    BY <1>1, BytesStand, BytesOf
  <1>4. x % OffsetSize \in Nat
    BY <1>3, OffsetAssumption
  <1> QED BY <1>2, <1>3, <1>4 DEF PackEntry

\* The entries es of a pack are those of its objects, in the order p.
InOrder(os, p, es) ==
    /\ es \in Seq(PackEntry) /\ Len(es) = Len(os)
    /\ p \in [1..Len(os) -> 1..Len(os)]
    /\ \A k \in 1..Len(os) : \E i \in 1..Len(os) : p[i] = k
    /\ \A i \in 1..Len(os) : es[i] = Entries(os)[p[i]] /\ es[i].hash = os[p[i]]
    /\ \A i, j \in 1..Len(os) : i <= j => es[i].hash <= es[j].hash

\* The sorted entries of a pack are in such an order.
LEMMA SortedInOrder ==
    ASSUME NEW os \in Seq(Object), NEW es \in SortedEntries(os)
    PROVE  \E p : InOrder(os, p, es)
  <1> DEFINE n == Len(os)
             P == 1..n
  <1>1. PICK p \in Bijection(P, P) :
            /\ \A i, j \in P : i <= j => os[p[i]] <= os[p[j]]
            /\ es = [i \in P |-> Entries(os)[p[i]]]
    BY DEF SortedEntries
  <1>2. p \in [P -> P] /\ \A k \in P : \E i \in P : p[i] = k
    <2> HIDE DEF P
    <2> QED BY Fun_BijectionProperties
  <1>3. \A i \in P : es[i] = Entries(os)[p[i]] /\ es[i] \in PackEntry /\ es[i].hash = os[p[i]]
    <2> TAKE i \in P
    <2>1. es[i] = Entries(os)[p[i]] /\ p[i] \in 1..n
      BY <1>1, <1>2
    <2> DEFINE k == p[i]
               x == Len(Body(SubSeq(os, 1, k - 1)))
    <2>2. /\ Entries(os)[k] \in PackEntry
          /\ Entries(os)[k] = [hash |-> os[k], offset |-> x % OffsetSize, length |-> Compressed[os[k]]]
      BY <2>1, EntryHas
    <2> HIDE DEF x
    <2> QED BY <2>1, <2>2
  <1>4. n \in Nat /\ DOMAIN es = 1..n /\ es = [i \in 1..n |-> es[i]]
    <2>1. n \in Nat
      OBVIOUS
    <2>2. DOMAIN es = P
      BY <1>1
    <2>3. es = [i \in P |-> es[i]]
      BY <1>1, <2>2, Zenon
    <2> QED BY <2>1, <2>2, <2>3
  <1>5. es \in [1..n -> PackEntry]
    BY <1>3, <1>4
  <1>6. es \in Seq(PackEntry) /\ Len(es) = n
    BY <1>4, <1>5
  <1>7. \A i, j \in P : i <= j => es[i].hash <= es[j].hash
    BY <1>1, <1>3
  <1> QED BY <1>2, <1>3, <1>6, <1>7 DEF InOrder

\* u is s and, behind it, t.
JoinedAt(S, s, t, a, b, u) ==
    /\ u \in Seq(S) /\ Len(u) = a + b
    /\ \A i \in 1..a : u[i] = s[i]
    /\ \A i \in 1..b : u[a + i] = t[i]

\* Two sequences joined.
LEMMA JoinedIs ==
    ASSUME NEW S, NEW s \in Seq(S), NEW t \in Seq(S), NEW a, a = Len(s), NEW b, b = Len(t),
           NEW u, u = s \o t
    PROVE  JoinedAt(S, s, t, a, b, u)
  BY Joined DEF JoinedAt

\* The file has its fields, its entries and its bytes where they are looked for.
LEMMA FileHas ==
    ASSUME NEW os \in Seq(Object), NEW p, NEW es, InOrder(os, p, es), NEW c \in Nat, NEW f,
           f = PackFile(os, c, es)
    PROVE  /\ f \in Seq(PackUnit) /\ Len(f) = 3 + Len(os) + Len(Body(os)) + 1 /\ f[3] = c
           /\ \A i \in 1..Len(os) : f[3 + i] = es[i]
           /\ \A j \in 1..Len(Body(os)) : f[3 + Len(os) + j] = Body(os)[j]
  <1> DEFINE h == Header(c)
             b == Body(os)
             e == <<"crc32">>
             u == h \o es
             v == u \o b
             n == Len(os)
             m == Len(b)
  <1>1. f = v \o e
    BY DEF PackFile
  <1>2. h \in Seq(PackUnit) /\ Len(h) = 3 /\ h[3] = c
    <2>1. "MPAK" \in PackUnit /\ 1 \in PackUnit /\ c \in PackUnit
      BY DEF PackUnit
    <2> QED BY <2>1 DEF Header
  <1>3. es \in Seq(PackUnit) /\ Len(es) = n
    <2>1. es \in Seq(PackEntry) /\ Len(es) = n
      BY DEF InOrder
    <2>2. PackEntry \subseteq PackUnit
      BY DEF PackUnit
    <2> HIDE DEF n
    <2> QED BY <2>1, <2>2
  <1>4. b \in Seq(PackUnit)
    BY BodyLaid
  <1>5. e \in Seq(PackUnit) /\ Len(e) = 1
    <2>1. "crc32" \in PackUnit
      BY DEF PackUnit
    <2> QED BY <2>1
  <1>6. n \in Nat /\ m \in Nat
    <2>1. n \in Nat
      OBVIOUS
    <2> HIDE DEF b
    <2> QED BY <1>4, <2>1
  <1> HIDE DEF h, b, e, n
  <1>14. u = h \o es /\ v = u \o b /\ m = Len(b)
    OBVIOUS
  <1> HIDE DEF u, v, m
  <1>7. /\ u \in Seq(PackUnit) /\ Len(u) = 3 + n
        /\ \A i \in 1..3 : u[i] = h[i]
        /\ \A i \in 1..n : u[3 + i] = es[i]
    <2>1. JoinedAt(PackUnit, h, es, 3, n, u)
      BY <1>2, <1>3, <1>14, JoinedIs
    <2> QED BY <2>1 DEF JoinedAt
  <1> DEFINE j == 3 + n
  <1>15. j = 3 + n
    OBVIOUS
  <1> HIDE DEF j
  <1>8. /\ v \in Seq(PackUnit) /\ Len(v) = j + m
        /\ \A i \in 1..j : v[i] = u[i]
        /\ \A i \in 1..m : v[j + i] = b[i]
    <2>1. JoinedAt(PackUnit, u, b, j, m, v)
      BY <1>4, <1>7, <1>14, <1>15, JoinedIs
    <2> QED BY <2>1 DEF JoinedAt
  <1> DEFINE k == j + m
  <1>9. /\ f \in Seq(PackUnit) /\ Len(f) = k + 1
        /\ \A i \in 1..k : f[i] = v[i]
    <2>1. Len(v) = k
      BY <1>8
    <2> HIDE DEF k
    <2>2. JoinedAt(PackUnit, v, e, k, 1, f)
      BY <1>1, <1>5, <1>8, <2>1, JoinedIs
    <2> QED BY <2>2 DEF JoinedAt
  <1>10. /\ 3 \in 1..3 /\ 3 \in 1..j /\ 3 \in 1..k
         /\ \A i \in 1..n : 3 + i \in 1..j /\ 3 + i \in 1..k
         /\ \A i \in 1..m : j + i \in 1..k
    BY <1>6, <1>15
  <1> HIDE DEF k
  <1>11. f[3] = c
    BY <1>2, <1>7, <1>8, <1>9, <1>10
  <1>12. \A i \in 1..n : f[3 + i] = es[i]
    BY <1>7, <1>8, <1>9, <1>10
  <1>13. \A i \in 1..m : f[3 + n + i] = b[i]
    BY <1>8, <1>9, <1>10, <1>15
  <1>16. Len(f) = 3 + n + m + 1
    BY <1>9, <1>15 DEF k
  <1> QED BY <1>9, <1>11, <1>12, <1>13, <1>14, <1>16 DEF n, b

\* pack is what OpenPack may say of g, the first n units of f, a file with the entries
\* es of os that counts c of them.
Opened(os, es, c, f, n, g, pack) ==
    /\ pack.entries = <<>> \/ pack.entries = es
    /\ pack.ok /\ c = Len(os) => pack.entries = es
    /\ n = Len(f) => pack.ok /\ g = f

\* What is read of a pack cut after the n-th unit.
LEMMA OpenIs ==
    ASSUME NEW os \in Seq(Object), NEW p, NEW es, InOrder(os, p, es), NEW c \in {0, Len(os)}, NEW f,
           f = PackFile(os, c, es), NEW n \in 0..Len(f), NEW g, g = SubSeq(f, 1, n)
    PROVE  Opened(os, es, c, f, n, g, OpenPack(g))
  <1> DEFINE k == Len(os)
             m == Len(Body(os))
  <1>1. k \in Nat /\ c \in Nat /\ m \in Nat
    <2>1. k \in Nat
      OBVIOUS
    <2>2. Body(os) \in Seq(PackUnit)
      BY BodyLaid
    <2> QED BY <2>1, <2>2
  <1>2. /\ f \in Seq(PackUnit) /\ Len(f) = 3 + k + m + 1 /\ f[3] = c
        /\ \A i \in 1..k : f[3 + i] = es[i]
    BY <1>1, FileHas
  <1>3. es \in Seq(PackEntry) /\ Len(es) = k
    BY DEF InOrder
  <1>20. g = SubSeq(f, 1, n) /\ n \in 0..Len(f) /\ (c = 0 \/ c = k)
    OBVIOUS
  <1> HIDE DEF m, k
  <1>4. g \in Seq(PackUnit) /\ Len(g) = n /\ n \in Nat /\ \A j \in 1..n : g[j] = f[j]
    <2>1. n \in Nat /\ 0 \in Nat /\ 0 + n <= Len(f)
      BY <1>1, <1>2, <1>20
    <2>2. /\ SubSeq(f, 0 + 1, 0 + n) \in Seq(PackUnit) /\ Len(SubSeq(f, 0 + 1, 0 + n)) = n
          /\ \A j \in 1..n : SubSeq(f, 0 + 1, 0 + n)[j] = f[0 + j]
      BY <1>2, <2>1, Part
    <2>3. 0 + 1 = 1 /\ 0 + n = n /\ \A j \in 1..n : 0 + j = j
      BY <2>1
    <2> QED BY <1>20, <2>1, <2>2, <2>3
  <1>5. OpenPack(g) = IF n < 3 \/ n < 3 + g[3] THEN [ok |-> FALSE, entries |-> <<>>]
                      ELSE [ok |-> TRUE, entries |-> SubSeq(g, 4, 3 + g[3])]
    BY <1>4 DEF OpenPack
  <1>6. CASE n < 3 \/ n < 3 + g[3]
    <2>1. OpenPack(g) = [ok |-> FALSE, entries |-> <<>>]
      BY <1>5, <1>6
    <2>2. n # Len(f)
      <3>1. n = Len(f) => n >= 3 /\ n >= 3 + c
        BY <1>1, <1>2, <1>20
      <3>2. n >= 3 => g[3] = c
        BY <1>2, <1>4
      <3> QED BY <1>1, <1>4, <1>6, <3>1, <3>2
    <2>3. OpenPack(g).ok = FALSE
      BY <2>1
    <2>4. OpenPack(g).entries = <<>>
      BY <2>1
    <2> QED BY <2>2, <2>3, <2>4, Zenon DEF Opened
  <1>7. CASE ~(n < 3 \/ n < 3 + g[3])
    <2>1. g[3] = c /\ 3 + c <= n
      <3>1. 3 \in 1..n
        BY <1>4, <1>7
      <3>2. g[3] = c
        BY <1>2, <1>4, <3>1
      <3> QED BY <1>1, <1>4, <1>7, <3>2
    <2> DEFINE s == SubSeq(g, 3 + 1, 3 + c)
    <2>2. s \in Seq(PackUnit) /\ Len(s) = c /\ \A j \in 1..c : s[j] = g[3 + j]
      BY <1>1, <1>4, <2>1, Part
    <2>7. 3 + 1 = 4
      OBVIOUS
    <2>3. OpenPack(g) = [ok |-> TRUE, entries |-> s]
      BY <1>5, <1>7, <2>1, <2>7
    <2> HIDE DEF s
    <2>4. ASSUME c = k PROVE s = es
      <3>1. Len(s) = Len(es)
        BY <1>3, <2>2, <2>4
      <3>2. ASSUME NEW j \in 1..c PROVE s[j] = es[j]
        <4>1. 3 + j \in 1..n /\ j \in 1..k
          BY <1>1, <1>4, <2>1, <2>4
        <4> QED BY <1>2, <1>4, <2>2, <4>1
      <3>3. es \in Seq(PackUnit)
        <4>1. PackEntry \subseteq PackUnit
          BY DEF PackUnit
        <4> QED BY <1>3, <4>1
      <3> QED BY <2>2, <3>1, <3>2, <3>3, SeqEqual
    <2>5. c = 0 => s = <<>>
      BY <2>2
    <2>6. n = Len(f) => g = f
      <3> SUFFICES ASSUME n = Len(f) PROVE g = f
        OBVIOUS
      <3> QED BY <1>2, <1>4, SeqEqual
    <2>8. OpenPack(g).ok = TRUE
      BY <2>3
    <2>10. OpenPack(g).entries = s
      BY <2>3
    <2>9. (s = <<>> \/ s = es) /\ (c = Len(os) => s = es)
      BY <1>20, <2>4, <2>5 DEF k
    <2> QED BY <2>6, <2>8, <2>9, <2>10, Zenon DEF Opened
  <1> QED BY <1>6, <1>7

\* Every object of a whole pack can be read, as long as no offset wraps around.
LEMMA WholeRead ==
    ASSUME NEW os \in Seq(Object), NEW p, NEW es, InOrder(os, p, es), NEW f,
           f = PackFile(os, Len(os), es), Len(Body(os)) <= OffsetSize, NEW i \in 1..Len(os)
    PROVE  ReadObject(f, es, es[i].hash)
  <1> DEFINE n == Len(os)
             b == Body(os)
             h == es[i].hash
             found == {j \in 1..Len(es) : es[j].hash >= h}
             m == Min(found)
             e == es[m]
             k == p[m]
             x == Len(Body(SubSeq(os, 1, k - 1)))
             z == Compressed[os[k]]
  <1>1. n \in Nat /\ i \in 1..n /\ Len(b) <= OffsetSize /\ OffsetSize \in Nat \ {0} /\ Object \subseteq Nat
    BY ObjectAssumption, OffsetAssumption
  <1>2. /\ es \in Seq(PackEntry) /\ Len(es) = n
        /\ p \in [1..n -> 1..n]
        /\ \A j \in 1..n : es[j] = Entries(os)[p[j]] /\ es[j].hash = os[p[j]]
        /\ \A j, l \in 1..n : j <= l => es[j].hash <= es[l].hash
    BY DEF InOrder
  <1>3. \A j \in 1..n : es[j].hash \in Nat
    <2>1. \A j \in 1..n : os[j] \in Object
      OBVIOUS
    <2> HIDE DEF n
    <2> QED BY <1>1, <1>2, <2>1
  <1>4. m \in found /\ \A j \in found : m <= j
    <2>1. i \in found /\ found \in SUBSET (1..n)
      BY <1>1, <1>2, <1>3
    <2> HIDE DEF found, n
    <2> QED BY <1>1, <2>1, Ends
  <1>5. m \in 1..n /\ e.hash = h /\ found # {}
    <2>1. i \in found /\ m \in 1..n /\ e.hash >= h
      BY <1>1, <1>2, <1>3, <1>4
    <2>2. m <= i
      BY <1>4, <2>1
    <2>3. e.hash <= h /\ e.hash \in Nat /\ h \in Nat
      BY <1>2, <1>3, <2>1, <2>2
    <2> HIDE DEF e, h, m, found
    <2> QED BY <2>1, <2>3
  <1>6. k \in 1..n /\ e = Entries(os)[k] /\ os[k] = h
    <2> HIDE DEF m, h, found
    <2> QED BY <1>2, <1>5
  <1>7. /\ x \in Nat /\ x + z <= Len(b) /\ os[k] \in Object
        /\ \A j \in 1..z : b[x + j] = BodyOf(os[k])[j]
    <2> HIDE DEF k
    <2> QED BY <1>6, BytesStand
  <1>8. e = [hash |-> os[k], offset |-> x % OffsetSize, length |-> z]
    <2> HIDE DEF k, e
    <2> QED BY <1>6, EntryHas
  <1>9. z \in Nat \ {0} /\ BodyOf(h) \in Seq(PackUnit) /\ Len(BodyOf(h)) = z
    <2> HIDE DEF k, h
    <2> QED BY <1>6, <1>7, BytesOf
  <1>10. b \in Seq(PackUnit)
    BY BodyLaid
  <1>11. /\ f \in Seq(PackUnit) /\ Len(f) = 3 + n + Len(b) + 1
         /\ \A j \in 1..Len(b) : f[3 + n + j] = b[j]
    BY <1>1, FileHas
  <1> HIDE DEF h, m, e, k, x, z, b, found
  <1>12. x % OffsetSize = x
    <2>1. x < OffsetSize
      <3>1. Len(b) \in Nat
        BY <1>10
      <3> QED BY <1>1, <1>7, <1>9, <3>1
    <2> QED BY <1>1, <1>7, <2>1
  <1>13. e.offset = x /\ e.length = z
    BY <1>8, <1>12
  <1> HIDE DEF n
  <1> DEFINE y == 3 + n + x
             w == SubSeq(f, y + 1, y + z)
  <1>14. y \in Nat /\ y + z <= Len(f)
    <2>1. Len(b) \in Nat
      BY <1>10
    <2> QED BY <1>1, <1>7, <1>9, <1>11, <2>1
  <1>15. w \in Seq(PackUnit) /\ Len(w) = z /\ \A j \in 1..z : w[j] = f[y + j]
    <2> HIDE DEF y
    <2> QED BY <1>9, <1>11, <1>14, Part
  <1>16. w = BodyOf(h)
    <2>1. ASSUME NEW j \in 1..z PROVE w[j] = BodyOf(h)[j]
      <3>1. x + j \in 1..Len(b) /\ 3 + n + (x + j) = y + j
        <4>1. Len(b) \in Nat
          BY <1>10
        <4> QED BY <1>1, <1>7, <1>9, <4>1
      <3>2. f[3 + n + (x + j)] = b[x + j] /\ b[x + j] = BodyOf(os[k])[j]
        BY <1>7, <1>11, <3>1
      <3>3. w[j] = f[y + j]
        BY <1>15
      <3> HIDE DEF w, y
      <3> QED BY <1>6, <3>1, <3>2, <3>3
    <2> HIDE DEF w
    <2> QED BY <1>9, <1>15, <2>1, SeqEqual
  <1>17. y = 3 + Len(es) + e.offset
    BY <1>2, <1>13
  <1> DEFINE start == 3 + Len(es) + e.offset
  <1>18. start + e.length <= Len(f) /\ SubSeq(f, start + 1, start + e.length) = BodyOf(h)
    <2>1. start = y /\ e.length = z
      BY <1>13, <1>17
    <2> HIDE DEF start, y
    <2> QED BY <1>14, <1>16, <2>1
  <1> HIDE DEF start
  <1>19. ReadObject(f, es, h)
    BY <1>5, <1>18 DEF ReadObject, start, e, m, found
  <1> QED BY <1>19 DEF h

\* u is what is unpacked of os from the first n units of f, a file that counts c entries.
Unpacked(os, c, f, n, u) ==
    /\ u.stored \subseteq ToSet(os)
    /\ c = Len(os) /\ n = Len(f) /\ Len(Body(os)) <= OffsetSize => u.ok
    /\ c = Len(os) /\ u.ok => u.stored = ToSet(os)

\* UnpackObjects stores some of the objects of a pack, all if it succeeds on a finished
\* one; and it succeeds on a whole one.
LEMMA UnpackIs ==
    ASSUME NEW os \in Seq(Object), NEW es \in SortedEntries(os), NEW c \in {0, Len(os)}, NEW f,
           f = PackFile(os, c, es), NEW n \in 0..Len(f), NEW g, g = SubSeq(f, 1, n),
           NEW u, u = UnpackObjects(g)
    PROVE  Unpacked(os, c, f, n, u)
  <1>1. PICK p : InOrder(os, p, es)
    BY SortedInOrder
  <1>20. f = PackFile(os, c, es) /\ g = SubSeq(f, 1, n) /\ u = UnpackObjects(g)
    OBVIOUS
  <1> DEFINE k == Len(os)
             pack == OpenPack(g)
             es0 == pack.entries
             bad == {i \in DOMAIN es0 : ~ReadObject(g, es0, es0[i].hash)}
             good == IF bad = {} THEN es0 ELSE SubSeq(es0, 1, Min(bad) - 1)
  <1>2. Opened(os, es, c, f, n, g, pack)
    <2> HIDE DEF pack
    <2>1. Opened(os, es, c, f, n, g, OpenPack(g))
      BY <1>1, <1>20, OpenIs
    <2> QED BY <2>1 DEF pack
  <1>13. /\ es0 = <<>> \/ es0 = es
         /\ pack.ok /\ c = k => es0 = es
         /\ n = Len(f) => pack.ok /\ g = f
    <2> HIDE DEF pack, k
    <2> QED BY <1>2, Zenon DEF Opened, es0, k
  <1>3. u = [ok |-> pack.ok /\ bad = {}, stored |-> {e.hash : e \in ToSet(good)}]
    BY <1>20 DEF UnpackObjects
  <1>12. (u.ok <=> pack.ok /\ bad = {}) /\ u.stored = {e.hash : e \in ToSet(good)}
    <2> HIDE DEF pack, bad, good
    <2>1. u.ok = (pack.ok /\ bad = {})
      BY <1>3
    <2>2. u.stored = {e.hash : e \in ToSet(good)}
      BY <1>3
    <2> QED BY <2>1, <2>2, Zenon
  <1>4. /\ es \in Seq(PackEntry) /\ Len(es) = k /\ k \in Nat
        /\ DOMAIN es = 1..k
        /\ p \in [1..k -> 1..k]
        /\ \A j \in 1..k : \E i \in 1..k : p[i] = j
        /\ \A j \in 1..k : es[j].hash = os[p[j]]
    BY <1>1 DEF InOrder
  <1>5. ToSet(os) = {os[j] : j \in 1..k}
    BY DEF ToSet
  <1>6. es0 \in Seq(PackEntry) /\ DOMAIN es0 = 1..Len(es0) /\ \A j \in DOMAIN es0 : j \in 1..k /\ es0[j] = es[j]
    <2> HIDE DEF es0, k
    <2>1. CASE es0 = <<>>
      BY <2>1
    <2>2. CASE es0 = es
      BY <1>4, <2>2
    <2> QED BY <1>13, <2>1, <2>2
  <1> HIDE DEF k, pack, es0
  <1>7. \A j \in DOMAIN good : j \in DOMAIN es0 /\ good[j] = es0[j]
    <2>1. CASE bad = {}
      BY <2>1
    <2>2. CASE bad # {}
      <3> DEFINE l == Len(es0)
                 m == Min(bad) - 1
      <3>1. l \in Nat /\ bad \in SUBSET (1..l)
        BY <1>6
      <3>2. Min(bad) \in bad
        <4> HIDE DEF bad, l
        <4> QED BY <2>2, <3>1, Ends
      <3>3. m \in Nat /\ 0 + m <= l /\ m <= l
        BY <3>1, <3>2
      <3>4. good = SubSeq(es0, 1, m)
        BY <2>2
      <3> HIDE DEF m, good
      <3>5. /\ SubSeq(es0, 0 + 1, 0 + m) \in Seq(PackEntry) /\ Len(SubSeq(es0, 0 + 1, 0 + m)) = m
            /\ \A j \in 1..m : SubSeq(es0, 0 + 1, 0 + m)[j] = es0[0 + j]
        BY <1>6, <3>3, Part
      <3>6. 0 + 1 = 1 /\ 0 + m = m /\ \A j \in 1..m : 0 + j = j
        BY <3>3
      <3>7. good \in Seq(PackEntry) /\ Len(good) = m /\ \A j \in 1..m : good[j] = es0[j]
        BY <3>4, <3>5, <3>6
      <3>8. DOMAIN good = 1..m
        BY <3>7
      <3>9. \A j \in 1..m : j \in 1..l
        BY <3>1, <3>3
      <3> QED BY <1>6, <3>7, <3>8, <3>9
    <2> QED BY <2>1, <2>2
  <1>8. ToSet(good) = {good[j] : j \in DOMAIN good}
    BY DEF ToSet
  <1>9. u.stored \subseteq ToSet(os)
    <2> SUFFICES ASSUME NEW y \in u.stored PROVE y \in ToSet(os)
      OBVIOUS
    <2>1. PICK e \in ToSet(good) : y = e.hash
      BY <1>12
    <2>2. PICK j \in DOMAIN good : e = good[j]
      BY <1>8, <2>1
    <2>3. j \in 1..k /\ e = es[j]
      BY <1>6, <1>7, <2>2
    <2>4. y = os[p[j]] /\ p[j] \in 1..k
      BY <1>4, <2>1, <2>3
    <2> QED BY <1>5, <2>4
  <1>10. ASSUME c = k, u.ok PROVE u.stored = ToSet(os)
    <2>1. bad = {} /\ es0 = es
      <3> HIDE DEF bad
      <3> QED BY <1>10, <1>12, <1>13, Zenon
    <2>2. good = es
      BY <2>1
    <2> HIDE DEF good
    <2> SUFFICES ASSUME NEW y \in ToSet(os) PROVE y \in u.stored
      BY <1>9
    <2>3. PICK j \in 1..k : y = os[j]
      BY <1>5
    <2>4. PICK i \in 1..k : p[i] = j
      BY <1>4
    <2>5. i \in DOMAIN es /\ es[i].hash = y
      BY <1>4, <2>3, <2>4
    <2>6. es[i] \in ToSet(good)
      BY <1>8, <2>2, <2>5
    <2> QED BY <1>12, <2>5, <2>6
  <1>11. ASSUME c = k, n = Len(f), Len(Body(os)) <= OffsetSize PROVE u.ok
    <2>1. pack.ok /\ g = f /\ es0 = es
      BY <1>11, <1>13, Zenon
    <2>2. f = PackFile(os, Len(os), es)
      BY <1>20, <1>11 DEF k
    <2>3. ASSUME NEW i \in 1..k PROVE ReadObject(f, es, es[i].hash)
      BY <1>1, <1>11, <2>2, <2>3, WholeRead DEF k
    <2>4. bad = {}
      BY <1>6, <2>1, <2>3
    <2> HIDE DEF bad, good
    <2> QED BY <1>12, <2>1, <2>4, Zenon
  <1> QED BY <1>9, <1>10, <1>11, Zenon DEF k, Unpacked

-----------------------------------------------------------------------------
(* Words, terms and files *)

\* Pieces goes through the letters: the table of its fold.
IsCutting(word, starts, dropped, f) ==
    f = [s \in SUBSET DOMAIN word |->
        IF s = {} THEN [done |-> {}, now |-> <<>>]
        ELSE Letter(word, starts, dropped, f[s \ {Max(s)}], [i \in DOMAIN word |-> i][Max(s)])]
Cutting(word, starts, dropped) == CHOOSE f : IsCutting(word, starts, dropped, f)

\* The pieces are what its entry for all letters holds.
LEMMA PiecesAre ==
    \A word, starts, dropped :
        LET t == Cutting(word, starts, dropped)[DOMAIN word]
        IN  Pieces(word, starts, dropped) = (t.done \cup {t.now}) \ {<<>>}
  <1>1. \A word : DOMAIN [i \in DOMAIN word |-> i] = DOMAIN word
    OBVIOUS
  <1> QED BY <1>1, Zenon DEF Pieces, Cutting, IsCutting, FoldLeftDomain, FoldLeft, MapThenFoldSet

\* The table exists.
LEMMA CuttingExists ==
    ASSUME NEW word, Len(word) \in Nat, DOMAIN word = 1..Len(word), NEW starts, NEW dropped
    PROVE  IsCutting(word, starts, dropped, Cutting(word, starts, dropped))
  <1> DEFINE what == <<"pieces", word, starts, dropped>>
             v == [i \in DOMAIN word |-> i]
  <1>1. what[1] = "pieces" /\ what[2] = word /\ what[3] = starts /\ what[4] = dropped
    OBVIOUS
  <1>2. DOMAIN v = DOMAIN word /\ v \in [1..Len(word) -> Nat]
    OBVIOUS
  <1> HIDE DEF what
  <1>3. \A f : IsTable(what, v, f) <=> IsCutting(word, starts, dropped, f)
    <2> HIDE DEF v
    <2>1. DOMAIN v = DOMAIN word
      BY <1>2
    <2> QED BY <1>1, <2>1 DEF IsTable, IsCutting, Turn, Base, v
  <1>4. Len(v) \in Nat /\ DOMAIN v = 1..Len(v)
    <2>1. v \in Seq(Nat)
      BY <1>2
    <2> HIDE DEF v
    <2> QED BY <2>1
  <1>5. \E f : IsTable(what, v, f)
    <2> HIDE DEF v
    <2> QED BY <1>4, TableExists
  <1> QED BY <1>3, <1>5 DEF Cutting

\* Its entries, letter by letter.
LEMMA CuttingSteps ==
    ASSUME NEW S, NEW word \in Seq(S), NEW starts, NEW dropped, NEW f,
           f = Cutting(word, starts, dropped)
    PROVE  /\ f[1..0] = [done |-> {}, now |-> <<>>]
           /\ \A k \in 0..Len(word) - 1 :
                 f[1..k + 1] = Letter(word, starts, dropped, f[1..k], k + 1)
  <1> DEFINE n == Len(word)
             v == [i \in DOMAIN word |-> i]
  <1>1. n \in Nat /\ DOMAIN word = 1..n /\ f = Cutting(word, starts, dropped)
    OBVIOUS
  <1>2. IsCutting(word, starts, dropped, f)
    BY <1>1, CuttingExists
  <1>3. ASSUME NEW s \in SUBSET (1..n)
        PROVE  f[s] = IF s = {} THEN [done |-> {}, now |-> <<>>]
                      ELSE Letter(word, starts, dropped, f[s \ {Max(s)}], v[Max(s)])
    <2>1. f = [r \in SUBSET DOMAIN word |->
                 IF r = {} THEN [done |-> {}, now |-> <<>>]
                 ELSE Letter(word, starts, dropped, f[r \ {Max(r)}], v[Max(r)])]
      BY <1>2 DEF IsCutting
    <2>2. s \in SUBSET DOMAIN word
      BY <1>1
    <2> QED BY <2>1, <2>2, Zenon
  <1>4. \A i \in 1..n : v[i] = i
    BY <1>1
  <1> HIDE DEF v, n
  <1>5. f[1..0] = [done |-> {}, now |-> <<>>]
    <2>1. 1..0 = {} /\ 1..0 \in SUBSET (1..n)
      BY <1>1
    <2> QED BY <1>3, <2>1, Zenon
  <1>6. ASSUME NEW k \in 0..n - 1
        PROVE  f[1..k + 1] = Letter(word, starts, dropped, f[1..k], k + 1)
    <2> DEFINE j == k + 1
               s == 1..j
    <2>1. j \in 1..n /\ j \in Nat /\ s \in SUBSET (1..n) /\ s \in SUBSET (1..j) /\ j \in s /\ s \ {j} = 1..k
      BY <1>1
    <2>2. Max(s) = j
      <3>1. s # {}
        BY <2>1
      <3> HIDE DEF j
      <3>2. Max(s) \in s /\ \A i \in s : i <= Max(s)
        BY <2>1, <3>1, Ends
      <3> QED BY <2>1, <3>2
    <2> HIDE DEF s, j
    <2>3. s # {} /\ v[j] = j
      BY <1>4, <2>1
    <2>4. f[s] = Letter(word, starts, dropped, f[s \ {Max(s)}], v[Max(s)])
      BY <1>3, <2>1, <2>3, Zenon
    <2>5. f[s] = Letter(word, starts, dropped, f[1..k], j)
      BY <2>1, <2>2, <2>3, <2>4, Zenon
    <2> QED BY <2>5 DEF s, j
  <1> QED BY <1>5, <1>6 DEF n

\* p is the part of word that ends at its m-th letter.
Ending(S, p, word, m) ==
    /\ p \in Seq(S) /\ m \in 0..Len(word) /\ Len(p) <= m
    /\ \A j \in 1..Len(p) : p[j] = word[m - Len(p) + j]

\* t has nothing but parts of word, the last of which ends at its k-th letter.
CutUpTo(S, t, word, k) ==
    /\ Ending(S, t.now, word, k)
    /\ \A q \in t.done : \E m \in 0..k : Ending(S, q, word, m)

\* One letter more.
LEMMA LetterCuts ==
    ASSUME NEW S, NEW word \in Seq(S), NEW starts, NEW dropped, NEW k \in 0..Len(word) - 1,
           NEW t, CutUpTo(S, t, word, k), t = [done |-> t.done, now |-> t.now]
    PROVE  LET u == Letter(word, starts, dropped, t, k + 1)
           IN  CutUpTo(S, u, word, k + 1) /\ u = [done |-> u.done, now |-> u.now]
  <1> DEFINE n == Len(word)
             j == k + 1
             c == word[j]
             cut == IF j \in starts \/ c \in dropped
                    THEN [done |-> t.done \cup {t.now}, now |-> <<>>] ELSE t
             u == Letter(word, starts, dropped, t, j)
  <1>1. n \in Nat /\ j \in 1..n /\ j \in 0..n /\ k \in 0..n /\ k \in 0..j /\ c \in S /\ k \in Nat
    OBVIOUS
  <1>2. /\ Ending(S, t.now, word, k)
        /\ \A q \in t.done : \E m \in 0..k : Ending(S, q, word, m)
        /\ t = [done |-> t.done, now |-> t.now]
    BY DEF CutUpTo
  <1>3. u = IF c \in dropped THEN cut ELSE [cut EXCEPT !.now = Append(@, c)]
    BY DEF Letter
  <1> HIDE DEF n, u, c, j
  <1>4. \A m \in 0..n : Ending(S, <<>>, word, m)
    <2>1. <<>> \in Seq(S) /\ Len(<<>>) = 0 /\ 1..0 = {}
      OBVIOUS
    <2> QED BY <1>1, <2>1 DEF Ending, n
  <1>5. /\ Ending(S, cut.now, word, k) /\ cut = [done |-> cut.done, now |-> cut.now]
        /\ (c \in dropped => cut.now = <<>>)
        /\ \A q \in cut.done : \E m \in 0..j : Ending(S, q, word, m)
    <2>1. CASE j \in starts \/ c \in dropped
      <3>1. cut.now = <<>> /\ cut.done = t.done \cup {t.now} /\ cut = [done |-> cut.done, now |-> cut.now]
        BY <2>1
      <3>2. \A m \in 0..k : m \in 0..j
        BY <1>1 DEF j
      <3> HIDE DEF cut
      <3> QED BY <1>1, <1>2, <1>4, <3>1, <3>2
    <2>2. CASE ~(j \in starts \/ c \in dropped)
      <3>1. cut = t /\ c \notin dropped
        BY <2>2
      <3>2. \A m \in 0..k : m \in 0..j
        BY <1>1 DEF j
      <3> HIDE DEF cut
      <3> QED BY <1>1, <1>2, <3>1, <3>2
    <2> QED BY <2>1, <2>2
  <1> HIDE DEF cut
  <1>6. CASE c \in dropped
    <2>1. u = cut /\ cut.now = <<>>
      BY <1>3, <1>5, <1>6
    <2>2. Ending(S, u.now, word, j)
      BY <1>1, <1>4, <2>1
    <2> QED BY <1>5, <2>1, <2>2 DEF CutUpTo, u, j
  <1>7. CASE c \notin dropped
    <2> DEFINE p == cut.now
               q == Append(p, c)
    <2>1. u = [done |-> cut.done, now |-> q]
      BY <1>3, <1>5, <1>7
    <2>2. p \in Seq(S) /\ Len(p) <= k /\ \A i \in 1..Len(p) : p[i] = word[k - Len(p) + i]
      BY <1>5 DEF Ending
    <2> HIDE DEF p
    <2> DEFINE l == Len(p)
    <2>3. q \in Seq(S) /\ Len(q) = l + 1 /\ q[l + 1] = c /\ \A i \in 1..l : q[i] = p[i]
      BY <1>1, <2>2
    <2>4. l \in Nat
      BY <2>2
    <2> HIDE DEF q, l
    <2>5. Ending(S, q, word, j)
      <3>1. Len(q) <= j
        BY <1>1, <2>2, <2>3, <2>4 DEF j, l
      <3>2. ASSUME NEW i \in 1..Len(q) PROVE q[i] = word[j - Len(q) + i]
        <4>1. CASE i = l + 1
          <5>1. j - Len(q) + i = j
            BY <1>1, <2>3, <2>4, <4>1
          <5> QED BY <2>3, <4>1, <5>1 DEF c
        <4>2. CASE i # l + 1
          <5>1. i \in 1..l /\ j - Len(q) + i = k - l + i
            BY <1>1, <2>3, <2>4, <4>2 DEF j
          <5> QED BY <2>2, <2>3, <5>1 DEF l
        <4> QED BY <4>1, <4>2
      <3>3. j \in 0..Len(word)
        BY <1>1 DEF n
      <3> QED BY <2>3, <3>1, <3>2, <3>3 DEF Ending
    <2>6. u.now = q /\ u.done = cut.done /\ u = [done |-> u.done, now |-> u.now]
      BY <2>1
    <2> QED BY <1>5, <2>5, <2>6 DEF CutUpTo, u, j
  <1> QED BY <1>6, <1>7

\* Every piece is a part of the word.
LEMMA PiecesWithin ==
    ASSUME NEW S, NEW word \in Seq(S), NEW starts, NEW dropped
    PROVE  \A p \in Pieces(word, starts, dropped) : \E m \in 0..Len(word) : Ending(S, p, word, m)
  <1> DEFINE n == Len(word)
             f == Cutting(word, starts, dropped)
             Fine(t, k) == CutUpTo(S, t, word, k) /\ t = [done |-> t.done, now |-> t.now]
             good == {k \in 0..n : Fine(f[1..k], k)}
  <1>1. n \in Nat /\ DOMAIN word = 1..n
    OBVIOUS
  <1>2. /\ f[1..0] = [done |-> {}, now |-> <<>>]
        /\ \A k \in 0..n - 1 : f[1..k + 1] = Letter(word, starts, dropped, f[1..k], k + 1)
    BY CuttingSteps
  <1> HIDE DEF f
  <1>3. 0 \in good
    <2> DEFINE t == [done |-> {}, now |-> <<>>]
    <2>1. <<>> \in Seq(S) /\ Len(<<>>) = 0 /\ 1..0 = {} /\ 0 \in 0..n
      BY <1>1
    <2>2. Ending(S, <<>>, word, 0)
      BY <2>1 DEF Ending
    <2>3. t.done = {} /\ t.now = <<>>
      OBVIOUS
    <2>4. Fine(t, 0)
      BY <2>2, <2>3 DEF CutUpTo
    <2> HIDE DEF Fine
    <2> QED BY <1>2, <2>1, <2>4
  <1>4. ASSUME NEW k \in 0..n - 1, k \in good PROVE k + 1 \in good
    <2> DEFINE t == f[1..k]
               u == Letter(word, starts, dropped, t, k + 1)
    <2>1. CutUpTo(S, t, word, k) /\ t = [done |-> t.done, now |-> t.now]
      BY <1>4
    <2>2. CutUpTo(S, u, word, k + 1) /\ u = [done |-> u.done, now |-> u.now]
      <3> HIDE DEF t
      <3> QED BY <2>1, LetterCuts
    <2>3. f[1..k + 1] = u
      BY <1>2
    <2> HIDE DEF u, t
    <2>4. k + 1 \in 0..n
      BY <1>1
    <2>5. Fine(f[1..k + 1], k + 1)
      BY <2>2, <2>3
    <2> HIDE DEF Fine
    <2> QED BY <2>4, <2>5
  <1>5. n \in good
    <2>1. n \in 0..n
      BY <1>1
    <2> HIDE DEF good
    <2> QED BY <1>1, <1>3, <1>4, <2>1, Induction
  <1> DEFINE t == f[1..n]
  <1>6. CutUpTo(S, t, word, n)
    BY <1>5
  <1>7. Pieces(word, starts, dropped) = (t.done \cup {t.now}) \ {<<>>}
    BY <1>1, PiecesAre DEF f
  <1> HIDE DEF t
  <1>8. n \in 0..n
    BY <1>1
  <1> QED BY <1>6, <1>7, <1>8 DEF CutUpTo, n

\* A word in which nothing is cut or dropped is its only piece.
LEMMA PiecesWhole ==
    ASSUME NEW S, NEW word \in Seq(S), NEW starts, NEW dropped, word # <<>>,
           \A i \in 1..Len(word) : i \notin starts /\ word[i] \notin dropped
    PROVE  word \in Pieces(word, starts, dropped)
  <1> DEFINE n == Len(word)
             f == Cutting(word, starts, dropped)
             first(k) == [i \in 1..k |-> word[i]]
             good == {k \in 0..n : f[1..k] = [done |-> {}, now |-> first(k)]}
  <1>1. n \in Nat /\ DOMAIN word = 1..n /\ word = first(n)
    OBVIOUS
  <1>2. /\ f[1..0] = [done |-> {}, now |-> <<>>]
        /\ \A k \in 0..n - 1 : f[1..k + 1] = Letter(word, starts, dropped, f[1..k], k + 1)
    BY CuttingSteps
  <1>9. \A i \in 1..n : i \notin starts /\ word[i] \notin dropped
    OBVIOUS
  <1> HIDE DEF f
  <1>3. 0 \in good
    <2>1. first(0) = <<>> /\ 0 \in 0..n
      BY <1>1
    <2> HIDE DEF first
    <2> QED BY <1>2, <2>1
  <1>4. ASSUME NEW k \in 0..n - 1, k \in good PROVE k + 1 \in good
    <2> DEFINE t == [done |-> {}, now |-> first(k)]
               j == k + 1
    <2>1. f[1..k] = t /\ j \in 1..n /\ j \in 0..n /\ k \in Nat
      BY <1>1, <1>4
    <2>2. t.now = first(k) /\ t.done = {}
      OBVIOUS
    <2> HIDE DEF t
    <2> DEFINE u == Letter(word, starts, dropped, t, j)
               c == word[j]
               q == Append(t.now, c)
    <2>3. u = [t EXCEPT !.now = Append(@, c)]
      BY <1>9, <2>1 DEF Letter
    <2> HIDE DEF u, c
    <2>7. t = [done |-> t.done, now |-> t.now]
      BY DEF t
    <2>8. u = [done |-> t.done, now |-> q]
      BY <2>3, <2>7
    <2>4. u = [done |-> {}, now |-> Append(first(k), word[j])]
      <3> HIDE DEF first
      <3> QED BY <2>2, <2>8, Zenon DEF c
    <2>5. Append(first(k), word[j]) = first(j)
      <3>1. first(k) \in Seq(S) /\ Len(first(k)) = k
        <4>1. \A i \in 1..k : word[i] \in S
          BY <1>1
        <4> QED BY <2>1, <4>1
      <3> DEFINE s == Append(first(k), word[j])
      <3>2. DOMAIN s = 1..j /\ s = [i \in 1..j |-> s[i]]
        BY <1>1, <2>1, <3>1
      <3>3. ASSUME NEW i \in 1..j PROVE s[i] = word[i]
        BY <1>1, <2>1, <3>1
      <3> QED BY <3>2, <3>3
    <2>6. f[1..j] = Letter(word, starts, dropped, t, j)
      BY <1>2, <2>1
    <2> HIDE DEF j, first
    <2>9. f[1..j] = [done |-> {}, now |-> first(j)]
      BY <2>4, <2>5, <2>6 DEF u
    <2> QED BY <2>1, <2>9 DEF j
  <1>5. n \in good
    <2>1. n \in 0..n
      BY <1>1
    <2> HIDE DEF good
    <2> QED BY <1>1, <1>3, <1>4, <2>1, Induction
  <1>6. f[1..n] = [done |-> {}, now |-> word]
    BY <1>1, <1>5
  <1>7. f[1..n].now = word
    BY <1>6
  <1>8. Pieces(word, starts, dropped) = (f[1..n].done \cup {f[1..n].now}) \ {<<>>}
    BY <1>1, PiecesAre DEF f
  <1> QED BY <1>7, <1>8

\* Small letters are not changed, and what has been made small stays.
LEMMA LowerTwice ==
    ASSUME NEW word \in Seq(STRING)
    PROVE  /\ ToLower(word) \in Seq(STRING) /\ Len(ToLower(word)) = Len(word)
           /\ \A i \in 1..Len(word) : ToLower(word)[i] = Lower(word[i])
           /\ ToLower(ToLower(word)) = ToLower(word)
           /\ ToSet(word) \subseteq LowerCase => ToLower(word) = word
  <1> DEFINE n == Len(word)
             l == ToLower(word)
             ll == ToLower(l)
  <1>1. n \in Nat /\ DOMAIN word = 1..n /\ \A i \in 1..n : word[i] \in STRING
    OBVIOUS
  <1>2. /\ LowerCase \subseteq STRING /\ \A c \in UpperCase : Lowered[c] \in LowerCase
        /\ \A c \in LowerCase : c \notin UpperCase
    BY LetterAssumption DEF UpperCase
  <1>3. \A c \in STRING : Lower(c) \in STRING /\ Lower(Lower(c)) = Lower(c)
    BY <1>2 DEF Lower
  <1>4. \A c \in LowerCase : Lower(c) = c
    BY <1>2 DEF Lower
  <1> HIDE DEF n
  <1>5. l = [i \in 1..n |-> Lower(word[i])]
    BY DEF ToLower, n
  <1> HIDE DEF l
  <1>6. l \in [1..n -> STRING] /\ DOMAIN l = 1..n
    BY <1>1, <1>3, <1>5
  <1>7. l \in Seq(STRING) /\ Len(l) = n
    BY <1>1, <1>6
  <1>8. \A i \in 1..n : l[i] = Lower(word[i])
    BY <1>5
  <1>9. ll = l
    <2>1. ll = [i \in 1..n |-> Lower(l[i])]
      BY <1>7 DEF ToLower
    <2>2. \A i \in 1..n : Lower(l[i]) = Lower(word[i])
      BY <1>1, <1>3, <1>8
    <2> HIDE DEF ll
    <2> QED BY <1>5, <2>1, <2>2
  <1>10. ASSUME ToSet(word) \subseteq LowerCase PROVE l = word
    <2>1. \A i \in 1..n : l[i] = word[i]
      <3>1. \A i \in 1..n : word[i] \in LowerCase
        BY <1>1, <1>10 DEF ToSet
      <3> QED BY <1>4, <1>8, <3>1
    <2>2. Len(word) = n
      BY DEF n
    <2> QED BY <1>7, <2>1, <2>2, SeqEqual
  <1> QED BY <1>7, <1>8, <1>9, <1>10 DEF l, ll, n

\* A query makes fewer letters small, and the index makes the same of what it leaves.
LEMMA QueryLowerIs ==
    ASSUME NEW word \in Seq(STRING)
    PROVE  /\ Len(QueryLower(word)) = Len(word)
           /\ ToLower(QueryLower(word)) = ToLower(word)
           /\ ToSet(word) \subseteq LowerCase => QueryLower(word) = word
  <1> DEFINE n == Len(word)
             q == QueryLower(word)
             lq == ToLower(q)
  <1>1. n \in Nat /\ DOMAIN word = 1..n /\ \A i \in 1..n : word[i] \in STRING
    OBVIOUS
  <1>2. /\ LowerCase \subseteq STRING /\ \A c \in UpperCase : Lowered[c] \in LowerCase
        /\ \A c \in LowerCase : c \notin UpperCase
    BY LetterAssumption DEF UpperCase
  <1>3. \A c \in STRING : Lower(c) \in STRING /\ Lower(Lower(c)) = Lower(c)
    BY <1>2 DEF Lower
  <1>4. \A c \in LowerCase : Lower(c) = c
    BY <1>2 DEF Lower
  <1> HIDE DEF n
  <1>5. q = [i \in 1..n |-> IF word[i] \in Ascii THEN Lower(word[i]) ELSE word[i]]
    BY DEF QueryLower, n
  <1> HIDE DEF q
  <1>6. q \in Seq(STRING) /\ Len(q) = n
    <2>1. q \in [1..n -> STRING] /\ DOMAIN q = 1..n
      BY <1>1, <1>3, <1>5
    <2> QED BY <1>1, <2>1
  <1>7. lq = ToLower(word)
    <2>1. lq = [i \in 1..n |-> Lower(q[i])] /\ ToLower(word) = [i \in 1..n |-> Lower(word[i])]
      BY <1>6 DEF ToLower, n
    <2>2. \A i \in 1..n : Lower(q[i]) = Lower(word[i])
      BY <1>1, <1>3, <1>5
    <2> HIDE DEF lq
    <2> QED BY <2>1, <2>2
  <1>8. ASSUME ToSet(word) \subseteq LowerCase PROVE q = word
    <2>1. \A i \in 1..n : word[i] \in LowerCase
      BY <1>1, <1>8 DEF ToSet
    <2>2. \A i \in 1..n : q[i] = word[i]
      BY <1>4, <1>5, <2>1
    <2>3. Len(word) = n
      BY DEF n
    <2> QED BY <1>6, <2>2, <2>3, SeqEqual
  <1> QED BY <1>6, <1>7, <1>8 DEF q, lq, n

\* A term made of a part of a word is a part of the word.
LEMMA PartFound ==
    ASSUME NEW w \in Seq(STRING), NEW p, NEW m, Ending(STRING, p, w, m),
           NEW t, ToLower(t) = ToLower(p), Len(t) = Len(p)
    PROVE  PartOf(t, w)
  <1> DEFINE n == Len(w)
             l == Len(p)
             i == m - l
             lw == ToLower(w)
             lp == ToLower(p)
             s == SubSeq(lw, i + 1, i + l)
  <1>1. /\ p \in Seq(STRING) /\ m \in 0..n /\ l <= m
        /\ \A j \in 1..l : p[j] = w[i + j]
    BY DEF Ending
  <1>2. n \in Nat /\ l \in Nat /\ Len(t) = l /\ ToLower(t) = lp
    BY <1>1
  <1>3. lw \in Seq(STRING) /\ Len(lw) = n /\ \A j \in 1..n : lw[j] = Lower(w[j])
    BY LowerTwice
  <1>4. lp \in Seq(STRING) /\ Len(lp) = l /\ \A j \in 1..l : lp[j] = Lower(p[j])
    BY <1>1, LowerTwice
  <1> HIDE DEF n, l, lw, lp
  <1>5. i \in Nat /\ i + l <= n /\ i \in 0..n - l /\ \A j \in 1..l : i + j \in 1..n
    BY <1>1, <1>2
  <1> HIDE DEF i
  <1>6. s \in Seq(STRING) /\ Len(s) = l /\ \A j \in 1..l : s[j] = lw[i + j]
    BY <1>2, <1>3, <1>5, Part
  <1>7. \A j \in 1..l : s[j] = lp[j]
    <2> HIDE DEF s
    <2> QED BY <1>1, <1>3, <1>4, <1>5, <1>6
  <1>8. s = lp
    <2> HIDE DEF s
    <2> QED BY <1>4, <1>6, <1>7, SeqEqual
  <1>9. \E k \in 0..n - l : SubSeq(lw, k + 1, k + l) = lp
    BY <1>5, <1>8
  <1> QED BY <1>2, <1>9 DEF PartOf, n, lw

\* The pieces a file of a kind is indexed by.
PartsOf(kind, w) == IF kind = "markdown" THEN Fields(w) ELSE CamelCaseSplit(w)

\* Whatever the kind, they are parts of the word, and a word of small letters is one
\* of its own.
LEMMA PartsAre ==
    ASSUME NEW kind, NEW w \in Seq(STRING)
    PROVE  /\ \A p \in PartsOf(kind, w) : \E m \in 0..Len(w) : Ending(STRING, p, w, m)
           /\ w # <<>> /\ ToSet(w) \subseteq LowerCase => w \in PartsOf(kind, w)
  <1> DEFINE small(i) == i \in DOMAIN w /\ w[i] \in LowerCase
             a == {i \in 2..Len(w) : w[i] \in UpperCase /\ (small(i - 1) \/ small(i + 1))}
             d == ToSet(w) \ (LowerCase \cup UpperCase \cup Digit \cup {Under, Dash})
             e == {Under, Dash}
  <1>1. PartsOf(kind, w) = Pieces(w, {}, d) \/ PartsOf(kind, w) = Pieces(w, a, e)
    BY DEF PartsOf, Fields, CamelCaseSplit
  <1>2. ASSUME w # <<>>, ToSet(w) \subseteq LowerCase
        PROVE  /\ \A i \in 1..Len(w) : i \notin {} /\ w[i] \notin d
               /\ \A i \in 1..Len(w) : i \notin a /\ w[i] \notin e
    <2>1. DOMAIN w = 1..Len(w)
      OBVIOUS
    <2>2. \A i \in 1..Len(w) : w[i] \in LowerCase
      BY <1>2, <2>1 DEF ToSet
    <2>3. \A c \in LowerCase : c \notin UpperCase /\ c \notin e
      BY LetterAssumption DEF UpperCase
    <2> QED BY <2>2, <2>3
  <1> HIDE DEF a, d, e
  <1>3. \A s, x : \A p \in Pieces(w, s, x) : \E m \in 0..Len(w) : Ending(STRING, p, w, m)
    BY PiecesWithin, Zenon
  <1>4. ASSUME w # <<>>, ToSet(w) \subseteq LowerCase PROVE w \in PartsOf(kind, w)
    <2>1. w \in Pieces(w, {}, d)
      BY <1>2, <1>4, PiecesWhole
    <2>2. w \in Pieces(w, a, e)
      BY <1>2, <1>4, PiecesWhole
    <2> QED BY <1>1, <2>1, <2>2
  <1> QED BY <1>1, <1>3, <1>4

\* What is found of a term in a file: a part of one of its words, if the term is
\* among those of the file; and every word of small letters.
LEMMA TokensAre ==
    ASSUME NEW kind, NEW ws \in Seq(Seq(STRING)), NEW t \in Seq(STRING), NEW cs
    PROVE  /\ Term(t, cs) \in Tokenize(kind, ws) => \E w \in ToSet(ws) : PartOf(t, w)
           /\ Plain(t) /\ t \in ToSet(ws) => Term(t, cs) \in Tokenize(kind, ws)
  <1> DEFINE T == Term(t, cs)
             all == UNION {PartsOf(kind, ws[i]) : i \in DOMAIN ws}
  <1>1. T = t \/ T = QueryLower(t)
    BY DEF Term
  <1>2. Tokenize(kind, ws) = {ToLower(u) : u \in {p \in all : Indexed(p)}}
    BY DEF Tokenize, PartsOf
  <1>3. /\ ToLower(T) = ToLower(t) /\ Len(T) = Len(t)
        /\ ToSet(t) \subseteq LowerCase => T = t /\ ToLower(t) = t
    BY <1>1, LowerTwice, QueryLowerIs
  <1>4. \A i \in DOMAIN ws : ws[i] \in Seq(STRING) /\ ws[i] \in ToSet(ws)
    BY DEF ToSet
  <1> HIDE DEF T, all
  <1>5. ASSUME T \in Tokenize(kind, ws) PROVE \E w \in ToSet(ws) : PartOf(t, w)
    <2>1. PICK u \in all : T = ToLower(u)
      BY <1>2, <1>5
    <2>2. PICK i \in DOMAIN ws : u \in PartsOf(kind, ws[i])
      BY <2>1 DEF all
    <2> DEFINE w == ws[i]
    <2>3. w \in Seq(STRING) /\ w \in ToSet(ws) /\ u \in PartsOf(kind, w)
      BY <1>4, <2>2
    <2> HIDE DEF w
    <2>4. PICK m \in 0..Len(w) : Ending(STRING, u, w, m)
      BY <2>3, PartsAre
    <2>5. u \in Seq(STRING)
      BY <2>4 DEF Ending
    <2>6. ToLower(u) \in Seq(STRING) /\ Len(ToLower(u)) = Len(u) /\ ToLower(ToLower(u)) = ToLower(u)
      BY <2>5, LowerTwice
    <2>7. ToLower(t) = ToLower(u) /\ Len(t) = Len(u)
      BY <1>3, <2>1, <2>6
    <2>8. PartOf(t, w)
      BY <2>3, <2>4, <2>7, PartFound
    <2> QED BY <2>3, <2>8
  <1>6. ASSUME Plain(t), t \in ToSet(ws) PROVE T \in Tokenize(kind, ws)
    <2>1. Len(t) >= 2 /\ ToSet(t) \subseteq LowerCase
      BY <1>6 DEF Plain
    <2>2. T = t /\ ToLower(t) = t
      BY <1>3, <2>1
    <2>3. PICK i \in DOMAIN ws : t = ws[i]
      BY <1>6 DEF ToSet
    <2>4. t # <<>>
      BY <2>1
    <2>5. t \in PartsOf(kind, t)
      BY <2>1, <2>4, PartsAre
    <2>6. t \in all
      BY <2>3, <2>5 DEF all
    <2>7. Indexed(t)
      <3>1. 1 \in DOMAIN t
        BY <2>1
      <3>2. t[1] \in ToSet(t)
        BY <3>1 DEF ToSet
      <3>3. \A c \in LowerCase : c \notin Digit
        BY LetterAssumption
      <3> QED BY <2>1, <3>2, <3>3 DEF Indexed
    <2> QED BY <1>2, <2>2, <2>6, <2>7
  <1> QED BY <1>5, <1>6 DEF T

-----------------------------------------------------------------------------
(* One call *)

\* Each step has what the one before it made.
DeltaInv ==
    call = "delta" =>
        /\ given.base \in Seq(Byte) /\ given.target \in Seq(Byte)
        /\ step \in {"compute", "encode", "patch", "done"}
        /\ step = "encode" => made = ComputeDelta(given.base, given.target)
        /\ step = "patch" => made = EncodeDelta(ComputeDelta(given.base, given.target))
        /\ step = "done" =>
              got = Patch(given.base, EncodeDelta(ComputeDelta(given.base, given.target)))

\* DeltaInv is inductive.
LEMMA DeltaStays == Spec => []DeltaInv
  <1>1. Init => DeltaInv
    <2> SUFFICES ASSUME Init, call = "delta" PROVE DeltaInv
      BY DEF DeltaInv
    <2>1. PICK b \in Bytes(MaxDelta), t \in Bytes(MaxDelta) :
              Begin("delta", "compute", [base |-> b, target |-> t])
      BY DEF Init, Begin
    <2>2. b \in Seq(Byte) /\ t \in Seq(Byte)
      <3>1. MaxDelta \in Nat
        BY LibraryBounds
      <3> QED BY <3>1, BoundedIsSeq DEF Bytes
    <2>3. step = "compute" /\ given = [base |-> b, target |-> t]
      BY <2>1 DEF Begin
    <2> QED BY <2>2, <2>3 DEF DeltaInv
  <1>2. ASSUME DeltaInv, [Next]_vars PROVE DeltaInv'
    <2>1. CASE call # "delta"
      <3>1. call' # "delta"
        BY <1>2, <2>1 DEF Next, vars, Compute, Encode, ApplyPatch, SplitBoth, Plan, Unpack,
                          IndexDocs, SearchDocs, Greet, Receive, HangUp, Go
      <3> QED BY <3>1 DEF DeltaInv
    <2>2. CASE call = "delta"
      <3>1. CASE UNCHANGED vars
        BY <1>2, <3>1 DEF vars, DeltaInv
      <3>2. CASE Next
        <4>1. step \in {"compute", "encode", "patch", "done"}
          BY <1>2, <2>2 DEF DeltaInv
        <4>2. Compute \/ Encode \/ ApplyPatch
          BY <3>2, <4>1 DEF Next, SplitBoth, Plan, Unpack, IndexDocs, SearchDocs, Greet, Receive, HangUp
        <4>3. CASE Compute
          BY <1>2, <2>2, <4>3 DEF Compute, Go, DeltaInv
        <4>4. CASE Encode
          BY <1>2, <2>2, <4>4 DEF Encode, Go, DeltaInv
        <4>5. CASE ApplyPatch
          BY <1>2, <2>2, <4>5 DEF ApplyPatch, Go, DeltaInv
        <4> QED BY <4>2, <4>3, <4>4, <4>5
      <3> QED BY <1>2, <3>1, <3>2
    <2> QED BY <2>1, <2>2
  <1> QED BY <1>1, <1>2, PTL DEF Spec

\* DeltaExact, whatever the base, the target and the sizes are: as long as the
\* length of the target fits its field, and unless the hashes of two of their blocks
\* collide, the delta gives the target.
THEOREM PatchGivesTarget == Spec => []DeltaExact
  <1>1. ASSUME DeltaInv PROVE DeltaExact
    <2> SUFFICES ASSUME step = "done", call = "delta", ~Collision(given.base, given.target),
                        ~(Len(given.target) >= LengthSize)
                 PROVE  got = [ok |-> TRUE, data |-> given.target]
      BY DEF DeltaExact, Done
    <2> DEFINE b == given.base
               t == given.target
    <2>1. /\ b \in Seq(Byte) /\ t \in Seq(Byte) /\ ~Collision(b, t)
          /\ ~(Len(t) >= LengthSize)
          /\ got = Patch(b, EncodeDelta(ComputeDelta(b, t)))
      BY <1>1 DEF DeltaInv
    <2> HIDE DEF b, t
    <2>2. Covers(b, ComputeDelta(b, t), t, 0, Len(t))
      <3>1. Len(t) < LengthSize
        BY <2>1, LengthAssumption
      <3> QED BY <2>1, <3>1, DeltaCovers
    <2>3. got = [ok |-> TRUE, data |-> t]
      BY <2>1, <2>2, PatchCovered
    <2> QED BY <2>3 DEF t
  <1> QED BY <1>1, DeltaStays, PTL

\* Each step has the chunks the one before it made.
SyncInv ==
    call = "sync" =>
        /\ given.local \in Seq(Byte) /\ given.remote \in Seq(Byte)
        /\ SameEnd(given.local, given.remote, given.shared)
        /\ step \in {"split", "plan", "done"}
        /\ step # "split" => made = [local |-> Chunks(given.local), remote |-> Chunks(given.remote)]
        /\ step = "done" => got = SyncPlan(made.local, ToSet(made.remote))

\* Two data with the same bytes behind different ones have the same end.
LEMMA EndIsSame ==
    ASSUME NEW p \in Seq(Byte), NEW q \in Seq(Byte), NEW s \in Seq(Byte)
    PROVE  p \o s \in Seq(Byte) /\ q \o s \in Seq(Byte) /\ SameEnd(p \o s, q \o s, Len(s))
  <1> DEFINE d == p \o s
             e == q \o s
  <1>1. d \in Seq(Byte) /\ Len(d) = Len(p) + Len(s) /\ \A j \in 1..Len(s) : d[Len(p) + j] = s[j]
    BY Joined
  <1>2. e \in Seq(Byte) /\ Len(e) = Len(q) + Len(s) /\ \A j \in 1..Len(s) : e[Len(q) + j] = s[j]
    BY Joined
  <1>3. Len(p) \in Nat /\ Len(q) \in Nat /\ Len(s) \in Nat
    OBVIOUS
  <1> DEFINE l == Len(s)
             n == Len(d)
             h == Len(e)
  <1> HIDE DEF d, e
  <1>4. n - l = Len(p) /\ h - l = Len(q) /\ l <= n /\ l <= h /\ l \in Nat
    BY <1>1, <1>2, <1>3
  <1>5. \A k \in 1..l : d[n - l + k] = e[h - l + k]
    <2> TAKE k \in 1..l
    <2>1. n - l + k = Len(p) + k /\ h - l + k = Len(q) + k
      BY <1>1, <1>2, <1>3
    <2> QED BY <1>1, <1>2, <2>1
  <1>6. SameEnd(d, e, l)
    BY <1>4, <1>5 DEF SameEnd
  <1> QED BY <1>1, <1>2, <1>6 DEF d, e

\* SyncInv is inductive.
LEMMA SyncStays == Spec => []SyncInv
  <1>1. Init => SyncInv
    <2> SUFFICES ASSUME Init, call = "sync" PROVE SyncInv
      BY DEF SyncInv
    <2>1. PICK p \in Bytes(MaxPrefix), q \in Bytes(MaxPrefix), s \in Bytes(MaxShared) :
              Begin("sync", "split", [local |-> p \o s, remote |-> q \o s, shared |-> Len(s)])
      BY DEF Init, Begin
    <2>2. p \in Seq(Byte) /\ q \in Seq(Byte) /\ s \in Seq(Byte)
      <3>1. MaxPrefix \in Nat /\ MaxShared \in Nat
        BY LibraryBounds
      <3> QED BY <3>1, BoundedIsSeq DEF Bytes
    <2> DEFINE d == p \o s
               e == q \o s
               l == Len(s)
    <2>3. d \in Seq(Byte) /\ e \in Seq(Byte) /\ SameEnd(d, e, l)
      BY <2>2, EndIsSame
    <2>4. step = "split" /\ given = [local |-> d, remote |-> e, shared |-> l]
      BY <2>1 DEF Begin
    <2> HIDE DEF d, e, l
    <2> QED BY <2>3, <2>4 DEF SyncInv
  <1>2. ASSUME SyncInv, [Next]_vars PROVE SyncInv'
    <2>1. CASE call # "sync"
      <3>1. call' # "sync"
        BY <1>2, <2>1 DEF Next, vars, Compute, Encode, ApplyPatch, SplitBoth, Plan, Unpack,
                          IndexDocs, SearchDocs, Greet, Receive, HangUp, Go
      <3> QED BY <3>1 DEF SyncInv
    <2>2. CASE call = "sync"
      <3>1. CASE UNCHANGED vars
        BY <1>2, <3>1 DEF vars, SyncInv
      <3>2. CASE Next
        <4>1. step \in {"split", "plan", "done"}
          BY <1>2, <2>2 DEF SyncInv
        <4>2. SplitBoth \/ Plan
          BY <3>2, <4>1 DEF Next, Compute, Encode, ApplyPatch, Unpack, IndexDocs, SearchDocs,
                            Greet, Receive, HangUp
        <4>3. CASE SplitBoth
          BY <1>2, <2>2, <4>3 DEF SplitBoth, Go, SyncInv
        <4>4. CASE Plan
          BY <1>2, <2>2, <4>4 DEF Plan, Go, SyncInv
        <4> QED BY <4>2, <4>3, <4>4
      <3> QED BY <1>2, <3>1, <3>2
    <2> QED BY <2>1, <2>2
  <1> QED BY <1>1, <1>2, PTL DEF Spec

\* ChunksMeet, whatever the two files, the gear table and the sizes are: the chunks of
\* findChunkBoundary are the file, and once the two files have been cut at one place
\* of their common end they are cut alike, and nothing behind it is sent.
THEOREM EqualEndsMeet == Spec => []ChunksMeet
  <1>1. ASSUME SyncInv PROVE ChunksMeet
    <2> SUFFICES ASSUME step = "done", call = "sync" PROVE ChunksMeet
      BY DEF ChunksMeet, Done
    <2> DEFINE d == given.local
               e == given.remote
               s == given.shared
               l == made.local
               r == made.remote
               m == got.missing
    <2>1. d \in Seq(Byte) /\ e \in Seq(Byte) /\ SameEnd(d, e, s)
      BY <1>1 DEF SyncInv
    <2>2. made = [local |-> Chunks(d), remote |-> Chunks(e)] /\ got = SyncPlan(l, ToSet(r))
      BY <1>1 DEF SyncInv
    <2>3. l = Chunks(d) /\ r = Chunks(e) /\ m = SyncPlan(l, ToSet(r)).missing
      BY <2>2
    <2> HIDE DEF d, e, s, l, r, m
    <2>4. LET x == EndsBack(l)
              y == EndsBack(r)
              meet == {n \in x \cap y : n <= s}
          IN  /\ Concat(l) = d
              /\ \A i \in DOMAIN l : /\ Len(l[i]) \in 1..MaxSize
                                     /\ i < Len(l) => Len(l[i]) > MinSize
              /\ \A n \in meet : x \cap 0..n = y \cap 0..n
              /\ meet # {} =>
                    \A i \in DOMAIN l :
                        Len(Concat(SubSeq(l, i, Len(l)))) <= Max(meet) => l[i] \notin ToSet(m)
      BY <2>1, <2>3, MeetHolds
    <2> QED BY <2>4 DEF ChunksMeet, d, e, s, l, r, m
  <1> QED BY <1>1, SyncStays, PTL

\* The pack that is unpacked is one PackWriter has left, perhaps cut short.
PackInv ==
    call = "pack" =>
        /\ \E es \in SortedEntries(given.objects), n \in Nat :
              LET f == PackFile(given.objects, IF given.closed THEN Len(given.objects) ELSE 0, es)
              IN  /\ n \in 0..Len(f) /\ given.file = SubSeq(f, 1, n)
                  /\ given.whole = (given.closed /\ n = Len(f))
        /\ given.objects \in Seq(Object) /\ given.closed \in BOOLEAN
        /\ step \in {"unpack", "done"}
        /\ step = "done" => got = UnpackObjects(given.file)

\* PackInv is inductive.
LEMMA PackStays == Spec => []PackInv
  <1>1. Init => PackInv
    <2> SUFFICES ASSUME Init, call = "pack" PROVE PackInv
      BY DEF PackInv
    <2>1. PICK os \in BoundedSeq(Object, MaxObjects), closed \in BOOLEAN :
            \E es \in SortedEntries(os) :
               LET f == PackFile(os, IF closed THEN Len(os) ELSE 0, es)
               IN  \E n \in 0..Len(f) :
                      Begin("pack", "unpack", [objects |-> os, closed |-> closed,
                                               whole |-> closed /\ n = Len(f),
                                               file |-> SubSeq(f, 1, n)])
      BY DEF Init, Begin
    <2>7. PICK es \in SortedEntries(os) :
            LET f == PackFile(os, IF closed THEN Len(os) ELSE 0, es)
            IN  \E n \in 0..Len(f) :
                   Begin("pack", "unpack", [objects |-> os, closed |-> closed,
                                            whole |-> closed /\ n = Len(f),
                                            file |-> SubSeq(f, 1, n)])
      BY <2>1
    <2> DEFINE f == PackFile(os, IF closed THEN Len(os) ELSE 0, es)
    <2>2. PICK n \in 0..Len(f) : /\ step = "unpack"
                                 /\ given = [objects |-> os, closed |-> closed,
                                             whole |-> closed /\ n = Len(f),
                                             file |-> SubSeq(f, 1, n)]
      BY <2>7 DEF Begin
    <2>3. os \in Seq(Object)
      <3>1. MaxObjects \in Nat
        BY LibraryBounds
      <3> QED BY <3>1, BoundedIsSeq
    <2>4. n \in Nat
      OBVIOUS
    <2>5. /\ given.objects = os /\ given.closed = closed
          /\ given.whole = (closed /\ n = Len(f)) /\ given.file = SubSeq(f, 1, n)
      BY <2>2
    <2>6. f = PackFile(given.objects, IF given.closed THEN Len(given.objects) ELSE 0, es)
      BY <2>5
    <2> HIDE DEF f
    <2> QED BY <2>2, <2>3, <2>4, <2>5, <2>6 DEF PackInv
  <1>2. ASSUME PackInv, [Next]_vars PROVE PackInv'
    <2>1. CASE call # "pack"
      <3>1. call' # "pack"
        BY <1>2, <2>1 DEF Next, vars, Compute, Encode, ApplyPatch, SplitBoth, Plan, Unpack,
                          IndexDocs, SearchDocs, Greet, Receive, HangUp, Go
      <3> QED BY <3>1 DEF PackInv
    <2>2. CASE call = "pack"
      <3>1. CASE UNCHANGED vars
        BY <1>2, <3>1 DEF vars, PackInv
      <3>2. CASE Next
        <4>1. step \in {"unpack", "done"}
          BY <1>2, <2>2 DEF PackInv
        <4>2. Unpack
          BY <3>2, <4>1 DEF Next, Compute, Encode, ApplyPatch, SplitBoth, Plan, IndexDocs,
                            SearchDocs, Greet, Receive, HangUp
        <4> QED BY <1>2, <2>2, <4>2 DEF Unpack, Go, PackInv
      <3> QED BY <1>2, <3>1, <3>2
    <2> QED BY <2>1, <2>2
  <1> QED BY <1>1, <1>2, PTL DEF Spec

\* PackHonest, whatever the objects, their sizes and the range of offsets are, wherever
\* the file is cut: UnpackObjects stores nothing but what AddObject was given, takes no
\* part of a finished pack for the whole, and reads every whole one.
THEOREM UnpackedAsPacked == Spec => []PackHonest
  <1>1. ASSUME PackInv PROVE PackHonest
    <2> SUFFICES ASSUME step = "done", call = "pack" PROVE PackHonest
      BY DEF PackHonest, Done
    <2> DEFINE os == given.objects
               c == IF given.closed THEN Len(os) ELSE 0
    <2>1. PICK es \in SortedEntries(os), n \in Nat :
              /\ n \in 0..Len(PackFile(os, c, es)) /\ given.file = SubSeq(PackFile(os, c, es), 1, n)
              /\ given.whole = (given.closed /\ n = Len(PackFile(os, c, es)))
      BY <1>1 DEF PackInv
    <2>2. os \in Seq(Object) /\ c \in {0, Len(os)} /\ (given.closed => c = Len(os))
          /\ got = UnpackObjects(given.file)
      BY <1>1 DEF PackInv
    <2> HIDE DEF os, c
    <2> DEFINE f == PackFile(os, c, es)
               g == given.file
    <2>3. n \in 0..Len(f) /\ g = SubSeq(f, 1, n) /\ got = UnpackObjects(g) /\ f = PackFile(os, c, es)
          /\ (given.whole => n = Len(f))
      BY <2>1, <2>2
    <2> HIDE DEF f, g
    <2>4. Unpacked(os, c, f, n, got)
      BY <2>1, <2>2, <2>3, UnpackIs
    <2>5. given.whole => given.closed
      BY <2>1, Zenon
    <2> QED BY <2>2, <2>3, <2>4, <2>5, Zenon DEF PackHonest, Unpacked, os
  <1> QED BY <1>1, PackStays, PTL

\* The files that a search finds are those of the index made of the files.
SearchInv ==
    call = "search" =>
        /\ given.docs \in [Docs -> [kind : {"code", "markdown", "other"}, words : Seq(Seq(STRING))]]
        /\ given.query.terms \in Seq(Seq(STRING)) /\ given.query.max = MaxResults
        /\ step \in {"index", "search", "done"}
        /\ step # "index" => made = Update(given.docs)
        /\ step = "done" => got \in Results(made, given.query)

\* SearchInv is inductive.
LEMMA SearchStays == Spec => []SearchInv
  <1>1. Init => SearchInv
    <2> SUFFICES ASSUME Init, call = "search" PROVE SearchInv
      BY DEF SearchInv
    <2> DEFINE Kinds == {"code", "markdown", "other"}
    <2>1. PICK docs \in [Docs -> [kind : Kinds, words : BoundedSeq(Word, 2)]],
               ts \in BoundedSeq(Word, 2), cs \in BOOLEAN :
              Begin("search", "index", [docs |-> docs,
                    query |-> [terms |-> ts, caseSensitive |-> cs, max |-> MaxResults]])
      BY DEF Init, Begin
    <2>2. \A s \in BoundedSeq(Word, 2) : s \in Seq(Seq(STRING))
      <3> TAKE s \in BoundedSeq(Word, 2)
      <3>1. s \in Seq(Word) /\ Word \subseteq Seq(STRING)
        BY BoundedIsSeq, SearchAssumption
      <3> QED BY <3>1
    <2> HIDE DEF Kinds
    <2>3. [kind : Kinds, words : BoundedSeq(Word, 2)] \subseteq [kind : Kinds, words : Seq(Seq(STRING))]
      BY <2>2
    <2>4. docs \in [Docs -> [kind : Kinds, words : Seq(Seq(STRING))]] /\ ts \in Seq(Seq(STRING))
      BY <2>2, <2>3
    <2>5. step = "index" /\ given.docs = docs /\ given.query.terms = ts /\ given.query.max = MaxResults
      BY <2>1 DEF Begin
    <2> QED BY <2>4, <2>5 DEF SearchInv, Kinds
  <1>2. ASSUME SearchInv, [Next]_vars PROVE SearchInv'
    <2>1. CASE call # "search"
      <3>1. call' # "search"
        BY <1>2, <2>1 DEF Next, vars, Compute, Encode, ApplyPatch, SplitBoth, Plan, Unpack,
                          IndexDocs, SearchDocs, Greet, Receive, HangUp, Go
      <3> QED BY <3>1 DEF SearchInv
    <2>2. CASE call = "search"
      <3>1. CASE UNCHANGED vars
        BY <1>2, <3>1 DEF vars, SearchInv
      <3>2. CASE Next
        <4>1. step \in {"index", "search", "done"}
          BY <1>2, <2>2 DEF SearchInv
        <4>2. IndexDocs \/ SearchDocs
          BY <3>2, <4>1 DEF Next, Compute, Encode, ApplyPatch, SplitBoth, Plan, Unpack,
                            Greet, Receive, HangUp
        <4>3. CASE IndexDocs
          BY <1>2, <2>2, <4>3 DEF IndexDocs, Go, SearchInv
        <4>4. CASE SearchDocs
          BY <1>2, <2>2, <4>4 DEF SearchDocs, Go, SearchInv
        <4> QED BY <4>2, <4>3, <4>4
      <3> QED BY <1>2, <3>1, <3>2
    <2> QED BY <2>1, <2>2
  <1> QED BY <1>1, <1>2, PTL DEF Spec

\* As many of a finite set as asked for, zero asking for all.
LEMMA AsManyAsAsked ==
    ASSUME NEW found, IsFiniteSet(found), NEW max \in Nat, NEW some,
           some \in kSubset(IF max = 0 THEN Cardinality(found)
                                       ELSE Min({max, Cardinality(found)}), found)
    PROVE  /\ some \subseteq found /\ (Cardinality(some) <= max \/ max = 0)
           /\ some = found \/ (max # 0 /\ Cardinality(some) = max)
  <1> DEFINE n == Cardinality(found)
             size == IF max = 0 THEN n ELSE Min({max, n})
  <1>1. n \in Nat
    BY FS_CardinalityType
  <1>2. some \subseteq found /\ Cardinality(some) = size
    BY DEF kSubset
  <1>3. Cardinality(some) = n => some = found
    BY <1>2, FS_Subset
  <1> HIDE DEF n
  <1>4. max # 0 => size = IF max <= n THEN max ELSE n
    BY <1>1, OfTwo
  <1> HIDE DEF size
  <1>5. max = 0 => size = n
    BY DEF size
  <1> QED BY <1>1, <1>2, <1>3, <1>4, <1>5

\* SearchExact, whatever the letters, files and terms are: SearchDocs finds only files
\* with all terms in their words, and all files with the terms among their words if
\* it is not asked for fewer.
THEOREM FoundAsIndexed == Spec => []SearchExact
  <1>1. ASSUME SearchInv PROVE SearchExact
    <2> SUFFICES ASSUME step = "done", call = "search" PROVE SearchExact
      BY DEF SearchExact, Done
    <2> DEFINE docs == given.docs
               query == given.query
               ts == query.terms
               terms == ToSet(ts)
               found == Found(Update(docs), query)
               full == MaxResults # 0 /\ Cardinality(got) = MaxResults
    <2>1. /\ docs \in [Docs -> [kind : {"code", "markdown", "other"}, words : Seq(Seq(STRING))]]
          /\ ts \in Seq(Seq(STRING)) /\ query.max = MaxResults
          /\ got \in Results(Update(docs), query)
      BY <1>1 DEF SearchInv
    <2>2. \A t \in terms : t \in Seq(STRING)
      BY <2>1 DEF ToSet
    <2>3. (terms = {} <=> ts = <<>>) /\ terms = {ts[i] : i \in DOMAIN ts}
      <3>1. terms = {ts[i] : i \in DOMAIN ts}
        BY DEF ToSet
      <3>2. DOMAIN ts = 1..Len(ts) /\ Len(ts) \in Nat /\ (ts = <<>> <=> Len(ts) = 0)
        BY <2>1
      <3> HIDE DEF terms, ts
      <3>3. ts = <<>> => terms = {}
        BY <3>1, <3>2
      <3>4. ts # <<>> => ts[1] \in terms
        BY <3>1, <3>2
      <3> QED BY <3>1, <3>3, <3>4
    <2> HIDE DEF terms, ts, docs, query, full
    <2>4. found = {d \in Docs : /\ ts # <<>>
                                /\ \A i \in DOMAIN ts : Term(ts[i], query.caseSensitive) \in Update(docs)[d]}
      <3>1. DOMAIN Update(docs) = Docs
        BY <2>1 DEF Update
      <3> QED BY <3>1 DEF Found, ts
    <2>5. \A d \in Docs : /\ docs[d].words \in Seq(Seq(STRING))
                          /\ Update(docs)[d] = IF docs[d].kind = "other" THEN {}
                                               ELSE Tokenize(docs[d].kind, docs[d].words)
      <3> TAKE d \in Docs
      <3>1. docs[d] \in [kind : {"code", "markdown", "other"}, words : Seq(Seq(STRING))] /\ d \in DOMAIN docs
        BY <2>1
      <3> QED BY <3>1 DEF Update
    <2> HIDE DEF found
    <2>6. IsFiniteSet(found)
      <3>1. found \subseteq Docs /\ IsFiniteSet(Docs)
        BY <2>4, SearchAssumption
      <3> QED BY <3>1, FS_Subset
    <2>7. MaxResults \in Nat
      BY LibraryBounds
    <2>8. /\ got \subseteq found /\ (Cardinality(got) <= MaxResults \/ MaxResults = 0)
          /\ got = found \/ full
      <3>1. got \in kSubset(IF MaxResults = 0 THEN Cardinality(found)
                                              ELSE Min({MaxResults, Cardinality(found)}), found)
        BY <2>1 DEF Results, found
      <3> QED BY <2>6, <2>7, <3>1, AsManyAsAsked DEF full
    <2>9. ASSUME NEW d \in got
          PROVE  /\ terms # {} /\ docs[d].kind # "other"
                 /\ \A t \in terms : \E w \in ToSet(docs[d].words) : PartOf(t, w)
      <3> DEFINE kind == docs[d].kind
                 ws == docs[d].words
                 cs == query.caseSensitive
      <3>1. d \in Docs /\ ts # <<>> /\ \A i \in DOMAIN ts : Term(ts[i], cs) \in Update(docs)[d]
        BY <2>4, <2>8
      <3>2. \A t \in terms : Term(t, cs) \in Update(docs)[d]
        BY <2>3, <3>1
      <3>3. kind # "other"
        <4>1. PICK t \in terms : TRUE
          BY <2>3, <3>1
        <4> QED BY <2>5, <3>1, <3>2, <4>1
      <3>4. ws \in Seq(Seq(STRING)) /\ Update(docs)[d] = Tokenize(kind, ws)
        BY <2>5, <3>1, <3>3
      <3> HIDE DEF kind, ws, cs
      <3>5. ASSUME NEW t \in terms PROVE \E w \in ToSet(ws) : PartOf(t, w)
        BY <2>2, <3>2, <3>4, TokensAre
      <3> QED BY <2>3, <3>1, <3>3, <3>5 DEF kind, ws
    <2>10. ASSUME NEW d \in Docs, d \notin got, docs[d].kind # "other", terms # {}, ~full
           PROVE  \E t \in terms : ~Plain(t) \/ t \notin ToSet(docs[d].words)
      <3> DEFINE kind == docs[d].kind
                 ws == docs[d].words
                 cs == query.caseSensitive
      <3>1. d \notin found
        BY <2>8, <2>10
      <3>2. PICK i \in DOMAIN ts : Term(ts[i], cs) \notin Update(docs)[d]
        BY <2>3, <2>4, <2>10, <3>1
      <3> DEFINE t == ts[i]
      <3>3. t \in terms /\ t \in Seq(STRING)
        BY <2>2, <2>3
      <3>4. ws \in Seq(Seq(STRING)) /\ Update(docs)[d] = Tokenize(kind, ws)
        BY <2>5, <2>10
      <3> HIDE DEF kind, ws, cs, t
      <3>5. Term(t, cs) \notin Tokenize(kind, ws)
        BY <3>2, <3>4 DEF t, cs
      <3>6. ~Plain(t) \/ t \notin ToSet(ws)
        BY <3>3, <3>4, <3>5, TokensAre
      <3> QED BY <3>3, <3>6 DEF ws
    <2> QED BY <2>8, <2>9, <2>10 DEF SearchExact, terms, ts, docs, query, full
  <1> QED BY <1>1, SearchStays, PTL
=============================================================================
